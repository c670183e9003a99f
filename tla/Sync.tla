-------------------------------- MODULE Sync --------------------------------
(***************************************************************************)
(* The synchronisation primitives of common/sync.hpp and sync.cpp that AOO   *)
(* builds itself: semaphore and event (a counter in front of the system's    *)
(* semaphore), shared_spinlock (a word with a LOCKED bit and a reader        *)
(* count) and shared_recursive_mutex (an owner in front of the system's      *)
(* reader-writer lock).  Every atomic access is a step.  The threads of a    *)
(* behaviour all use the one object that Init chooses.                       *)
(***************************************************************************)
EXTENDS Integers, Sequences, FiniteSets

CONSTANTS Threads, None,
          LOCKED,    \* the LOCKED bit; the state word has one more bit below 2 * LOCKED
          MaxDepth,  \* bound: nested locks of one thread
          MaxCalls   \* bound: calls on the semaphore or event

\* There are fewer threads than the reader count of the state word can count.
ASSUME ThreadsAssumption ==
    /\ IsFiniteSet(Threads) /\ None \notin Threads
    /\ LOCKED \in Nat /\ Cardinality(Threads) < LOCKED

VARIABLES object,           \* "semaphore", "event", "spinlock" or "mutex"
          count, native,    \* count_ and the value of the system's semaphore
          state,            \* state_ of the spin lock
          owner, depth, rw, \* owner_ and count_ of the mutex; who is inside the system's lock
          thread, calls

vars == <<object, count, native, state, owner, depth, rw, thread, calls>>

\* held: the locks a thread holds, the innermost last, as booleans "exclusive".
Idle == [pc |-> "idle", old |-> 0, held |-> <<>>]

Init ==
    /\ object \in {"semaphore", "event", "spinlock", "mutex"}
    /\ count = 0 /\ native = 0 /\ state = 0
    /\ owner = None /\ depth = 0 /\ rw = {}
    /\ thread = [t \in Threads |-> Idle]
    /\ calls = 0

At(t, pc) == thread[t].pc = pc
Goto(t, pc) == thread' = [thread EXCEPT ![t].pc = pc]

-----------------------------------------------------------------------------
(* semaphore and event                                                       *)

counters == <<count, native, calls>>
locks == <<state, owner, depth, rw>>

\* post() of a semaphore; set() of an event, whose loop does not count past 1.
post(t) ==
    /\ object \in {"semaphore", "event"} /\ At(t, "idle") /\ calls < MaxCalls
    /\ calls' = calls + 1
    /\ count' = IF object = "event" /\ count >= 0 THEN 1 ELSE count + 1
    /\ Goto(t, IF count < 0 THEN "signal" ELSE "idle")
    /\ UNCHANGED <<object, native, locks>>

signal(t) ==
    /\ At(t, "signal")
    /\ native' = native + 1
    /\ Goto(t, "idle")
    /\ UNCHANGED <<object, count, calls, locks>>

\* wait() and wait_for()
wait(t, pc) ==
    /\ object \in {"semaphore", "event"} /\ At(t, "idle") /\ calls < MaxCalls
    /\ calls' = calls + 1
    /\ count' = count - 1
    /\ Goto(t, IF count > 0 THEN "idle" ELSE pc)
    /\ UNCHANGED <<object, native, locks>>

woken(t) ==
    /\ thread[t].pc \in {"wait", "wait_for"} /\ native > 0
    /\ native' = native - 1
    /\ Goto(t, "idle")
    /\ UNCHANGED <<object, count, calls, locks>>

timeout(t) ==
    /\ At(t, "wait_for")
    /\ Goto(t, "adjust")
    /\ UNCHANGED <<object, counters, locks>>

\* The loop of wait_for() after a timeout: the count is loaded, then either the
\* signal that was sent in the meantime is taken or the count is put back.
adjust_load(t) ==
    /\ At(t, "adjust")
    /\ thread' = [thread EXCEPT ![t].pc = "adjust_cas", ![t].old = count]
    /\ UNCHANGED <<object, counters, locks>>

adjust_blindly(t) ==
    /\ At(t, "adjust_cas")
    /\ count' = count + 1
    /\ thread' = [thread EXCEPT ![t] = Idle]
    /\ UNCHANGED <<object, native, calls, locks>>

adjust(t) ==
    LET old == thread[t].old IN
    /\ At(t, "adjust_cas")
    /\ \/ /\ old >= 0 /\ native > 0
          /\ native' = native - 1
          /\ thread' = [thread EXCEPT ![t] = Idle]
          /\ UNCHANGED count
       \/ /\ old < 0 /\ count = old
          /\ count' = old + 1
          /\ thread' = [thread EXCEPT ![t] = Idle]
          /\ UNCHANGED native
       \/ /\ IF old >= 0 THEN native = 0 ELSE count # old
          /\ thread' = [thread EXCEPT ![t].pc = "adjust", ![t].old = 0]
          /\ UNCHANGED <<count, native>>
    /\ UNCHANGED <<object, calls, locks>>

Semaphore(t) ==
    \/ post(t) \/ signal(t) \/ wait(t, "wait") \/ wait(t, "wait_for")
    \/ woken(t) \/ timeout(t) \/ adjust_load(t) \/ adjust(t)

-----------------------------------------------------------------------------
(* shared_spinlock                                                           *)

Word(n) == n % (2 * LOCKED)
Locked(word) == word >= LOCKED

Acquired(t, exclusive) ==
    thread' = [thread EXCEPT ![t].pc = "idle", ![t].held = Append(@, exclusive)]

Released(t) == thread' = [thread EXCEPT ![t].held = SubSeq(@, 1, Len(@) - 1)]

\* lock(): the compare-and-swap that succeeds; until then it spins.
lock(t) ==
    /\ object = "spinlock" /\ At(t, "idle") /\ thread[t].held = <<>>
    /\ state = 0
    /\ state' = LOCKED
    /\ Acquired(t, TRUE)
    /\ UNCHANGED <<object, counters, owner, depth, rw>>

unlock_store(t) ==
    /\ object = "spinlock" /\ thread[t].held = <<TRUE>>
    /\ state' = 0
    /\ Released(t)
    /\ UNCHANGED <<object, counters, owner, depth, rw>>

unlock(t) ==
    /\ object = "spinlock" /\ thread[t].held = <<TRUE>>
    /\ state' = IF Locked(state) THEN state - LOCKED ELSE state
    /\ Released(t)
    /\ UNCHANGED <<object, counters, owner, depth, rw>>

\* lock_shared(): a look at the state, then try_lock_shared(), which counts the
\* reader first and takes it back when the lock was held.
lock_shared(t) ==
    /\ object = "spinlock" /\ At(t, "idle") /\ thread[t].held = <<>>
    /\ ~Locked(state)
    /\ Goto(t, "try")
    /\ UNCHANGED <<object, counters, locks>>

try_lock_shared(t) ==
    /\ At(t, "try")
    /\ state' = Word(state + 1)
    /\ IF Locked(state) THEN Goto(t, "undo") ELSE Acquired(t, FALSE)
    /\ UNCHANGED <<object, counters, owner, depth, rw>>

undo_shared(t) ==
    /\ At(t, "undo")
    /\ state' = Word(state - 1)
    /\ Goto(t, "idle")
    /\ UNCHANGED <<object, counters, owner, depth, rw>>

unlock_shared(t) ==
    /\ object = "spinlock" /\ thread[t].held = <<FALSE>>
    /\ state' = Word(state - 1)
    /\ Released(t)
    /\ UNCHANGED <<object, counters, owner, depth, rw>>

Spinlock(t) ==
    \/ lock(t) \/ unlock(t) \/ lock_shared(t) \/ try_lock_shared(t)
    \/ undo_shared(t) \/ unlock_shared(t)

-----------------------------------------------------------------------------
(* shared_recursive_mutex.  rw holds <<t, exclusive>> for each thread inside   *)
(* the system's lock.  Locks are scoped, so the innermost is released first;  *)
(* a thread whose outermost lock is shared takes no other ("lock() and        *)
(* try_lock() may only be called recursively if the topmost lock is           *)
(* exclusive").                                                              *)

MayLock(t) ==
    /\ object = "mutex" /\ At(t, "idle") /\ Len(thread[t].held) < MaxDepth
    /\ thread[t].held # <<>> => thread[t].held[1]

lock_recursive(t) ==
    /\ MayLock(t)
    /\ \/ owner # t /\ rw = {} /\ rw' = {<<t, TRUE>>}
       \/ owner = t /\ UNCHANGED rw
    /\ owner' = t
    /\ depth' = depth + 1
    /\ Acquired(t, TRUE)
    /\ UNCHANGED <<object, counters, state>>

unlock_recursive(t) ==
    /\ object = "mutex" /\ thread[t].held # <<>> /\ thread[t].held[Len(thread[t].held)]
    /\ depth' = depth - 1
    /\ owner' = IF depth = 1 THEN None ELSE owner
    /\ rw' = IF depth = 1 THEN rw \ {<<t, TRUE>>} ELSE rw
    /\ Released(t)
    /\ UNCHANGED <<object, counters, state>>

lock_shared_recursive(t) ==
    /\ MayLock(t)
    /\ \/ owner # t /\ (\A h \in rw : ~h[2]) /\ rw' = rw \cup {<<t, FALSE>>}
       \/ owner = t /\ UNCHANGED rw
    /\ Acquired(t, FALSE)
    /\ UNCHANGED <<object, counters, state, owner, depth>>

unlock_shared_recursive(t) ==
    /\ object = "mutex" /\ thread[t].held # <<>> /\ ~thread[t].held[Len(thread[t].held)]
    /\ rw' = IF owner # t THEN rw \ {<<t, FALSE>>} ELSE rw
    /\ Released(t)
    /\ UNCHANGED <<object, counters, state, owner, depth>>

Mutex(t) ==
    \/ lock_recursive(t) \/ unlock_recursive(t)
    \/ lock_shared_recursive(t) \/ unlock_shared_recursive(t)

-----------------------------------------------------------------------------
Next == \E t \in Threads : Semaphore(t) \/ Spinlock(t) \/ Mutex(t)

Spec == Init /\ [][Next]_vars

Waiters == {t \in Threads : thread[t].pc \in {"wait", "wait_for", "adjust", "adjust_cas"}}
Signals == {t \in Threads : thread[t].pc = "signal"}

\* A thread that waits is either still announced in count_ or there is a signal
\* for it, sent or about to be sent, and there is no signal for anyone else:
\* otherwise a wait() would sleep through a post(), or return for none, when a
\* wait_for() times out at the moment of a post() (sync.cpp:391).
SignalForEveryWaiter ==
    native + Cardinality(Signals)
      = Cardinality(Waiters) - (IF count < 0 THEN -count ELSE 0)

\* A thread that holds a lock exclusively is alone in it, and a lock that nobody
\* holds or is taking can be locked again: a reader that counts itself just
\* before the writer unlocks must neither get in nor be forgotten in the count
\* (sync.hpp:235), and nested locks of the owner must not release it early.
LockedAlone ==
    /\ \A t \in Threads : \A i \in DOMAIN thread[t].held :
         thread[t].held[i] => \A u \in Threads \ {t} : thread[u].held = <<>>
    /\ (\A t \in Threads : thread[t] = Idle) => state = 0 /\ rw = {} /\ owner = None

\* The synchronisation objects of common/sync: no lost or surplus wake-up, and
\* exclusive locks exclude.
LocksSound == SignalForEveryWaiter /\ LockedAlone
=============================================================================
