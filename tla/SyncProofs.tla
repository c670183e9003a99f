---------------------------- MODULE SyncProofs ----------------------------
(***************************************************************************)
(* The synchronisation objects are sound for any number of threads below   *)
(* the LOCKED bit, any depth of nested locks and any number of calls.      *)
(***************************************************************************)
EXTENDS Sync, FiniteSetTheorems, SequenceTheorems, TLAPS

\* A leaf that names no prover is tried with each of these in turn.
USE SMT, Zenon, SMTT(30)

WaitPcs == {"wait", "wait_for", "adjust", "adjust_cas"}
SemPcs == WaitPcs \cup {"idle", "signal"}
SpinPcs == {"idle", "try", "undo"}

ThreadType == [pc : SemPcs \cup SpinPcs, old : Int, held : Seq(BOOLEAN)]

TypeOK ==
    /\ object \in {"semaphore", "event", "spinlock", "mutex"}
    /\ count \in Int /\ native \in Nat /\ depth \in Int /\ state \in Int
    /\ thread \in [Threads -> ThreadType]

Held(t) == thread[t].held

\* The threads that state_ of the spin lock counts, and the one that has it locked.
Readers == {t \in Threads : Held(t) = <<FALSE>> \/ thread[t].pc = "undo"}
Writers == {t \in Threads : Held(t) = <<TRUE>>}

Semaphores ==
    /\ \A t \in Threads : Held(t) = <<>> /\ thread[t].pc \in SemPcs
    /\ state = 0 /\ owner = None /\ rw = {}

\* The word of the spin lock is the number of readers, those that are about to take
\* themselves back included, and the LOCKED bit.
SpinWord ==
    /\ \A t \in Threads : /\ thread[t].pc \in SpinPcs
                          /\ Held(t) \in {<<>>, <<FALSE>>, <<TRUE>>}
                          /\ thread[t].pc # "idle" => Held(t) = <<>>
    /\ \A t \in Writers : \A u \in Threads \ {t} : Held(u) = <<>>
    /\ state = Cardinality(Readers) + (IF Writers = {} THEN 0 ELSE LOCKED)
    /\ owner = None /\ rw = {}

\* The exclusive locks among nested ones.
Exclusive(h) == {i \in 1 .. Len(h) : h[i]}

\* The owner of the mutex is alone, and its depth is the number of its exclusive locks.
MutexOwner ==
    /\ \A t \in Threads : thread[t].pc = "idle"
    /\ state = 0
    /\ owner = None =>
          /\ depth = 0
          /\ \A t \in Threads : Held(t) \in {<<>>, <<FALSE>>}
          /\ rw = {<<t, FALSE>> : t \in {u \in Threads : Held(u) = <<FALSE>>}}
    /\ owner # None =>
          /\ owner \in Threads
          /\ Held(owner) # <<>> /\ Held(owner)[1]
          /\ depth = Cardinality(Exclusive(Held(owner)))
          /\ \A t \in Threads \ {owner} : Held(t) = <<>>
          /\ rw = {<<owner, TRUE>>}

\* The inductive invariant.
IInv ==
    /\ TypeOK
    /\ SignalForEveryWaiter
    /\ object \in {"semaphore", "event"} => Semaphores
    /\ object = "spinlock" => SpinWord
    /\ object = "mutex" => MutexOwner

-----------------------------------------------------------------------------
(* Counting threads                                                        *)

LEMMA CountThreads ==
    ASSUME NEW S \in SUBSET Threads, NEW t \in Threads
    PROVE  /\ IsFiniteSet(S) /\ Cardinality(S) \in 0 .. Cardinality(Threads)
           /\ Cardinality(S) \in Nat /\ Cardinality(Threads) \in Nat
           /\ Cardinality(S) = 0 <=> S = {}
           /\ t \in S => Cardinality(S \ {t}) = Cardinality(S) - 1
           /\ t \notin S => Cardinality(S \cup {t}) = Cardinality(S) + 1
<1>1. IsFiniteSet(Threads) /\ Cardinality(Threads) \in Nat
  BY ThreadsAssumption, FS_CardinalityType
<1>2. IsFiniteSet(S) /\ Cardinality(S) \in Nat /\ Cardinality(S) \in 0 .. Cardinality(Threads)
  BY <1>1, FS_Subset, FS_CardinalityType
<1>3. Cardinality(S) = 0 <=> S = {}
  BY <1>2, FS_EmptySet
<1>4. t \in S => Cardinality(S \ {t}) = Cardinality(S) - 1
  BY <1>2, FS_RemoveElement
<1>5. t \notin S => Cardinality(S \cup {t}) = Cardinality(S) + 1
  BY <1>2, FS_AddElement
<1> QED  BY <1>1, <1>2, <1>3, <1>4, <1>5

\* The count of a set of threads that t enters, leaves or does not.
LEMMA CountChange ==
    ASSUME NEW S \in SUBSET Threads, NEW R \in SUBSET Threads, NEW t \in Threads,
           \A u \in Threads \ {t} : u \in S <=> u \in R
    PROVE  /\ Cardinality(S) \in Nat /\ Cardinality(R) \in Nat
           /\ (t \in S <=> t \in R) => Cardinality(R) = Cardinality(S)
           /\ t \in S /\ t \notin R => Cardinality(R) = Cardinality(S) - 1
           /\ t \notin S /\ t \in R => Cardinality(R) = Cardinality(S) + 1
<1>1. Cardinality(S) \in Nat /\ Cardinality(R) \in Nat
  BY CountThreads
<1>2. (t \in S <=> t \in R) => R = S
  OBVIOUS
<1>3. ASSUME t \in S, t \notin R
      PROVE  Cardinality(R) = Cardinality(S) - 1
  <2>1. R = S \ {t}
    BY <1>3
  <2> QED  BY <1>3, <2>1, CountThreads
<1>4. ASSUME t \notin S, t \in R
      PROVE  Cardinality(R) = Cardinality(S) + 1
  <2>1. R = S \cup {t}
    BY <1>4
  <2> QED  BY <1>4, <2>1, CountThreads
<1> QED  BY <1>1, <1>2, <1>3, <1>4

\* One thread goes on.
LEMMA OneThread ==
    ASSUME TypeOK, NEW t \in Threads, NEW x \in ThreadType,
           thread' = [thread EXCEPT ![t] = x]
    PROVE  /\ thread' \in [Threads -> ThreadType] /\ thread'[t] = x
           /\ \A u \in Threads \ {t} : thread'[u] = thread[u]
  BY DEF TypeOK

\* What a thread adds to the waiters and to the signals, and the waiters that count_
\* still announces.
Waits(pc) == IF pc \in WaitPcs THEN 1 ELSE 0
Sends(pc) == IF pc = "signal" THEN 1 ELSE 0
Debt(c) == IF c < 0 THEN -c ELSE 0

\* How the waiters and signals change when a thread goes on.
LEMMA CountStep ==
    ASSUME TypeOK, NEW t \in Threads, NEW x \in ThreadType,
           thread' = [thread EXCEPT ![t] = x]
    PROVE  /\ Cardinality(Waiters) \in Nat /\ Cardinality(Signals) \in Nat
           /\ Cardinality(Waiters') =
                 Cardinality(Waiters) + Waits(x.pc)
                                      - Waits(thread[t].pc)
           /\ Cardinality(Signals') =
                 Cardinality(Signals) + Sends(x.pc)
                                      - Sends(thread[t].pc)
<1>1. /\ thread'[t] = x
      /\ \A u \in Threads \ {t} : thread'[u] = thread[u]
  BY OneThread
<1>2. Waiters \in SUBSET Threads /\ Signals \in SUBSET Threads
  BY DEF Waiters, Signals
<1>3. t \in Waiters <=> thread[t].pc \in WaitPcs
  BY DEF Waiters, WaitPcs
<1>4. t \in Signals <=> thread[t].pc = "signal"
  BY DEF Signals
<1>5. /\ Waiters' \in SUBSET Threads
      /\ t \in Waiters' <=> x.pc \in WaitPcs
      /\ \A u \in Threads \ {t} : u \in Waiters <=> u \in Waiters'
  BY <1>1 DEF Waiters, WaitPcs
<1>6. /\ Signals' \in SUBSET Threads
      /\ t \in Signals' <=> x.pc = "signal"
      /\ \A u \in Threads \ {t} : u \in Signals <=> u \in Signals'
  BY <1>1 DEF Signals
<1> DEFINE W == Waiters  Wn == Waiters'  S == Signals  Sn == Signals'
<1>7. /\ Cardinality(W) \in Nat /\ Cardinality(Wn) \in Nat
      /\ (t \in W <=> t \in Wn) => Cardinality(Wn) = Cardinality(W)
      /\ t \in W /\ t \notin Wn => Cardinality(Wn) = Cardinality(W) - 1
      /\ t \notin W /\ t \in Wn => Cardinality(Wn) = Cardinality(W) + 1
  BY <1>2, <1>5, CountChange
<1>8. /\ Cardinality(S) \in Nat /\ Cardinality(Sn) \in Nat
      /\ (t \in S <=> t \in Sn) => Cardinality(Sn) = Cardinality(S)
      /\ t \in S /\ t \notin Sn => Cardinality(Sn) = Cardinality(S) - 1
      /\ t \notin S /\ t \in Sn => Cardinality(Sn) = Cardinality(S) + 1
  BY <1>2, <1>6, CountChange
<1>9. Cardinality(Wn) = Cardinality(W) + Waits(x.pc)
                                       - Waits(thread[t].pc)
  BY <1>3, <1>5, <1>7 DEF Waits
<1>10. Cardinality(Sn) = Cardinality(S) + Sends(x.pc)
                                        - Sends(thread[t].pc)
  BY <1>4, <1>6, <1>8 DEF Sends
<1> QED  BY <1>7, <1>8, <1>9, <1>10

-----------------------------------------------------------------------------
(* semaphore and event                                                     *)

\* A step of a thread of a semaphore or event that keeps the balance of waiters and
\* signals preserves the invariant.
LEMMA SemaphoreKept ==
    ASSUME IInv, NEW t \in Threads, NEW x \in ThreadType,
           object \in {"semaphore", "event"}, UNCHANGED <<object, locks>>,
           thread' = [thread EXCEPT ![t] = x],
           x.held = <<>>, x.pc \in SemPcs, count' \in Int, native' \in Nat,
           native' + Sends(x.pc)
                   - Sends(thread[t].pc)
                   - Waits(x.pc)
                   + Waits(thread[t].pc)
                   + Debt(count')
             = native + Debt(count)
    PROVE  IInv'
<1>1. TypeOK'
  BY OneThread DEF IInv, TypeOK, locks
<1>2. Semaphores'
  BY OneThread DEF IInv, Semaphores, Held, locks
<1>3. SignalForEveryWaiter'
  <2> DEFINE W == Cardinality(Waiters)  Wn == Cardinality(Waiters')
             S == Cardinality(Signals)  Sn == Cardinality(Signals')
  <2>1. /\ W \in Nat /\ S \in Nat
        /\ Wn = W + Waits(x.pc)
                  - Waits(thread[t].pc)
        /\ Sn = S + Sends(x.pc)
                  - Sends(thread[t].pc)
    BY CountStep DEF IInv
  <2> DEFINE d == Debt(count)  dn == Debt(count')  n == native  nn == native'
             w == Waits(thread[t].pc)  wn == Waits(x.pc)
             c == Sends(thread[t].pc)  cn == Sends(x.pc)
  <2>2. n + S = W - d
    BY DEF IInv, SignalForEveryWaiter, Debt
  <2>3. /\ n \in Int /\ nn \in Int /\ d \in Int /\ dn \in Int
        /\ w \in Int /\ wn \in Int /\ c \in Int /\ cn \in Int
    BY DEF IInv, TypeOK, Debt, Waits, Sends
  <2>4. Wn = W + wn - w /\ Sn = S + cn - c /\ W \in Int /\ S \in Int
    BY <2>1
  <2>5. nn + cn - c - wn + w + dn = n + d
    OBVIOUS
  <2> HIDE DEF W, Wn, S, Sn, d, dn, n, nn, w, wn, c, cn
  <2>6. nn + Sn = Wn - dn
    BY <2>2, <2>3, <2>4, <2>5
  <2> QED  BY <2>6 DEF SignalForEveryWaiter, Wn, Sn, Debt, nn, dn
<1> QED  BY <1>1, <1>2, <1>3 DEF IInv, locks

LEMMA SemaphoreStep ==
    ASSUME IInv, NEW t \in Threads, Semaphore(t)
    PROVE  IInv'
<1> DEFINE r == thread[t]
<1>1. /\ r \in ThreadType /\ r.pc \in SemPcs \cup SpinPcs /\ r.old \in Int
      /\ count \in Int /\ native \in Nat
      /\ object \in {"semaphore", "event", "spinlock", "mutex"}
  BY DEF IInv, TypeOK, ThreadType
<1>2. object \in {"semaphore", "event"}
  BY <1>1 DEF IInv, Semaphore, post, wait, signal, woken, timeout, adjust_load, adjust, At,
              SpinWord, MutexOwner, SpinPcs
<1>3. r.held = <<>>
  BY <1>2 DEF IInv, Semaphores, Held
<1>4. Idle \in ThreadType /\ Idle.pc = "idle" /\ Idle.held = <<>>
  BY DEF Idle, ThreadType, SpinPcs
<1>5. ASSUME NEW pc \in SemPcs
      PROVE  /\ [r EXCEPT !.pc = pc] \in ThreadType
             /\ [r EXCEPT !.pc = pc].pc = pc
             /\ [r EXCEPT !.pc = pc].held = <<>>
  BY <1>1, <1>3 DEF ThreadType
<1>6. CASE post(t)
  <2> DEFINE x == [r EXCEPT !.pc = IF count < 0 THEN "signal" ELSE "idle"]
  <2>1. thread' = [thread EXCEPT ![t] = x]
    BY <1>6 DEF post, Goto
  <2>2. /\ x \in ThreadType /\ x.held = <<>>
        /\ x.pc = IF count < 0 THEN "signal" ELSE "idle"
    BY <1>5 DEF SemPcs
  <2> HIDE DEF x
  <2>3. r.pc = "idle" /\ UNCHANGED <<object, native, locks>>
        /\ count' = IF object = "event" /\ count >= 0 THEN 1 ELSE count + 1
    BY <1>6 DEF post, At
  <2>4. count' \in Int /\ native' \in Nat
    BY <1>1, <2>3
  <2>5. native' + Sends(x.pc)
                - Sends(r.pc)
                - Waits(x.pc)
                + Waits(r.pc)
                + Debt(count')
          = native + Debt(count)
    BY <1>1, <2>2, <2>3 DEF WaitPcs, Waits, Sends, Debt
  <2> QED  BY <1>2, <2>1, <2>2, <2>3, <2>4, <2>5, SemaphoreKept DEF SemPcs
<1>7. CASE signal(t)
  <2> DEFINE x == [r EXCEPT !.pc = "idle"]
  <2>1. thread' = [thread EXCEPT ![t] = x]
    BY <1>7 DEF signal, Goto
  <2>2. x \in ThreadType /\ x.held = <<>> /\ x.pc = "idle"
    BY <1>5 DEF SemPcs, WaitPcs
  <2> HIDE DEF x
  <2>3. /\ r.pc = "signal"
        /\ UNCHANGED <<object, locks>>
        /\ count' = count /\ native' = native + 1
    BY <1>7 DEF signal, At
  <2>4. count' \in Int /\ native' \in Nat
    BY <1>1, <2>3
  <2>5. native' + Sends(x.pc) - Sends(r.pc) - Waits(x.pc) + Waits(r.pc) + Debt(count')
          = native + Debt(count)
    BY <1>1, <2>2, <2>3 DEF WaitPcs, Waits, Sends, Debt
  <2> QED  BY <1>2, <2>1, <2>2, <2>3, <2>4, <2>5, SemaphoreKept DEF SemPcs, WaitPcs
<1>8. ASSUME NEW pc \in {"wait", "wait_for"}, wait(t, pc)
      PROVE  IInv'
  <2> DEFINE x == [r EXCEPT !.pc = IF count > 0 THEN "idle" ELSE pc]
  <2>1. thread' = [thread EXCEPT ![t] = x]
    BY <1>8 DEF wait, Goto
  <2>2. x \in ThreadType /\ x.held = <<>> /\ x.pc = (IF count > 0 THEN "idle" ELSE pc)
    BY <1>5, <1>8 DEF SemPcs, WaitPcs
  <2> HIDE DEF x
  <2>3. /\ r.pc = "idle"
        /\ UNCHANGED <<object, locks>>
        /\ count' = count - 1 /\ native' = native
    BY <1>8 DEF wait, At
  <2>4. count' \in Int /\ native' \in Nat
    BY <1>1, <2>3
  <2>5. native' + Sends(x.pc) - Sends(r.pc) - Waits(x.pc) + Waits(r.pc) + Debt(count')
          = native + Debt(count)
    BY <1>1, <1>8, <2>2, <2>3 DEF WaitPcs, Waits, Sends, Debt
  <2> QED  BY <1>2, <1>8, <2>1, <2>2, <2>3, <2>4, <2>5, SemaphoreKept DEF SemPcs, WaitPcs
<1>9. CASE woken(t)
  <2> DEFINE x == [r EXCEPT !.pc = "idle"]
  <2>1. thread' = [thread EXCEPT ![t] = x]
    BY <1>9 DEF woken, Goto
  <2>2. x \in ThreadType /\ x.held = <<>> /\ x.pc = "idle"
    BY <1>5 DEF SemPcs, WaitPcs
  <2> HIDE DEF x
  <2>3. /\ r.pc \in {"wait", "wait_for"} /\ native > 0
        /\ UNCHANGED <<object, locks>>
        /\ count' = count /\ native' = native - 1
    BY <1>9 DEF woken, At
  <2>4. count' \in Int /\ native' \in Nat
    BY <1>1, <2>3
  <2>5. native' + Sends(x.pc) - Sends(r.pc) - Waits(x.pc) + Waits(r.pc) + Debt(count')
          = native + Debt(count)
    BY <1>1, <2>2, <2>3 DEF WaitPcs, Waits, Sends, Debt
  <2> QED  BY <1>2, <2>1, <2>2, <2>3, <2>4, <2>5, SemaphoreKept DEF SemPcs, WaitPcs
<1>10. CASE timeout(t)
  <2> DEFINE x == [r EXCEPT !.pc = "adjust"]
  <2>1. thread' = [thread EXCEPT ![t] = x]
    BY <1>10 DEF timeout, Goto
  <2>2. x \in ThreadType /\ x.held = <<>> /\ x.pc = "adjust"
    BY <1>5 DEF SemPcs, WaitPcs
  <2> HIDE DEF x
  <2>3. /\ r.pc = "wait_for"
        /\ UNCHANGED <<object, locks>>
        /\ count' = count /\ native' = native
    BY <1>10 DEF timeout, At, counters
  <2>4. count' \in Int /\ native' \in Nat
    BY <1>1, <2>3
  <2>5. native' + Sends(x.pc) - Sends(r.pc) - Waits(x.pc) + Waits(r.pc) + Debt(count')
          = native + Debt(count)
    BY <1>1, <2>2, <2>3 DEF WaitPcs, Waits, Sends, Debt
  <2> QED  BY <1>2, <2>1, <2>2, <2>3, <2>4, <2>5, SemaphoreKept DEF SemPcs, WaitPcs
<1>11. CASE adjust_load(t)
  <2> DEFINE x == [r EXCEPT !.pc = "adjust_cas", !.old = count]
  <2>1. thread' = [thread EXCEPT ![t] = x]
    BY <1>11 DEF adjust_load
  <2>2. x \in ThreadType /\ x.held = <<>> /\ x.pc = "adjust_cas"
    BY <1>1, <1>3 DEF ThreadType, SemPcs, WaitPcs
  <2> HIDE DEF x
  <2>3. /\ r.pc = "adjust"
        /\ UNCHANGED <<object, locks>>
        /\ count' = count /\ native' = native
    BY <1>11 DEF adjust_load, At, counters
  <2>4. count' \in Int /\ native' \in Nat
    BY <1>1, <2>3
  <2>5. native' + Sends(x.pc) - Sends(r.pc) - Waits(x.pc) + Waits(r.pc) + Debt(count')
          = native + Debt(count)
    BY <1>1, <2>2, <2>3 DEF WaitPcs, Waits, Sends, Debt
  <2> QED  BY <1>2, <2>1, <2>2, <2>3, <2>4, <2>5, SemaphoreKept DEF SemPcs, WaitPcs
<1>12. CASE adjust(t)
  <2>1. CASE r.old >= 0 /\ native > 0 /\ native' = native - 1 /\ UNCHANGED count
             /\ thread' = [thread EXCEPT ![t] = Idle]
    <3> DEFINE x == Idle
    <3>1. thread' = [thread EXCEPT ![t] = x]
      BY <2>1 DEF adjust
    <3>2. x \in ThreadType /\ x.held = <<>> /\ x.pc = "idle"
      BY <1>4 DEF ThreadType, SemPcs, WaitPcs
    <3> HIDE DEF x
    <3>3. /\ r.pc = "adjust_cas" /\ native > 0
          /\ UNCHANGED <<object, locks>>
          /\ count' = count /\ native' = native - 1
      BY <1>12, <2>1 DEF adjust, At
    <3>4. count' \in Int /\ native' \in Nat
      BY <1>1, <3>3
    <3>5. native' + Sends(x.pc) - Sends(r.pc) - Waits(x.pc) + Waits(r.pc) + Debt(count')
            = native + Debt(count)
      BY <1>1, <3>2, <3>3 DEF WaitPcs, Waits, Sends, Debt
    <3> QED  BY <1>2, <3>1, <3>2, <3>3, <3>4, <3>5, SemaphoreKept DEF SemPcs, WaitPcs
  <2>2. CASE r.old < 0 /\ count = r.old /\ count' = r.old + 1 /\ UNCHANGED native
             /\ thread' = [thread EXCEPT ![t] = Idle]
    <3> DEFINE x == Idle
    <3>1. thread' = [thread EXCEPT ![t] = x]
      BY <2>2 DEF adjust
    <3>2. x \in ThreadType /\ x.held = <<>> /\ x.pc = "idle"
      BY <1>4 DEF ThreadType, SemPcs, WaitPcs
    <3> HIDE DEF x
    <3>3. /\ r.pc = "adjust_cas" /\ count < 0
          /\ UNCHANGED <<object, locks>>
          /\ count' = count + 1 /\ native' = native
      BY <1>12, <2>2 DEF adjust, At
    <3>4. count' \in Int /\ native' \in Nat
      BY <1>1, <3>3
    <3>5. native' + Sends(x.pc) - Sends(r.pc) - Waits(x.pc) + Waits(r.pc) + Debt(count')
            = native + Debt(count)
      BY <1>1, <3>2, <3>3 DEF WaitPcs, Waits, Sends, Debt
    <3> QED  BY <1>2, <3>1, <3>2, <3>3, <3>4, <3>5, SemaphoreKept DEF SemPcs, WaitPcs
  <2>3. CASE UNCHANGED <<count, native>>
             /\ thread' = [thread EXCEPT ![t].pc = "adjust", ![t].old = 0]
    <3> DEFINE x == [r EXCEPT !.pc = "adjust", !.old = 0]
    <3>1. thread' = [thread EXCEPT ![t] = x]
      BY <2>3 DEF adjust
    <3>2. x \in ThreadType /\ x.held = <<>> /\ x.pc = "adjust"
      <4> DEFINE zero == 0
      <4>1. zero \in Int
        OBVIOUS
      <4> HIDE DEF zero
      <4>2. x = [r EXCEPT !.pc = "adjust", !.old = zero]
        BY DEF zero
      <4> QED  BY <1>1, <1>3, <4>1, <4>2 DEF ThreadType, SemPcs, WaitPcs
    <3> HIDE DEF x
    <3>3. /\ r.pc = "adjust_cas"
          /\ UNCHANGED <<object, locks>>
          /\ count' = count /\ native' = native
      BY <1>12, <2>3 DEF adjust, At
    <3>4. count' \in Int /\ native' \in Nat
      BY <1>1, <3>3
    <3>5. native' + Sends(x.pc) - Sends(r.pc) - Waits(x.pc) + Waits(r.pc) + Debt(count')
            = native + Debt(count)
      BY <1>1, <3>2, <3>3 DEF WaitPcs, Waits, Sends, Debt
    <3> QED  BY <1>2, <3>1, <3>2, <3>3, <3>4, <3>5, SemaphoreKept DEF SemPcs, WaitPcs
  <2> QED  BY <1>12, <2>1, <2>2, <2>3 DEF adjust
<1> QED  BY <1>6, <1>7, <1>8, <1>9, <1>10, <1>11, <1>12 DEF Semaphore

-----------------------------------------------------------------------------
(* shared_spinlock                                                         *)

\* Locks leave the semaphores alone.
LEMMA NoWaiter ==
    ASSUME IInv, NEW t \in Threads, NEW x \in ThreadType,
           thread' = [thread EXCEPT ![t] = x], UNCHANGED counters,
           thread[t].pc \in SpinPcs, x.pc \in SpinPcs
    PROVE  SignalForEveryWaiter'
<1>1. TypeOK
  BY DEF IInv
<1>2. /\ Waits(x.pc) = 0 /\ Waits(thread[t].pc) = 0
      /\ Sends(x.pc) = 0 /\ Sends(thread[t].pc) = 0
  BY DEF Waits, Sends, SpinPcs, WaitPcs
<1>3. Cardinality(Waiters') = Cardinality(Waiters) /\ Cardinality(Signals') = Cardinality(Signals)
  <2> DEFINE W == Cardinality(Waiters)  Wn == Cardinality(Waiters')
             S == Cardinality(Signals)  Sn == Cardinality(Signals')
  <2>1. /\ W \in Nat /\ S \in Nat
        /\ Wn = W + Waits(x.pc) - Waits(thread[t].pc)
        /\ Sn = S + Sends(x.pc) - Sends(thread[t].pc)
    BY <1>1, CountStep
  <2> HIDE DEF W, Wn, S, Sn
  <2>2. Wn = W /\ Sn = S
    BY <1>2, <2>1
  <2> QED  BY <2>2 DEF W, Wn, S, Sn
<1>4. count' = count /\ native' = native
  BY DEF counters
<1> QED  BY <1>3, <1>4 DEF IInv, SignalForEveryWaiter

LEMMA SmallWord ==
    ASSUME NEW n \in Nat, n < 2 * LOCKED
    PROVE  Word(n) = n
<1> DEFINE k == 2 * LOCKED
<1>1. k \in Nat
  BY ThreadsAssumption
<1> HIDE DEF k
<1>2. n % k = n
  BY <1>1 DEF k
<1> QED  BY <1>2 DEF Word, k

\* What a thread adds to the state word.
Share(r) == (IF r.held = <<FALSE>> \/ r.pc = "undo" THEN 1 ELSE 0)
            + (IF r.held = <<TRUE>> THEN LOCKED ELSE 0)

\* A step of a thread of the spin lock: it gets in only beside readers, or alone, and
\* adds to the word what it is.
SpinMove(t, x) ==
    /\ object = "spinlock" /\ UNCHANGED <<object, counters, owner, depth, rw>>
    /\ thread' = [thread EXCEPT ![t] = x]
    /\ x.pc \in SpinPcs /\ x.held \in {<<>>, <<FALSE>>, <<TRUE>>}
    /\ x.pc # "idle" => x.held = <<>>
    /\ x.held # <<>> => \A u \in Threads \ {t} : Held(u) # <<TRUE>>
    /\ x.held = <<TRUE>> => \A u \in Threads \ {t} : Held(u) = <<>>
    /\ state' \in Int /\ state' - Share(x) = state - Share(thread[t])

LEMMA SpinKept ==
    ASSUME IInv, NEW t \in Threads, NEW x \in ThreadType, SpinMove(t, x)
    PROVE  IInv'
<1> DEFINE r == thread[t]
<1>1. /\ thread' \in [Threads -> ThreadType] /\ thread'[t] = x
      /\ \A u \in Threads \ {t} : thread'[u] = thread[u]
  BY OneThread DEF IInv, SpinMove
<1>2. TypeOK'
  BY <1>1 DEF IInv, TypeOK, counters, SpinMove
<1>3. SpinWord
  BY DEF IInv, SpinMove
<1>4. SignalForEveryWaiter'
  BY <1>3, NoWaiter DEF SpinWord, SpinMove
<1>5. \A u \in Threads : /\ thread'[u].pc \in SpinPcs
                         /\ thread'[u].held \in {<<>>, <<FALSE>>, <<TRUE>>}
                         /\ thread'[u].pc # "idle" => thread'[u].held = <<>>
  BY <1>1, <1>3 DEF SpinWord, Held, SpinMove
<1>6. \A v \in Writers' : \A u \in Threads \ {v} : thread'[u].held = <<>>
  <2> SUFFICES ASSUME NEW v \in Threads, thread'[v].held = <<TRUE>>, NEW u \in Threads \ {v}
               PROVE  thread'[u].held = <<>>
    BY DEF Writers, Held
  <2>1. CASE v = t
    BY <1>1, <2>1 DEF Held, SpinMove
  <2>2. CASE v # t
    BY <1>1, <1>3, <2>2 DEF SpinWord, Writers, Held, SpinMove
  <2> QED  BY <2>1, <2>2
<1> DEFINE R == Readers  Rn == Readers'  W == Writers  Wn == Writers'
<1>7. /\ R \in SUBSET Threads /\ Rn \in SUBSET Threads
      /\ t \in R <=> (r.held = <<FALSE>> \/ r.pc = "undo")
      /\ t \in Rn <=> (x.held = <<FALSE>> \/ x.pc = "undo")
      /\ \A u \in Threads \ {t} : u \in R <=> u \in Rn
  BY <1>1 DEF Readers, Held
<1>8. /\ Cardinality(R) \in Nat /\ Cardinality(Rn) \in Nat
      /\ (t \in R <=> t \in Rn) => Cardinality(Rn) = Cardinality(R)
      /\ t \in R /\ t \notin Rn => Cardinality(Rn) = Cardinality(R) - 1
      /\ t \notin R /\ t \in Rn => Cardinality(Rn) = Cardinality(R) + 1
  BY <1>7, CountChange
<1>9. /\ r.held = <<TRUE>> /\ x.held = <<TRUE>> => W # {} /\ Wn # {}
      /\ r.held = <<TRUE>> /\ x.held # <<TRUE>> => W # {} /\ Wn = {}
      /\ r.held # <<TRUE>> /\ x.held = <<TRUE>> => W = {} /\ Wn # {}
      /\ r.held # <<TRUE>> /\ x.held # <<TRUE>> => W = Wn
  <2>1. /\ t \in W <=> r.held = <<TRUE>>
        /\ t \in Wn <=> x.held = <<TRUE>>
        /\ W \in SUBSET Threads /\ Wn \in SUBSET Threads
        /\ \A u \in Threads \ {t} : u \in W <=> u \in Wn
    BY <1>1 DEF Writers, Held
  <2>2. <<>> # <<TRUE>>
    OBVIOUS
  <2>3. r.held = <<TRUE>> => \A u \in Threads \ {t} : u \notin W
    BY <1>3, <2>2 DEF SpinWord, Writers, Held
  <2>4. x.held = <<TRUE>> => \A u \in Threads \ {t} : u \notin W
    BY <2>2 DEF Writers, Held, SpinMove
  <2> HIDE DEF W, Wn
  <2>5. r.held = <<TRUE>> /\ x.held = <<TRUE>> => W # {} /\ Wn # {}
    BY <2>1
  <2>6. r.held = <<TRUE>> /\ x.held # <<TRUE>> => W # {} /\ Wn = {}
    BY <2>1, <2>3
  <2>7. r.held # <<TRUE>> /\ x.held = <<TRUE>> => W = {} /\ Wn # {}
    BY <2>1, <2>4
  <2>8. r.held # <<TRUE>> /\ x.held # <<TRUE>> => W = Wn
    <3> SUFFICES ASSUME r.held # <<TRUE>>, x.held # <<TRUE>>
                 PROVE  W = Wn
      OBVIOUS
    <3>1. \A u \in Threads : u \in W <=> u \in Wn
      BY <2>1
    <3> QED  BY <2>1, <3>1
  <2> QED  BY <2>5, <2>6, <2>7, <2>8
<1>10. state' = Cardinality(Rn) + (IF Wn = {} THEN 0 ELSE LOCKED)
  <2>1. state = Cardinality(R) + (IF W = {} THEN 0 ELSE LOCKED)
    BY <1>3 DEF SpinWord
  <2>2. LOCKED \in Nat
    BY ThreadsAssumption
  <2> DEFINE c == Cardinality(R)  cn == Cardinality(Rn)
             l == IF W = {} THEN 0 ELSE LOCKED  ln == IF Wn = {} THEN 0 ELSE LOCKED
             a == IF r.held = <<FALSE>> \/ r.pc = "undo" THEN 1 ELSE 0
             an == IF x.held = <<FALSE>> \/ x.pc = "undo" THEN 1 ELSE 0
             b == IF r.held = <<TRUE>> THEN LOCKED ELSE 0
             bn == IF x.held = <<TRUE>> THEN LOCKED ELSE 0
             s == state  sn == state'
  <2>3. cn = c + an - a
    <3>1. /\ t \in R => a = 1
          /\ t \notin R => a = 0
          /\ t \in Rn => an = 1
          /\ t \notin Rn => an = 0
      BY <1>7
    <3> HIDE DEF R, Rn, a, an
    <3> QED  BY <1>8, <3>1
  <2>4. ln - l = bn - b
    <3>1. CASE r.held = <<TRUE>> /\ x.held = <<TRUE>>
      <4>1. l = LOCKED /\ ln = LOCKED /\ b = LOCKED /\ bn = LOCKED
        BY <1>9, <3>1
      <4> QED  BY <2>2, <4>1
    <3>2. CASE r.held = <<TRUE>> /\ x.held # <<TRUE>>
      <4>1. l = LOCKED /\ ln = 0 /\ b = LOCKED /\ bn = 0
        BY <1>9, <3>2
      <4> QED  BY <2>2, <4>1
    <3>3. CASE r.held # <<TRUE>> /\ x.held = <<TRUE>>
      <4>1. l = 0 /\ ln = LOCKED /\ b = 0 /\ bn = LOCKED
        BY <1>9, <3>3
      <4> QED  BY <2>2, <4>1
    <3>4. CASE r.held # <<TRUE>> /\ x.held # <<TRUE>>
      <4>1. W = Wn /\ b = 0 /\ bn = 0
        BY <1>9, <3>4
      <4> HIDE DEF W, Wn
      <4>2. l = ln /\ l \in Int
        BY <2>2, <4>1
      <4> HIDE DEF l, ln, b, bn
      <4> QED  BY <4>1, <4>2
    <3> QED  BY <3>1, <3>2, <3>3, <3>4
  <2>5. /\ a \in Int /\ an \in Int /\ b \in Int /\ bn \in Int /\ c \in Int
        /\ l \in Int /\ ln \in Int /\ sn \in Int
    BY <1>8, <2>2 DEF SpinMove
  <2>6. sn - (an + bn) = s - (a + b) /\ s = c + l
    BY <2>1 DEF Share, SpinMove
  <2> HIDE DEF c, cn, l, ln, a, an, b, bn, s, sn
  <2>7. sn = cn + ln
    BY <2>3, <2>4, <2>5, <2>6
  <2> QED  BY <2>7 DEF sn, cn, ln
<1>11. SpinWord'
  BY <1>3, <1>5, <1>6, <1>10 DEF SpinWord, Held, SpinMove
<1> QED  BY <1>2, <1>4, <1>11 DEF IInv, SpinMove

\* The word tells whether the lock is held, and whether anybody has counted themselves.
LEMMA SpinState ==
    ASSUME IInv, object = "spinlock", NEW t \in Threads
    PROVE  /\ state \in Nat /\ state < 2 * LOCKED
           /\ Locked(state) => Writers # {}
           /\ ~Locked(state) => Writers = {}
           /\ state = 0 => Readers = {} /\ Writers = {}
           /\ t \notin Readers => state + 1 < 2 * LOCKED
           /\ t \in Readers => state > 0
           /\ t \in Writers => state >= LOCKED
<1> DEFINE c == Cardinality(Readers)  k == Cardinality(Threads)
<1>1. state = c + (IF Writers = {} THEN 0 ELSE LOCKED)
  BY DEF IInv, SpinWord
<1>2. c \in Nat /\ k \in Nat /\ c \in 0 .. k /\ (c = 0 <=> Readers = {})
  BY CountThreads DEF Readers
<1>3. LOCKED \in Nat /\ k < LOCKED
  BY ThreadsAssumption
<1>4. t \notin Readers => c + 1 \in 0 .. k
  <2>1. Readers \in SUBSET Threads
    BY DEF Readers
  <2>2. t \notin Readers => Cardinality(Readers \cup {t}) = c + 1
    BY <2>1, CountThreads
  <2>3. Cardinality(Readers \cup {t}) \in 0 .. k
    BY <2>1, CountThreads
  <2> QED  BY <2>2, <2>3
<1> HIDE DEF c, k
<1>5. CASE Writers = {}
  BY <1>1, <1>2, <1>3, <1>4, <1>5 DEF Locked
<1>6. CASE Writers # {}
  <2>1. state = c + LOCKED
    BY <1>1, <1>6
  <2> QED  BY <1>2, <1>3, <1>4, <1>6, <2>1 DEF Locked
<1> QED  BY <1>5, <1>6

\* Short locks, and what the three moves of a thread make of it.
LEMMA ShortLocks ==
    /\ <<>> # <<TRUE>> /\ <<>> # <<FALSE>> /\ <<TRUE>> # <<FALSE>>
    /\ \A b \in BOOLEAN : /\ <<b>> \in Seq(BOOLEAN) /\ Append(<<>>, b) = <<b>>
                           /\ SubSeq(<<b>>, 1, Len(<<b>>) - 1) = <<>>
  OBVIOUS

LEMMA AcquireFirst ==
    ASSUME TypeOK, NEW t \in Threads, NEW b \in BOOLEAN, thread[t].held = <<>>, Acquired(t, b)
    PROVE  \E x \in ThreadType : /\ thread' = [thread EXCEPT ![t] = x]
                                 /\ x.pc = "idle" /\ x.held = <<b>>
<1> DEFINE x == [thread[t] EXCEPT !.pc = "idle", !.held = Append(@, b)]
<1>1. thread' = [thread EXCEPT ![t] = x]
  BY DEF Acquired
<1>2. x.pc = "idle" /\ x.held = <<b>>
  BY ShortLocks DEF TypeOK, ThreadType
<1>3. x \in ThreadType
  BY ShortLocks DEF TypeOK, ThreadType, SpinPcs
<1> QED  BY <1>1, <1>2, <1>3

LEMMA ReleaseLast ==
    ASSUME TypeOK, NEW t \in Threads, NEW b \in BOOLEAN, thread[t].held = <<b>>, Released(t)
    PROVE  \E x \in ThreadType : /\ thread' = [thread EXCEPT ![t] = x]
                                 /\ x.pc = thread[t].pc /\ x.held = <<>>
<1> DEFINE h == SubSeq(thread[t].held, 1, Len(thread[t].held) - 1)
           x == [thread[t] EXCEPT !.held = h]
<1>1. thread' = [thread EXCEPT ![t] = x]
  BY DEF Released
<1>2. h = <<>> /\ h \in Seq(BOOLEAN)
  BY ShortLocks
<1> HIDE DEF h
<1>3. x \in ThreadType /\ x.pc = thread[t].pc /\ x.held = <<>>
  BY <1>2 DEF TypeOK, ThreadType
<1> QED  BY <1>1, <1>2, <1>3

LEMMA GoOn ==
    ASSUME TypeOK, NEW t \in Threads, NEW pc \in SpinPcs, Goto(t, pc)
    PROVE  \E x \in ThreadType : /\ thread' = [thread EXCEPT ![t] = x]
                                 /\ x.pc = pc /\ x.held = thread[t].held
<1> DEFINE x == [thread[t] EXCEPT !.pc = pc]
<1>1. thread' = [thread EXCEPT ![t] = x]
  BY DEF Goto
<1>2. x.pc = pc /\ x.held = thread[t].held /\ x \in ThreadType
  BY DEF TypeOK, ThreadType
<1> QED  BY <1>1, <1>2

LEMMA SpinlockStep ==
    ASSUME IInv, NEW t \in Threads, Spinlock(t)
    PROVE  IInv'
<1> DEFINE r == thread[t]
<1>1. /\ TypeOK /\ r \in ThreadType /\ state \in Int /\ LOCKED \in Nat
      /\ object \in {"semaphore", "event", "spinlock", "mutex"}
  BY ThreadsAssumption DEF IInv, TypeOK
<1>2. object = "spinlock"
  BY <1>1 DEF IInv, Spinlock, lock, unlock, lock_shared, try_lock_shared, undo_shared,
              unlock_shared, At, Semaphores, SemPcs, WaitPcs, MutexOwner
<1>3. /\ SpinWord /\ r.pc \in SpinPcs
      /\ r.pc # "idle" => r.held = <<>>
  BY <1>2 DEF IInv, SpinWord, Held
<1>4. /\ state \in Nat /\ state < 2 * LOCKED
      /\ Locked(state) => Writers # {}
      /\ ~Locked(state) => Writers = {}
      /\ state = 0 => Readers = {} /\ Writers = {}
      /\ t \notin Readers => state + 1 < 2 * LOCKED
      /\ t \in Readers => state > 0
      /\ t \in Writers => state >= LOCKED
  BY <1>2, SpinState
<1>5. CASE lock(t)
  <2>1. /\ r.pc = "idle" /\ r.held = <<>> /\ state = 0 /\ state' = LOCKED
        /\ Acquired(t, TRUE) /\ UNCHANGED <<object, counters, owner, depth, rw>>
    BY <1>5 DEF lock, At
  <2>2. PICK x \in ThreadType : /\ thread' = [thread EXCEPT ![t] = x]
                                /\ x.pc = "idle" /\ x.held = <<TRUE>>
    BY <1>1, <2>1, AcquireFirst
  <2>3. \A u \in Threads : Held(u) = <<>>
    BY <1>3, <1>4, <2>1 DEF SpinWord, Readers, Writers
  <2>4. Share(x) = LOCKED /\ Share(r) = 0
    BY <1>1, <2>1, <2>2, ShortLocks DEF Share
  <2>5. state' - Share(x) = state - Share(r) /\ state' \in Int
    BY <1>1, <2>1, <2>4
  <2>6. SpinMove(t, x)
    BY <1>2, <2>1, <2>2, <2>3, <2>5, ShortLocks DEF SpinMove, SpinPcs
  <2> QED  BY <2>6, SpinKept
<1>6. CASE unlock(t)
  <2>1. /\ r.held = <<TRUE>> /\ state' = IF Locked(state) THEN state - LOCKED ELSE state
        /\ Released(t) /\ UNCHANGED <<object, counters, owner, depth, rw>>
    BY <1>6 DEF unlock
  <2>2. PICK x \in ThreadType : /\ thread' = [thread EXCEPT ![t] = x]
                                /\ x.pc = r.pc /\ x.held = <<>>
    BY <1>1, <2>1, ReleaseLast
  <2>3. r.pc = "idle" /\ t \in Writers
    BY <1>3, <2>1, ShortLocks DEF Writers, Held
  <2>4. Share(x) = 0 /\ Share(r) = LOCKED
    BY <1>1, <2>1, <2>2, <2>3, ShortLocks DEF Share
  <2>5. state' - Share(x) = state - Share(r) /\ state' \in Int
    BY <1>1, <1>4, <2>1, <2>3, <2>4 DEF Locked
  <2>6. SpinMove(t, x)
    BY <1>2, <1>3, <2>1, <2>2, <2>5, <2>3, ShortLocks DEF SpinMove, SpinPcs
  <2> QED  BY <2>6, SpinKept
<1>7. CASE lock_shared(t)
  <2>1. /\ r.held = <<>> /\ r.pc = "idle" /\ Goto(t, "try") /\ UNCHANGED <<object, counters, locks>>
    BY <1>7 DEF lock_shared, At
  <2>2. PICK x \in ThreadType : /\ thread' = [thread EXCEPT ![t] = x]
                                /\ x.pc = "try" /\ x.held = r.held
    BY <1>1, <2>1, GoOn DEF SpinPcs
  <2>3. Share(x) = 0 /\ Share(r) = 0
    BY <1>1, <2>1, <2>2, ShortLocks DEF Share
  <2>4. state' - Share(x) = state - Share(r) /\ state' \in Int
    BY <1>1, <2>1, <2>3 DEF locks
  <2>5. SpinMove(t, x)
    BY <1>2, <2>1, <2>2, <2>4, ShortLocks DEF SpinMove, SpinPcs, locks
  <2> QED  BY <2>5, SpinKept
<1>8. CASE try_lock_shared(t)
  <2>1. /\ r.pc = "try" /\ r.held = <<>> /\ state' = Word(state + 1)
        /\ IF Locked(state) THEN Goto(t, "undo") ELSE Acquired(t, FALSE)
        /\ UNCHANGED <<object, counters, owner, depth, rw>>
    BY <1>3, <1>8 DEF try_lock_shared, At
  <2>2. t \notin Readers
    BY <2>1, ShortLocks DEF Readers, Held
  <2>3. state' = state + 1
    BY <1>4, <2>1, <2>2, SmallWord
  <2>4. Share(r) = 0
    BY <1>1, <2>1, ShortLocks DEF Share
  <2>5. CASE Locked(state)
    <3>1. PICK x \in ThreadType : /\ thread' = [thread EXCEPT ![t] = x]
                                  /\ x.pc = "undo" /\ x.held = r.held
      BY <1>1, <2>1, <2>5, GoOn DEF SpinPcs
    <3>2. Share(x) = 1
      BY <1>1, <2>1, <3>1, ShortLocks DEF Share
    <3>3. state' - Share(x) = state - Share(r) /\ state' \in Int
      BY <1>1, <2>3, <2>4, <3>2
    <3>4. SpinMove(t, x)
      BY <1>2, <2>1, <3>1, <3>3, ShortLocks DEF SpinMove, SpinPcs
    <3> QED  BY <3>4, SpinKept
  <2>6. CASE ~Locked(state)
    <3>1. PICK x \in ThreadType : /\ thread' = [thread EXCEPT ![t] = x]
                                  /\ x.pc = "idle" /\ x.held = <<FALSE>>
      BY <1>1, <2>1, <2>6, AcquireFirst
    <3>2. Share(x) = 1
      BY <1>1, <3>1, ShortLocks DEF Share
    <3>3. state' - Share(x) = state - Share(r) /\ state' \in Int
      BY <1>1, <2>3, <2>4, <3>2
    <3>4. \A u \in Threads : Held(u) # <<TRUE>>
      BY <1>4, <2>6 DEF Writers
    <3>5. SpinMove(t, x)
      BY <1>2, <2>1, <3>1, <3>3, <3>4, ShortLocks DEF SpinMove, SpinPcs
    <3> QED  BY <3>5, SpinKept
  <2> QED  BY <2>5, <2>6
<1>9. CASE undo_shared(t)
  <2>1. /\ r.pc = "undo" /\ r.held = <<>> /\ state' = Word(state - 1) /\ Goto(t, "idle")
        /\ UNCHANGED <<object, counters, owner, depth, rw>>
    BY <1>3, <1>9 DEF undo_shared, At
  <2>2. t \in Readers
    BY <2>1 DEF Readers
  <2>3. state - 1 \in Nat /\ state - 1 < 2 * LOCKED
    BY <1>1, <1>4, <2>2
  <2>4. state' = state - 1
    BY <2>1, <2>3, SmallWord
  <2>5. PICK x \in ThreadType : /\ thread' = [thread EXCEPT ![t] = x]
                                /\ x.pc = "idle" /\ x.held = r.held
    BY <1>1, <2>1, GoOn DEF SpinPcs
  <2>6. Share(x) = 0 /\ Share(r) = 1
    BY <1>1, <2>1, <2>5, ShortLocks DEF Share
  <2>7. state' - Share(x) = state - Share(r) /\ state' \in Int
    BY <1>1, <2>4, <2>6
  <2>8. SpinMove(t, x)
    BY <1>2, <2>1, <2>5, <2>7, ShortLocks DEF SpinMove, SpinPcs
  <2> QED  BY <2>8, SpinKept
<1>10. CASE unlock_shared(t)
  <2>1. /\ r.held = <<FALSE>> /\ state' = Word(state - 1) /\ Released(t)
        /\ UNCHANGED <<object, counters, owner, depth, rw>>
    BY <1>10 DEF unlock_shared
  <2>2. t \in Readers /\ r.pc = "idle"
    BY <1>3, <2>1, ShortLocks DEF Readers, Held
  <2>3. state - 1 \in Nat /\ state - 1 < 2 * LOCKED
    BY <1>1, <1>4, <2>2
  <2>4. state' = state - 1
    BY <2>1, <2>3, SmallWord
  <2>5. PICK x \in ThreadType : /\ thread' = [thread EXCEPT ![t] = x]
                                /\ x.pc = r.pc /\ x.held = <<>>
    BY <1>1, <2>1, ReleaseLast
  <2>6. Share(x) = 0 /\ Share(r) = 1
    BY <1>1, <2>1, <2>2, <2>5, ShortLocks DEF Share
  <2>7. state' - Share(x) = state - Share(r) /\ state' \in Int
    BY <1>1, <2>4, <2>6
  <2>8. SpinMove(t, x)
    BY <1>2, <2>1, <2>2, <2>5, <2>7, ShortLocks DEF SpinMove, SpinPcs
  <2> QED  BY <2>8, SpinKept
<1> QED  BY <1>5, <1>6, <1>7, <1>8, <1>9, <1>10 DEF Spinlock

-----------------------------------------------------------------------------
(* shared_recursive_mutex                                                  *)

\* The exclusive locks of a thread that takes one more.
LEMMA OneMore ==
    ASSUME NEW h \in Seq(BOOLEAN), NEW b \in BOOLEAN
    PROVE  /\ Append(h, b) \in Seq(BOOLEAN) /\ Append(h, b) # <<>>
           /\ h # <<>> => Append(h, b)[1] = h[1]
           /\ Cardinality(Exclusive(h)) \in Nat
           /\ b => Cardinality(Exclusive(Append(h, b))) = Cardinality(Exclusive(h)) + 1
           /\ ~b => Cardinality(Exclusive(Append(h, b))) = Cardinality(Exclusive(h))
<1> DEFINE a == Append(h, b)  E == Exclusive(h)
<1>1. /\ a \in Seq(BOOLEAN) /\ Len(h) \in Nat /\ Len(a) = Len(h) + 1
      /\ \A i \in 1 .. Len(h) : a[i] = h[i]
      /\ a[Len(h) + 1] = b
  OBVIOUS
<1>2. IsFiniteSet(E) /\ Cardinality(E) \in Nat
  <2>1. E \in SUBSET (1 .. Len(h)) /\ 1 \in Int /\ Len(h) \in Int
    BY <1>1 DEF Exclusive
  <2> QED  BY <2>1, FS_Interval, FS_Subset, FS_CardinalityType
<1>3. a # <<>> /\ (h # <<>> => a[1] = h[1])
  <2>1. h # <<>> => Len(h) > 0
    BY <1>1
  <2>2. h # <<>> => 1 \in 1 .. Len(h)
    BY <1>1, <2>1
  <2>3. Len(<<>>) = 0
    OBVIOUS
  <2> HIDE DEF a
  <2> QED  BY <1>1, <2>2, <2>3
<1> HIDE DEF a
<1>4. ASSUME b
      PROVE  Cardinality(Exclusive(a)) = Cardinality(E) + 1
  <2>1. Exclusive(a) = E \cup {Len(h) + 1} /\ Len(h) + 1 \notin E
    <3> DEFINE k == Len(h) + 1
    <3>1. k \in Nat /\ Len(h) = k - 1 /\ Len(a) = k /\ a[k]
      BY <1>1, <1>4
    <3>2. \A i \in 1 .. k - 1 : a[i] = h[i]
      BY <1>1, <3>1
    <3> HIDE DEF k
    <3>3. \A i : i \in Exclusive(a) <=> i \in E \cup {k}
      BY <3>1, <3>2 DEF Exclusive
    <3>4. k \notin E
      BY <3>1 DEF Exclusive
    <3> QED  BY <3>3, <3>4 DEF k
  <2> HIDE DEF E
  <2> QED  BY <1>2, <2>1, FS_AddElement
<1>5. ASSUME ~b
      PROVE  Exclusive(a) = E
  BY <1>1, <1>5 DEF Exclusive
<1> QED  BY <1>1, <1>2, <1>3, <1>4, <1>5 DEF a

\* The exclusive locks of a thread that releases the innermost.
LEMMA OneLess ==
    ASSUME NEW h \in Seq(BOOLEAN), h # <<>>
    PROVE  LET f == SubSeq(h, 1, Len(h) - 1)
           IN  /\ f \in Seq(BOOLEAN)
               /\ f # <<>> => f[1] = h[1]
               /\ Cardinality(Exclusive(h)) \in Nat
               /\ Len(h) = 1 <=> f = <<>>
               /\ h[Len(h)] => Cardinality(Exclusive(f)) = Cardinality(Exclusive(h)) - 1
               /\ ~h[Len(h)] => Cardinality(Exclusive(f)) = Cardinality(Exclusive(h))
<1> DEFINE f == SubSeq(h, 1, Len(h) - 1)  E == Exclusive(h)  n == Len(h)
<1>1. /\ n \in Nat /\ n > 0 /\ f \in Seq(BOOLEAN) /\ Len(f) = n - 1
      /\ \A i \in 1 .. n - 1 : f[i] = h[i]
  <2>1. n \in Nat /\ n > 0
    OBVIOUS
  <2>2. 1 \in Int /\ n - 1 \in Int
    BY <2>1
  <2>3. \A i \in 1 .. n - 1 : h[i] \in BOOLEAN
    BY <2>1
  <2>4. f \in Seq(BOOLEAN)
    BY <2>2, <2>3, SubSeqProperties
  <2>5. Len(f) = IF 1 <= n - 1 THEN (n - 1) - 1 + 1 ELSE 0
    BY <2>2, <2>3, SubSeqProperties
  <2>6. \A i \in 1 .. (n - 1) - 1 + 1 : f[i] = h[1 + i - 1]
    BY <2>2, <2>3, SubSeqProperties
  <2> HIDE DEF f, n
  <2>7. Len(f) = n - 1
    BY <2>1, <2>5
  <2>8. ASSUME NEW i \in 1 .. n - 1
        PROVE  f[i] = h[i]
    <3>1. i \in 1 .. (n - 1) - 1 + 1 /\ 1 + i - 1 = i
      BY <2>1
    <3> QED  BY <2>6, <3>1
  <2> QED  BY <2>1, <2>4, <2>7, <2>8
<1> HIDE DEF f
<1>2. IsFiniteSet(E) /\ Cardinality(E) \in Nat
  <2>1. E \in SUBSET (1 .. n) /\ 1 \in Int /\ n \in Int
    BY <1>1 DEF Exclusive
  <2> QED  BY <2>1, FS_Interval, FS_Subset, FS_CardinalityType
<1>3. f # <<>> => Len(f) > 0
  BY <1>1
<1>4. Len(h) = 1 <=> f = <<>>
  BY <1>1, <1>3
<1>5. f # <<>> => f[1] = h[1]
  BY <1>1, <1>3
<1>6. ASSUME h[n]
      PROVE  Cardinality(Exclusive(f)) = Cardinality(E) - 1
  <2>1. Exclusive(f) = E \ {n} /\ n \in E
    BY <1>1, <1>6 DEF Exclusive
  <2> HIDE DEF E, n
  <2> QED  BY <1>2, <2>1, FS_RemoveElement
<1>7. ASSUME ~h[n]
      PROVE  Exclusive(f) = E
  BY <1>1, <1>7 DEF Exclusive
<1> QED  BY <1>1, <1>2, <1>4, <1>5, <1>6, <1>7 DEF f

LEMMA SingleLock == <<TRUE>>[1] /\ Cardinality(Exclusive(<<TRUE>>)) = 1
<1>1. Len(<<TRUE>>) = 1 /\ <<TRUE>>[1] = TRUE
  OBVIOUS
<1>2. ASSUME NEW h, Len(h) = 1, h[1] = TRUE
      PROVE  Exclusive(h) = {1}
  BY <1>2 DEF Exclusive
<1>3. Exclusive(<<TRUE>>) = {1}
  BY <1>1, <1>2
<1> QED  BY <1>1, <1>3, FS_Singleton

LEMMA AcquireNext ==
    ASSUME TypeOK, NEW t \in Threads, NEW b \in BOOLEAN, Acquired(t, b)
    PROVE  \E x \in ThreadType : /\ thread' = [thread EXCEPT ![t] = x]
                                 /\ x.pc = "idle" /\ x.held = Append(thread[t].held, b)
<1> DEFINE h == Append(thread[t].held, b)
           x == [thread[t] EXCEPT !.pc = "idle", !.held = h]
<1>1. thread' = [thread EXCEPT ![t] = x]
  BY DEF Acquired
<1>2. h \in Seq(BOOLEAN)
  BY OneMore DEF TypeOK, ThreadType
<1> HIDE DEF h
<1>3. x \in ThreadType /\ x.pc = "idle" /\ x.held = h
  BY <1>2 DEF TypeOK, ThreadType, SpinPcs
<1> QED  BY <1>1, <1>3 DEF h

LEMMA ReleaseInner ==
    ASSUME TypeOK, NEW t \in Threads, thread[t].held # <<>>, Released(t)
    PROVE  \E x \in ThreadType :
              /\ thread' = [thread EXCEPT ![t] = x] /\ x.pc = thread[t].pc
              /\ x.held = SubSeq(thread[t].held, 1, Len(thread[t].held) - 1)
<1> DEFINE h == SubSeq(thread[t].held, 1, Len(thread[t].held) - 1)
           x == [thread[t] EXCEPT !.held = h]
<1>1. thread' = [thread EXCEPT ![t] = x]
  BY DEF Released
<1>2. h \in Seq(BOOLEAN)
  BY OneLess DEF TypeOK, ThreadType
<1> HIDE DEF h
<1>3. x \in ThreadType /\ x.pc = thread[t].pc /\ x.held = h
  BY <1>2 DEF TypeOK, ThreadType
<1> QED  BY <1>1, <1>3 DEF h

\* A step of a thread of the mutex.
MutexMove(t, x) ==
    /\ object = "mutex" /\ UNCHANGED <<object, counters, state>>
    /\ thread' = [thread EXCEPT ![t] = x] /\ x.pc = "idle"
    /\ depth' \in Int

LEMMA MutexKept ==
    ASSUME IInv, NEW t \in Threads, NEW x \in ThreadType, MutexMove(t, x),
           owner' = None =>
              /\ depth' = 0
              /\ x.held \in {<<>>, <<FALSE>>}
              /\ \A u \in Threads \ {t} : Held(u) \in {<<>>, <<FALSE>>}
              /\ \A p : p \in rw' <=> \E u \in Threads : p = <<u, FALSE>> /\ thread'[u].held = <<FALSE>>,
           owner' # None =>
              /\ owner' = t /\ x.held # <<>> /\ x.held[1]
              /\ depth' = Cardinality(Exclusive(x.held))
              /\ \A u \in Threads \ {t} : Held(u) = <<>>
              /\ rw' = {<<t, TRUE>>}
    PROVE  IInv'
<1>1. /\ thread' \in [Threads -> ThreadType] /\ thread'[t] = x
      /\ \A u \in Threads \ {t} : thread'[u] = thread[u]
  BY OneThread DEF IInv, MutexMove
<1>2. TypeOK'
  BY <1>1 DEF IInv, TypeOK, counters, MutexMove
<1>3. MutexOwner
  BY DEF IInv, MutexMove
<1>4. SignalForEveryWaiter'
  BY <1>3, NoWaiter DEF MutexOwner, MutexMove, SpinPcs
<1>5. \A u \in Threads : thread'[u].pc = "idle"
  BY <1>1, <1>3 DEF MutexOwner, MutexMove
<1>6. ASSUME owner' = None
      PROVE  /\ depth' = 0
             /\ \A u \in Threads : thread'[u].held \in {<<>>, <<FALSE>>}
             /\ rw' = {<<v, FALSE>> : v \in {u \in Threads : thread'[u].held = <<FALSE>>}}
  <2>1. \A u \in Threads : thread'[u].held \in {<<>>, <<FALSE>>}
    BY <1>1, <1>6 DEF Held
  <2>2. \A p : p \in rw' <=> p \in {<<v, FALSE>> : v \in {u \in Threads : thread'[u].held = <<FALSE>>}}
    BY <1>6
  <2> QED  BY <1>6, <2>1, <2>2
<1>7. ASSUME owner' # None
      PROVE  /\ owner' \in Threads
             /\ thread'[owner'].held # <<>> /\ thread'[owner'].held[1]
             /\ depth' = Cardinality(Exclusive(thread'[owner'].held))
             /\ \A u \in Threads \ {owner'} : thread'[u].held = <<>>
             /\ rw' = {<<owner', TRUE>>}
  BY <1>1, <1>7 DEF Held
<1>8. MutexOwner'
  BY <1>3, <1>5, <1>6, <1>7 DEF MutexOwner, Held, MutexMove
<1> QED  BY <1>2, <1>4, <1>8 DEF IInv, MutexMove

LEMMA MutexStep ==
    ASSUME IInv, NEW t \in Threads, Mutex(t)
    PROVE  IInv'
<1> DEFINE r == thread[t]
<1>1. /\ TypeOK /\ r \in ThreadType /\ r.held \in Seq(BOOLEAN) /\ depth \in Int /\ t # None
  BY ThreadsAssumption DEF IInv, TypeOK, ThreadType
<1>2. object = "mutex"
  BY DEF Mutex, MayLock, lock_recursive, unlock_recursive, lock_shared_recursive,
         unlock_shared_recursive
<1>3. MutexOwner /\ r.pc = "idle"
  BY <1>2 DEF IInv, MutexOwner
<1>4. owner # None => owner \in Threads /\ rw = {<<owner, TRUE>>}
  BY <1>3 DEF MutexOwner
<1>5. CASE lock_recursive(t)
  <2>1. /\ MayLock(t) /\ owner' = t /\ depth' = depth + 1 /\ Acquired(t, TRUE)
        /\ \/ owner # t /\ rw = {} /\ rw' = {<<t, TRUE>>}
           \/ owner = t /\ UNCHANGED rw
        /\ UNCHANGED <<object, counters, state>>
    BY <1>5 DEF lock_recursive
  <2>2. PICK x \in ThreadType : /\ thread' = [thread EXCEPT ![t] = x]
                                /\ x.pc = "idle" /\ x.held = Append(r.held, TRUE)
    BY <1>1, <2>1, AcquireNext
  <2>3. MutexMove(t, x)
    BY <1>1, <1>2, <2>1, <2>2 DEF MutexMove
  <2>4. /\ x.held # <<>>
        /\ r.held # <<>> => x.held[1] = r.held[1]
        /\ Cardinality(Exclusive(r.held)) \in Nat
        /\ Cardinality(Exclusive(x.held)) = Cardinality(Exclusive(r.held)) + 1
    BY <1>1, <2>2, OneMore
  <2>5. CASE owner # t
    <3>1. owner = None /\ rw = {} /\ rw' = {<<t, TRUE>>}
      BY <1>4, <2>1, <2>5
    <3>2. \A u \in Threads : Held(u) = <<>>
      <4> SUFFICES ASSUME NEW u \in Threads
                   PROVE  Held(u) = <<>>
        OBVIOUS
      <4>1. Held(u) = <<FALSE>> => <<u, FALSE>> \in rw
        BY <1>3, <3>1 DEF MutexOwner
      <4> QED  BY <1>3, <3>1, <4>1 DEF MutexOwner
    <3>3. depth = 0 /\ r.held = <<>>
      BY <1>3, <3>1, <3>2 DEF MutexOwner, Held
    <3>4. x.held = <<TRUE>>
      BY <2>2, <3>3, ShortLocks
    <3>5. x.held[1] /\ depth' = Cardinality(Exclusive(x.held))
      BY <2>1, <3>3, <3>4, SingleLock
    <3> QED  BY <1>1, <2>1, <2>3, <2>4, <3>1, <3>2, <3>5, MutexKept
  <2>6. CASE owner = t
    <3>1. /\ r.held # <<>> /\ r.held[1]
          /\ depth = Cardinality(Exclusive(r.held))
          /\ \A u \in Threads \ {t} : Held(u) = <<>>
          /\ rw' = {<<t, TRUE>>}
      BY <1>1, <1>3, <2>1, <2>6 DEF MutexOwner, Held
    <3>2. x.held[1] /\ depth' = Cardinality(Exclusive(x.held))
      BY <2>1, <2>4, <3>1
    <3> QED  BY <1>1, <2>1, <2>3, <2>4, <3>1, <3>2, MutexKept
  <2> QED  BY <2>5, <2>6
<1>6. CASE unlock_recursive(t)
  <2> DEFINE n == Len(r.held)
  <2>1. /\ r.held # <<>> /\ r.held[n] /\ Released(t) /\ depth' = depth - 1
        /\ owner' = IF depth = 1 THEN None ELSE owner
        /\ rw' = IF depth = 1 THEN rw \ {<<t, TRUE>>} ELSE rw
        /\ UNCHANGED <<object, counters, state>>
    BY <1>6 DEF unlock_recursive
  <2>2. owner = t
    <3>1. Held(t) # <<FALSE>> /\ Held(t) # <<>>
      <4>1. <<FALSE>>[Len(<<FALSE>>)] = FALSE
        OBVIOUS
      <4> QED  BY <2>1, <4>1 DEF Held
    <3>2. owner # None
      BY <1>3, <3>1 DEF MutexOwner
    <3> QED  BY <1>3, <3>1, <3>2 DEF MutexOwner
  <2>3. /\ r.held[1] /\ depth = Cardinality(Exclusive(r.held)) /\ rw = {<<t, TRUE>>}
        /\ \A u \in Threads \ {t} : Held(u) = <<>>
    BY <1>1, <1>3, <2>2 DEF MutexOwner, Held
  <2>4. PICK x \in ThreadType : /\ thread' = [thread EXCEPT ![t] = x] /\ x.pc = r.pc
                                /\ x.held = SubSeq(r.held, 1, n - 1)
    BY <1>1, <2>1, ReleaseInner
  <2>5. /\ x.held # <<>> => x.held[1] = r.held[1]
        /\ n = 1 <=> x.held = <<>>
        /\ Cardinality(Exclusive(r.held)) \in Nat
        /\ Cardinality(Exclusive(x.held)) = Cardinality(Exclusive(r.held)) - 1
    BY <1>1, <2>1, <2>4, OneLess
  <2>6. MutexMove(t, x)
    BY <1>1, <1>2, <1>3, <2>1, <2>4 DEF MutexMove
  <2>7. depth = 1 <=> n = 1
    <3>1. n \in Nat /\ n > 0 /\ 1 \in Exclusive(r.held) /\ n \in Exclusive(r.held)
      BY <1>1, <2>1, <2>3 DEF Exclusive
    <3>2. Exclusive(r.held) \in SUBSET (1 .. n) /\ IsFiniteSet(Exclusive(r.held))
      <4>1. Exclusive(r.held) \in SUBSET (1 .. n) /\ 1 \in Int /\ n \in Int
        BY <3>1 DEF Exclusive
      <4> QED  BY <4>1, FS_Interval, FS_Subset
    <3>3. ASSUME n = 1
          PROVE  depth = 1
      <4>1. Exclusive(r.held) = {1}
        BY <3>1, <3>2, <3>3
      <4> QED  BY <2>3, <4>1, FS_Singleton
    <3>4. ASSUME depth = 1
          PROVE  n = 1
      <4>1. PICK e : Exclusive(r.held) = {e}
        BY <2>3, <3>2, <3>4, FS_Singleton
      <4> QED  BY <3>1, <4>1
    <3> QED  BY <3>3, <3>4
  <2>8. CASE depth = 1
    <3>1. x.held = <<>> /\ rw' = {} /\ owner' = None /\ depth' = 0
      <4>1. x.held = <<>> /\ owner' = None /\ rw' = rw \ {<<t, TRUE>>}
        BY <2>1, <2>5, <2>7, <2>8
      <4>2. depth' = 0
        BY <2>1, <2>8
      <4> QED  BY <2>3, <4>1, <4>2
    <3>2. \A u \in Threads : thread'[u].held = <<>>
      BY <1>1, <2>3, <2>4, <3>1, OneThread DEF Held
    <3>3. \A p : p \in rw' <=> \E u \in Threads : p = <<u, FALSE>> /\ thread'[u].held = <<FALSE>>
      BY <3>1, <3>2, ShortLocks
    <3> QED  BY <2>3, <2>6, <3>1, <3>3, MutexKept
  <2>9. CASE depth # 1
    <3>1. x.held # <<>> /\ x.held[1] /\ rw' = {<<t, TRUE>>} /\ owner' = t
      BY <2>1, <2>2, <2>3, <2>5, <2>7, <2>9
    <3>2. depth' = Cardinality(Exclusive(x.held))
      BY <2>1, <2>3, <2>5
    <3> QED  BY <1>1, <2>3, <2>6, <3>1, <3>2, MutexKept
  <2> QED  BY <2>8, <2>9
<1>7. CASE lock_shared_recursive(t)
  <2>1. /\ MayLock(t) /\ Acquired(t, FALSE)
        /\ \/ owner # t /\ (\A h \in rw : ~h[2]) /\ rw' = rw \cup {<<t, FALSE>>}
           \/ owner = t /\ UNCHANGED rw
        /\ UNCHANGED <<object, counters, state, owner, depth>>
    BY <1>7 DEF lock_shared_recursive
  <2>2. PICK x \in ThreadType : /\ thread' = [thread EXCEPT ![t] = x]
                                /\ x.pc = "idle" /\ x.held = Append(r.held, FALSE)
    BY <1>1, <2>1, AcquireNext
  <2>3. MutexMove(t, x)
    BY <1>1, <1>2, <2>1, <2>2 DEF MutexMove
  <2>4. /\ x.held # <<>>
        /\ r.held # <<>> => x.held[1] = r.held[1]
        /\ Cardinality(Exclusive(x.held)) = Cardinality(Exclusive(r.held))
    BY <1>1, <2>2, OneMore
  <2>5. CASE owner # t
    <3>1. owner = None /\ rw' = rw \cup {<<t, FALSE>>}
      <4>1. <<owner, TRUE>>[2] = TRUE
        OBVIOUS
      <4> QED  BY <1>4, <2>1, <2>5, <4>1
    <3>2. /\ depth = 0
          /\ \A u \in Threads : Held(u) \in {<<>>, <<FALSE>>}
          /\ rw = {<<v, FALSE>> : v \in {u \in Threads : Held(u) = <<FALSE>>}}
      BY <1>3, <3>1 DEF MutexOwner
    <3>3. r.held = <<>>
      <4>1. <<FALSE>> # <<>> /\ <<FALSE>>[1] = FALSE
        OBVIOUS
      <4> QED  BY <2>1, <3>2, <4>1 DEF MayLock, Held
    <3>4. x.held = <<FALSE>>
      BY <2>2, <3>3, ShortLocks
    <3>5. /\ thread'[t].held = <<FALSE>>
          /\ \A u \in Threads \ {t} : thread'[u].held = Held(u)
      BY <1>1, <2>2, <3>4, OneThread DEF Held
    <3>6. \A p : p \in rw' <=> \E u \in Threads : p = <<u, FALSE>> /\ thread'[u].held = <<FALSE>>
      BY <3>1, <3>2, <3>5
    <3> QED  BY <1>1, <2>1, <2>3, <3>1, <3>2, <3>4, <3>6, MutexKept
  <2>6. CASE owner = t
    <3>1. /\ r.held # <<>> /\ r.held[1]
          /\ depth = Cardinality(Exclusive(r.held))
          /\ \A u \in Threads \ {t} : Held(u) = <<>>
          /\ rw' = {<<t, TRUE>>}
      BY <1>1, <1>3, <2>1, <2>6 DEF MutexOwner, Held
    <3>2. x.held[1] /\ depth' = Cardinality(Exclusive(x.held))
      BY <2>1, <2>4, <3>1
    <3> QED  BY <1>1, <2>1, <2>3, <2>4, <2>6, <3>1, <3>2, MutexKept
  <2> QED  BY <2>5, <2>6
<1>8. CASE unlock_shared_recursive(t)
  <2> DEFINE n == Len(r.held)
  <2>1. /\ r.held # <<>> /\ ~r.held[n] /\ Released(t)
        /\ rw' = IF owner # t THEN rw \ {<<t, FALSE>>} ELSE rw
        /\ UNCHANGED <<object, counters, state, owner, depth>>
    BY <1>8 DEF unlock_shared_recursive
  <2>2. PICK x \in ThreadType : /\ thread' = [thread EXCEPT ![t] = x] /\ x.pc = r.pc
                                /\ x.held = SubSeq(r.held, 1, n - 1)
    BY <1>1, <2>1, ReleaseInner
  <2>3. /\ x.held # <<>> => x.held[1] = r.held[1]
        /\ n = 1 <=> x.held = <<>>
        /\ Cardinality(Exclusive(x.held)) = Cardinality(Exclusive(r.held))
    BY <1>1, <2>1, <2>2, OneLess
  <2>4. MutexMove(t, x)
    BY <1>1, <1>2, <1>3, <2>1, <2>2 DEF MutexMove
  <2>5. CASE owner # t
    <3>1. owner = None
      BY <1>3, <2>1, <2>5 DEF MutexOwner, Held
    <3>2. /\ depth = 0
          /\ \A u \in Threads : Held(u) \in {<<>>, <<FALSE>>}
          /\ rw = {<<v, FALSE>> : v \in {u \in Threads : Held(u) = <<FALSE>>}}
      BY <1>3, <3>1 DEF MutexOwner
    <3>3. x.held = <<>>
      <4>1. Len(<<FALSE>>) = 1
        OBVIOUS
      <4> QED  BY <2>1, <2>3, <3>2, <4>1 DEF Held
    <3>4. /\ thread'[t].held = <<>>
          /\ \A u \in Threads \ {t} : thread'[u].held = Held(u)
      BY <1>1, <2>2, <3>3, OneThread DEF Held
    <3>5. \A p : p \in rw' <=> \E u \in Threads : p = <<u, FALSE>> /\ thread'[u].held = <<FALSE>>
      <4>1. rw' = rw \ {<<t, FALSE>>}
        BY <2>1, <2>5
      <4>2. ASSUME NEW p \in rw'
            PROVE  \E u \in Threads : p = <<u, FALSE>> /\ thread'[u].held = <<FALSE>>
        BY <3>2, <3>4, <4>1
      <4>3. ASSUME NEW u \in Threads, thread'[u].held = <<FALSE>>
            PROVE  <<u, FALSE>> \in rw'
        <5>1. u # t /\ Held(u) = <<FALSE>>
          BY <3>4, <4>3, ShortLocks
        <5>2. <<u, FALSE>> \in rw /\ <<u, FALSE>> # <<t, FALSE>>
          BY <3>2, <5>1
        <5> QED  BY <4>1, <5>2
      <4> QED  BY <4>2, <4>3
    <3> QED  BY <2>1, <2>4, <3>1, <3>2, <3>3, <3>5, MutexKept
  <2>6. CASE owner = t
    <3>1. /\ r.held[1]
          /\ depth = Cardinality(Exclusive(r.held))
          /\ \A u \in Threads \ {t} : Held(u) = <<>>
          /\ rw' = {<<t, TRUE>>}
      BY <1>1, <1>3, <2>1, <2>6 DEF MutexOwner, Held
    <3>2. x.held # <<>> /\ x.held[1] /\ depth' = Cardinality(Exclusive(x.held))
      BY <2>1, <2>3, <3>1
    <3> QED  BY <1>1, <2>1, <2>4, <2>6, <3>1, <3>2, MutexKept
  <2> QED  BY <2>5, <2>6
<1> QED  BY <1>5, <1>6, <1>7, <1>8 DEF Mutex

-----------------------------------------------------------------------------
LEMMA InitInv == Init => IInv
<1> SUFFICES ASSUME Init
             PROVE  IInv
  OBVIOUS
<1>1. Idle \in ThreadType /\ Idle.pc = "idle" /\ Idle.held = <<>>
  <2>1. <<>> \in Seq(BOOLEAN) /\ 0 \in Int
    OBVIOUS
  <2> QED  BY <2>1 DEF Idle, ThreadType, SpinPcs
<1>2. \A t \in Threads : thread[t] = Idle
  BY DEF Init
<1>3. TypeOK
  BY <1>1 DEF Init, TypeOK
<1>4. Waiters = {} /\ Signals = {} /\ Readers = {} /\ Writers = {}
  BY <1>1, <1>2, ShortLocks DEF Waiters, Signals, Readers, Writers, Held
<1>5. SignalForEveryWaiter
  BY <1>4, FS_EmptySet DEF Init, SignalForEveryWaiter
<1>6. Semaphores
  BY <1>1, <1>2 DEF Init, Semaphores, SemPcs, Held
<1>7. SpinWord
  <2>1. state = Cardinality(Readers) + (IF Writers = {} THEN 0 ELSE LOCKED)
    BY <1>4, FS_EmptySet DEF Init
  <2>2. \A t \in Threads : /\ thread[t].pc \in SpinPcs
                           /\ Held(t) \in {<<>>, <<FALSE>>, <<TRUE>>}
                           /\ thread[t].pc # "idle" => Held(t) = <<>>
    BY <1>1, <1>2 DEF SpinPcs, Held
  <2> QED  BY <1>4, <2>1, <2>2 DEF Init, SpinWord
<1>8. MutexOwner
  BY <1>1, <1>2, ShortLocks DEF Init, MutexOwner, Held
<1> QED  BY <1>3, <1>5, <1>6, <1>7, <1>8 DEF IInv

LEMMA StepInv == IInv /\ [Next]_vars => IInv'
<1> SUFFICES ASSUME IInv, [Next]_vars
             PROVE  IInv'
  OBVIOUS
<1>1. CASE UNCHANGED vars
  BY <1>1 DEF vars, IInv, TypeOK, SignalForEveryWaiter, Waiters, Signals, Semaphores,
              SpinWord, Readers, Writers, MutexOwner, Held
<1>2. ASSUME NEW t \in Threads, Semaphore(t) \/ Spinlock(t) \/ Mutex(t)
      PROVE  IInv'
  BY <1>2, SemaphoreStep, SpinlockStep, MutexStep
<1> QED  BY <1>1, <1>2 DEF Next

LEMMA InvSound == IInv => LocksSound
<1> SUFFICES ASSUME IInv
             PROVE  LockedAlone
  BY DEF IInv, LocksSound
<1>1. object \in {"semaphore", "event", "spinlock", "mutex"}
      /\ \A t \in Threads : thread[t].held \in Seq(BOOLEAN)
  BY DEF IInv, TypeOK, ThreadType
<1>2. CASE Semaphores
  BY <1>2 DEF Semaphores, Held, LockedAlone
<1>3. CASE SpinWord
  <2>1. ASSUME NEW t \in Threads, NEW i \in DOMAIN thread[t].held, thread[t].held[i],
               NEW u \in Threads \ {t}
        PROVE  thread[u].held = <<>>
    <3>1. <<FALSE>>[1] = FALSE /\ DOMAIN <<FALSE>> = {1} /\ DOMAIN <<>> = {}
      OBVIOUS
    <3>2. thread[t].held = <<TRUE>>
      BY <1>3, <2>1, <3>1 DEF SpinWord, Held
    <3> QED  BY <1>3, <3>2 DEF SpinWord, Writers, Held
  <2>2. (\A t \in Threads : thread[t] = Idle) => state = 0
    <3> SUFFICES ASSUME \A t \in Threads : thread[t] = Idle
                 PROVE  state = 0
      OBVIOUS
    <3>1. Readers = {} /\ Writers = {}
      <4>1. Idle.pc = "idle" /\ Idle.held = <<>>
        BY DEF Idle
      <4> QED  BY <4>1, ShortLocks DEF Readers, Writers, Held
    <3> QED  BY <1>3, <3>1, FS_EmptySet DEF SpinWord
  <2> QED  BY <1>3, <2>1, <2>2 DEF SpinWord, LockedAlone
<1>4. CASE MutexOwner
  <2>1. ASSUME NEW t \in Threads, NEW i \in DOMAIN thread[t].held, thread[t].held[i],
               NEW u \in Threads \ {t}
        PROVE  thread[u].held = <<>>
    <3>1. <<FALSE>>[1] = FALSE /\ DOMAIN <<FALSE>> = {1} /\ DOMAIN <<>> = {}
      OBVIOUS
    <3>2. owner = t
      BY <1>4, <2>1, <3>1 DEF MutexOwner, Held
    <3> QED  BY <1>4, <3>2, ThreadsAssumption DEF MutexOwner, Held
  <2>2. ASSUME \A t \in Threads : thread[t] = Idle
        PROVE  rw = {} /\ owner = None
    <3>1. \A t \in Threads : Held(t) = <<>>
      BY <2>2 DEF Idle, Held
    <3> QED  BY <1>4, <3>1, ShortLocks DEF MutexOwner
  <2> QED  BY <1>4, <2>1, <2>2 DEF MutexOwner, LockedAlone
<1> QED  BY <1>1, <1>2, <1>3, <1>4 DEF IInv

\* No wake-up of a semaphore or event is lost or surplus, and an exclusive lock of the
\* spin lock or the recursive mutex excludes everybody else and leaves nothing behind,
\* for any set of threads smaller than the LOCKED bit, any nesting and any number of
\* calls (sync.hpp:235, sync.cpp:391).
THEOREM LocksAlwaysSound == Spec => []LocksSound
<1>1. Spec => []IInv
  BY InitInv, StepInv, PTL DEF Spec
<1> QED  BY <1>1, InvSound, PTL

=============================================================================
