-------------------------- MODULE ConcurrentList --------------------------
(***************************************************************************)
(* lockfree::concurrent_list (common/lockfree.hpp): the singly-linked list  *)
(* of sinks, sources and peers.  Threads iterate and push while they hold   *)
(* the list's reference count; erased nodes go to a free list, and a        *)
(* collector destroys them when it finds the count at zero.  Each atomic    *)
(* load, store, exchange and compare-and-swap is a step of its own, in a    *)
(* sequentially consistent order; steps on a node no other thread can reach *)
(* are joined to the atomic step that follows them.                         *)
(***************************************************************************)
EXTENDS Integers, FiniteSets

CONSTANTS Nodes,      \* the addresses a node can have
          Threads,    \* the threads that iterate and push
          Owner,      \* the one of them that erases ("don't call concurrently!")
          Collector,  \* the non-real-time thread that calls reclaim()
          Null,       \* the null pointer
          MaxOps      \* bound: calls made on the list

VARIABLES head, free, refcount, next, \* the list's atomics
          alive,   \* the nodes that are constructed and not yet destroyed
          thread,  \* what each thread is doing, with its local variables
          ops

vars == <<head, free, refcount, next, alive, thread, ops>>

Callers == Threads \cup {Collector}

\* node: the iterator's node, or the first node an operation is about, last the
\* last one; expected: what the next compare-and-swap expects; result: the
\* iterator an erase() will return.
Idle == [pc |-> "idle", node |-> Null, last |-> Null, expected |-> Null, result |-> Null]

\* The nodes from n to the end of its list.
Chain(n) ==
    LET chain[i \in Nat] == IF i = 0 THEN n
                            ELSE IF chain[i - 1] = Null THEN Null
                            ELSE next[chain[i - 1]]
    IN  {chain[i] : i \in 0..Cardinality(Nodes)} \ {Null}

Tail(n) == CHOOSE m \in Chain(n) : next[m] = Null

Init ==
    /\ head = Null /\ free = Null /\ refcount = 0
    /\ next = [n \in Nodes |-> Null]
    /\ alive = {}
    /\ thread = [t \in Callers |-> Idle]
    /\ ops = 0

At(t, pc) == thread[t].pc = pc
Goto(t, pc, node) == thread' = [thread EXCEPT ![t] = [Idle EXCEPT !.pc = pc, !.node = node]]

-----------------------------------------------------------------------------
(* Every operation but reclaim() is called between lock() and unlock().      *)

lock(t) ==
    /\ At(t, "idle") /\ ops < MaxOps
    /\ ops' = ops + 1
    /\ refcount' = refcount + 1
    /\ Goto(t, "locked", Null)
    /\ UNCHANGED <<head, free, next, alive>>

unlock(t) ==
    /\ thread[t].pc \in {"locked", "iterate"}
    /\ refcount' = refcount - 1
    /\ Goto(t, "idle", Null)
    /\ UNCHANGED <<head, free, next, alive, ops>>

\* begin(), and the iterator's operator++.
begin(t) ==
    /\ At(t, "locked")
    /\ Goto(t, "iterate", head)
    /\ UNCHANGED <<head, free, refcount, next, alive, ops>>

advance(t) ==
    /\ At(t, "iterate") /\ thread[t].node # Null
    /\ Goto(t, "iterate", next[thread[t].node])
    /\ UNCHANGED <<head, free, refcount, next, alive, ops>>

\* emplace_front(): a new node, and the loop that makes it the head.
emplace_front(t) ==
    /\ At(t, "locked")
    /\ \E n \in Nodes \ alive :
         /\ alive' = alive \cup {n}
         /\ thread' = [thread EXCEPT ![t].pc = "push", ![t].node = n, ![t].expected = head]
    /\ UNCHANGED <<head, free, refcount, next, ops>>

push(t) ==
    LET n == thread[t].node  e == thread[t].expected IN
    /\ At(t, "push")
    /\ next' = [next EXCEPT ![n] = e]
    /\ IF head = e
       THEN head' = n /\ Goto(t, "iterate", n)
       ELSE head' = head /\ thread' = [thread EXCEPT ![t].expected = head]
    /\ UNCHANGED <<free, refcount, alive, ops>>

\* The first load of the loops in dispose_node() and dispose_list().
Dispose(t, n, last, result) ==
    thread' = [thread EXCEPT ![t] = [pc |-> "dispose", node |-> n, last |-> last,
                                     expected |-> free, result |-> result]]

\* erase(it) for the node the owner's iterator stands on.  The head is replaced
\* by compare-and-swap and tried again when a node was pushed in between; any
\* other node is unlinked from its predecessor, which only the owner may do.
erase(t) ==
    LET n == thread[t].node IN
    /\ t = Owner /\ At(t, "iterate") /\ n # Null
    /\ IF head = n
       THEN /\ thread' = [thread EXCEPT ![t].pc = "erase", ![t].expected = next[n]]
            /\ UNCHANGED next
       ELSE \E m \in Chain(head) :
              /\ next[m] = n
              /\ next' = [next EXCEPT ![m] = next[n]]
              /\ Dispose(t, n, n, next[n])
    /\ UNCHANGED <<head, free, refcount, alive, ops>>

erase_head(t) ==
    LET n == thread[t].node  e == thread[t].expected IN
    /\ At(t, "erase")
    /\ IF head = n
       THEN head' = e /\ Dispose(t, n, n, e)
       ELSE head' = head /\ Goto(t, "iterate", n)
    /\ UNCHANGED <<free, refcount, next, alive, ops>>

\* clear(): the owner unlinks the whole list.
clear(t) ==
    /\ t = Owner /\ At(t, "locked") /\ head # Null
    /\ head' = Null
    /\ Dispose(t, head, Tail(head), Null)
    /\ UNCHANGED <<free, refcount, next, alive, ops>>

\* The loops of dispose_node() and dispose_list(): the last node of the chain is
\* made to point to the free list and the first becomes its head.  The link of
\* an erased node is overwritten while an iterator may still stand on it.
dispose(t) ==
    LET n == thread[t].node  e == thread[t].expected IN
    /\ At(t, "dispose")
    /\ next' = [next EXCEPT ![thread[t].last] = e]
    /\ IF free = e
       THEN /\ free' = n
            /\ Goto(t, IF t = Collector THEN "idle" ELSE "iterate", thread[t].result)
       ELSE /\ free' = free
            /\ thread' = [thread EXCEPT ![t].expected = free]
    /\ UNCHANGED <<head, refcount, alive, ops>>

-----------------------------------------------------------------------------
(* reclaim(), outside the lock.                                              *)

reclaim(t) ==
    /\ At(t, "idle") /\ ops < MaxOps
    /\ free # Null /\ refcount = 0
    /\ ops' = ops + 1
    /\ Goto(t, "take", Null)
    /\ UNCHANGED <<head, free, refcount, next, alive>>

reclaim_take(t) ==
    /\ At(t, "take")
    /\ free' = Null
    /\ Goto(t, "check", free)
    /\ UNCHANGED <<head, refcount, next, alive, ops>>

\* The second look at the count: destroy_list() when no thread holds the list,
\* otherwise the nodes go back, ahead of those erased in the meantime.
reclaim_check_once(t) ==
    /\ At(t, "check")
    /\ alive' = alive \ Chain(thread[t].node)
    /\ Goto(t, "idle", Null)
    /\ UNCHANGED <<head, free, refcount, next, ops>>

reclaim_check(t) ==
    LET f == thread[t].node IN
    /\ At(t, "check")
    /\ \/ /\ refcount = 0
          /\ alive' = alive \ Chain(f)
          /\ Goto(t, "idle", Null)
          /\ UNCHANGED free
       \/ /\ refcount # 0 /\ free = Null
          /\ free' = f
          /\ Goto(t, "idle", Null)
          /\ UNCHANGED alive
       \/ /\ refcount # 0 /\ free # Null
          /\ Dispose(t, f, Tail(f), Null)
          /\ UNCHANGED <<free, alive>>
    /\ UNCHANGED <<head, refcount, next, ops>>

-----------------------------------------------------------------------------
Operation(t) ==
    \/ lock(t) \/ unlock(t) \/ begin(t) \/ advance(t)
    \/ emplace_front(t) \/ push(t)
    \/ erase(t) \/ erase_head(t) \/ clear(t) \/ dispose(t)

Collect ==
    \/ reclaim(Collector) \/ reclaim_take(Collector) \/ reclaim_check(Collector)
    \/ dispose(Collector)

Next == (\E t \in Threads : Operation(t)) \/ Collect

Spec == Init /\ [][Next]_vars

\* A thread inside the list never stands on a node whose memory is gone: what an
\* iterator, an erase() or a pending push points to, and everything reachable
\* from the list and from the free list, is still alive, although reclaim()
\* looks at the reference count without holding anything (lockfree.hpp:576).
NodesAlive ==
    /\ Chain(head) \cup Chain(free) \subseteq alive
    /\ \A t \in Callers :
         ({thread[t].node, thread[t].last, thread[t].result} \ {Null}) \subseteq alive
=============================================================================
