------------------------------- MODULE Queues -------------------------------
(***************************************************************************)
(* The two queues of common/lockfree.hpp.  unbounded_mpsc_queue carries the  *)
(* commands, events, requests and packets between threads: producers take    *)
(* nodes from the part of a linked list the consumer has left behind.        *)
(* spsc_queue carries the audio blocks of a source: a ring of fixed size     *)
(* whose two heads are private to the two sides and whose number of filled   *)
(* blocks is shared.  Each access of a shared variable is a step; the spin   *)
(* lock of the producers makes a step of what it protects.                   *)
(***************************************************************************)
EXTENDS Integers, Sequences, SequencesExt, FiniteSets

CONSTANTS Producers, \* threads that push() to the linked queue
          Nodes,     \* addresses of its nodes
          Null,      \* the null pointer
          Capacity,  \* blocks in the ring
          MaxPushes  \* bound: values put into each queue

VARIABLES first, divider, last, next, data, \* the linked queue
          producer, consumer,               \* its threads
          pushed, popped,                   \* history: values published and taken
          ring, balance, rdhead, wrhead,    \* the ring
          writing, reading,                 \* its threads
          written, taken                    \* history

linked == <<first, divider, last, next, data, producer, consumer, pushed, popped>>
ringed == <<ring, balance, rdhead, wrhead, writing, reading, written, taken>>
vars == <<linked, ringed>>

Dummy == CHOOSE n \in Nodes : TRUE

Init ==
    /\ first = Dummy /\ divider = Dummy /\ last = Dummy
    /\ next = [n \in Nodes \cup {Null} |-> Null]
    /\ data = [n \in Nodes \cup {Null} |-> 0]
    /\ producer = [p \in Producers |-> Null]
    /\ consumer = [pc |-> "empty", node |-> Null, data |-> 0]
    /\ pushed = <<>> /\ popped = <<>>
    /\ ring = [i \in 0 .. Capacity - 1 |-> 0]
    /\ balance = 0 /\ rdhead = 0 /\ wrhead = 0
    /\ writing = FALSE /\ reading = 0
    /\ written = 0 /\ taken = <<>>

-----------------------------------------------------------------------------
(* unbounded_mpsc_queue.  A producer holds the node it fills; next[n] of a    *)
(* node the list does not hold is Null.                                      *)

\* The nodes of the list, from first_ to last_.
InList ==
    LET chain[i \in Nat] == IF i = 0 THEN first
                            ELSE IF chain[i - 1] = Null THEN Null
                            ELSE next[chain[i - 1]]
    IN  {chain[i] : i \in 0..Cardinality(Nodes)} \ {Null}

Allocated == InList \cup {producer[p] : p \in Producers}

\* get_node(): a node the consumer has passed is used again, otherwise one is
\* allocated.
get_node_unread(p) ==
    /\ producer[p] = Null /\ Len(pushed) < MaxPushes
    /\ IF first # last
       THEN /\ producer' = [producer EXCEPT ![p] = first]
            /\ first' = next[first]
            /\ next' = [next EXCEPT ![first] = Null]
       ELSE /\ \E n \in Nodes \ Allocated : producer' = [producer EXCEPT ![p] = n]
            /\ UNCHANGED <<first, next>>
    /\ UNCHANGED <<divider, last, data, consumer, pushed, popped>>

get_node(p) ==
    /\ producer[p] = Null /\ Len(pushed) < MaxPushes
    /\ IF first # divider
       THEN /\ producer' = [producer EXCEPT ![p] = first]
            /\ first' = next[first]
            /\ next' = [next EXCEPT ![first] = Null]
       ELSE /\ \E n \in Nodes \ Allocated : producer' = [producer EXCEPT ![p] = n]
            /\ UNCHANGED <<first, next>>
    /\ UNCHANGED <<divider, last, data, consumer, pushed, popped>>

\* The value is written outside the lock and published by push_node().
push_node(p) ==
    LET n == producer[p]  value == Len(pushed) + 1 IN
    /\ n # Null /\ value <= MaxPushes
    /\ data' = [data EXCEPT ![n] = value]
    /\ next' = [next EXCEPT ![last] = n]
    /\ last' = n
    /\ producer' = [producer EXCEPT ![p] = Null]
    /\ pushed' = Append(pushed, value)
    /\ UNCHANGED <<first, divider, consumer, popped>>

\* try_pop(), try_consume() and consume_all(): empty(), then the node after the
\* divider is read, then the divider moves.
empty ==
    /\ consumer.pc = "empty" /\ divider # last
    /\ consumer' = [consumer EXCEPT !.pc = "move", !.node = next[divider]]
    /\ UNCHANGED <<first, divider, last, next, data, producer, pushed, popped>>

consume ==
    \/ /\ consumer.pc = "move"
       /\ consumer' = [consumer EXCEPT !.pc = "publish", !.data = data[consumer.node]]
       /\ UNCHANGED <<first, divider, last, next, data, producer, pushed, popped>>
    \/ /\ consumer.pc = "publish"
       /\ divider' = consumer.node
       /\ popped' = Append(popped, consumer.data)
       /\ consumer' = [pc |-> "empty", node |-> Null, data |-> 0]
       /\ UNCHANGED <<first, last, next, data, producer, pushed>>

Linked == (\E p \in Producers : get_node(p) \/ push_node(p)) \/ empty \/ consume

-----------------------------------------------------------------------------
(* spsc_queue: write() after write_available() is positive, read() after      *)
(* read_available() is.                                                      *)

write_available == Capacity - balance
read_available == balance

\* write() fills the block at the write head, and write_commit() moves the head
\* and publishes the block.
write ==
    /\ ~writing /\ write_available > 0 /\ written < MaxPushes
    /\ written' = written + 1
    /\ ring' = [ring EXCEPT ![wrhead] = written + 1]
    /\ writing' = TRUE
    /\ UNCHANGED <<balance, rdhead, wrhead, reading, taken>>

write_commit ==
    /\ writing
    /\ writing' = FALSE
    /\ wrhead' = (wrhead + 1) % Capacity
    /\ balance' = balance + 1
    /\ UNCHANGED <<ring, rdhead, reading, written, taken>>

read ==
    /\ reading = 0 /\ read_available > 0
    /\ reading' = ring[rdhead]
    /\ UNCHANGED <<ring, balance, rdhead, wrhead, writing, written, taken>>

read_commit ==
    /\ reading # 0
    /\ taken' = Append(taken, reading)
    /\ reading' = 0
    /\ rdhead' = (rdhead + 1) % Capacity
    /\ balance' = balance - 1
    /\ UNCHANGED <<ring, wrhead, writing, written>>

Ring == write \/ write_commit \/ read \/ read_commit

Next ==
    \/ Linked /\ UNCHANGED ringed
    \/ Ring /\ UNCHANGED linked

Spec == Init /\ [][Next]_vars

\* What a consumer takes out of a queue is what its producers put in, in the
\* order in which they published it, once each: no node is filled again before
\* the consumer has moved its value out (lockfree.hpp:361) and no block of the
\* ring before it was read (lockfree.hpp:129).
TakenInOrder ==
    /\ IsPrefix(popped, pushed)
    /\ taken = [i \in 1 .. Len(taken) |-> i]
=============================================================================
