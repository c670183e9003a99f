----------------------------- MODULE BlockQueue -----------------------------
(***************************************************************************)
(* What the jitter buffer of a stream promises: a bounded queue of blocks  *)
(* with consecutive sequence numbers.  Blocks are only ever added behind   *)
(* the newest one and leave from the front; in between they only gain      *)
(* frames.                                                                 *)
(***************************************************************************)
EXTENDS Integers, Sequences

CONSTANTS
    Sentinel,   \* no block yet
    Last        \* the last sequence number before it starts again at 0

VARIABLES
    queue,      \* the blocks: their sequence numbers and the frames received
    capacity,   \* how many blocks it may hold
    newest,     \* sequence number of the last block that was added
    oldest      \* sequence number of the last block that has left

vars == <<queue, capacity, newest, oldest>>

\* The blocks of q are consecutive and end with number s.
EndsWith(q, s) == \A k \in 1 .. Len(q) : q[k].sequence = s - Len(q) + k

Init == queue = <<>> /\ capacity \in Nat /\ newest \in Int /\ oldest = Sentinel

\* Blocks are added behind the newest one; the ones in between are still empty.
Add ==
    /\ Len(queue') \in Len(queue) + 1 .. capacity
    /\ \A k \in 1 .. Len(queue) : queue'[k] = queue[k]
    /\ \A k \in Len(queue) + 1 .. Len(queue') - 1 : queue'[k].frames = {}
    /\ EndsWith(queue', newest')
    /\ newest # Sentinel => newest' = newest + Len(queue') - Len(queue)
    /\ UNCHANGED <<capacity, oldest>>

\* A block receives a frame; it stays where it is.
Receive ==
    /\ Len(queue') = Len(queue)
    /\ \E k \in 1 .. Len(queue) :
          /\ queue[k].frames \subseteq queue'[k].frames
          /\ queue' = [queue EXCEPT ![k].frames = queue'[k].frames]
    /\ UNCHANGED <<capacity, newest, oldest>>

\* The n oldest blocks leave: one is played, the others are skipped.
Leave ==
    /\ \E n \in 1 .. Len(queue) :
          /\ queue' = SubSeq(queue, n + 1, Len(queue))
          /\ oldest' = queue[n].sequence
    /\ UNCHANGED <<capacity, newest>>

\* The place of a block that did not come in time is played.
Miss ==
    /\ queue = <<>> /\ oldest # Sentinel
    /\ oldest' = IF oldest = Last THEN 0 ELSE oldest + 1
    /\ newest' = oldest'
    /\ UNCHANGED <<queue, capacity>>

\* The queue starts over, maybe with another capacity, empty or with the block that did not fit.
Restart ==
    /\ Len(queue') <= 1
    /\ capacity' \in Nat \ {0}
    /\ EndsWith(queue', newest')
    /\ oldest' = Sentinel

Next == Add \/ Receive \/ Leave \/ Miss \/ Restart

Spec == Init /\ [][Next]_vars

=============================================================================
