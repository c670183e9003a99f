--------------------------- MODULE MessageChannel ---------------------------
(***************************************************************************)
(* What reliable peer messages promise (include/aoo_types.h, AooMessage    *)
(* flag kAooMessageReliable): a first-in first-out channel that neither    *)
(* loses, duplicates, reorders nor changes a message.  PeerMessage is      *)
(* shown to implement it.                                                  *)
(***************************************************************************)
EXTENDS Naturals, Sequences

CONSTANT Messages

VARIABLES sent, delivered

Init ==
    /\ sent = <<>>
    /\ delivered = <<>>

Send ==
    /\ \E m \in Messages : sent' = Append(sent, m)
    /\ UNCHANGED delivered

\* One arrival may complete several messages; they are delivered together.
Deliver ==
    /\ \E n \in Len(delivered) + 1 .. Len(sent) : delivered' = SubSeq(sent, 1, n)
    /\ UNCHANGED sent

Next == Send \/ Deliver

Spec == Init /\ [][Next]_<<sent, delivered>>
=============================================================================
