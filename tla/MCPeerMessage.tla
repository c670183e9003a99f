--------------------------- MODULE MCPeerMessage ---------------------------
(* Two peers, for TLC: their reliable messages and their handshake.  They  *)
(* do not act on each other: part says which of them runs, and the other   *)
(* one rests.  The module extends PeerMessage; see MCLiveness for messages *)
(* over a network that loses and is fair.                                  *)
EXTENDS PeerMessage

VARIABLES
    part,       \* "messages" or "handshake"
    peer, net   \* of PeerHandshake

Handshake == INSTANCE PeerHandshake WITH
    Peers <- {1, 2}, Direct <- TRUE, HasRelay <- TRUE, internal_relay <- TRUE,
    ProbeCount <- 1, ProbeTime <- 1, Interval <- 1

\* Bound: at most one message of more than one frame
OneMultiFrame ==
    \A j, k \in 1 .. Len(sent) : num_frames(sent[j]) > 1 /\ num_frames(sent[k]) > 1 => j = k

partvars == <<part, vars, peer, net>>

PartsInit ==
    /\ part \in {"messages", "handshake"}
    /\ Init /\ Handshake!Init

PartsNext ==
    \/ part = "messages" /\ Next /\ UNCHANGED <<part, peer, net>>
    \/ part = "handshake" /\ Handshake!Next /\ UNCHANGED <<part, vars>>

\* The fairness of Handshake!FairSpec.
PartsFairSpec ==
    /\ PartsInit /\ [][PartsNext]_partvars
    /\ WF_<<peer, net>>(part = "handshake" /\ Handshake!tick)
    /\ \A p \in {1, 2} :
          /\ WF_<<peer, net>>(part = "handshake" /\ Handshake!send(p))
          /\ SF_<<peer, net>>(part = "handshake" /\ Handshake!receive(p))

----------------------------------------------------------------------------
\* PeerHandshake: when one peer is connected, so is the other one in the end.
ConnectedTogether == Handshake!ConnectedTogether
=============================================================================
