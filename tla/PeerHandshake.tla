---------------------------- MODULE PeerHandshake ----------------------------
(***************************************************************************)
(* How two peers of a group establish a UDP connection and keep it alive   *)
(* (aoo/src/net/peer.cpp, ping_timer.hpp), directly or through the relay   *)
(* of the server (Server::handle_relay in server.cpp).                     *)
(*                                                                         *)
(* Time goes in steps of the probe interval; a deadline is the number of   *)
(* steps that are left until it.  Datagrams may be lost, repeated and      *)
(* reordered.  A ping or pong of the handshake has no time tag, but is     *)
(* treated like any other one.                                             *)
(***************************************************************************)
EXTENDS Integers

CONSTANTS
    Peers,              \* the two peers
    Direct,             \* BOOLEAN: datagrams between the peers can get through
    HasRelay,           \* BOOLEAN: relay_list_ is not empty
    internal_relay,     \* BOOLEAN: the server relays, and can reach the addresses of the peers
    ProbeCount, ProbeTime, Interval     \* AooPingSettings

VARIABLES
    peer,               \* what each client knows of the other one
    net                 \* datagrams under way

vars == <<peer, net>>

Other(p) == CHOOSE q \in Peers : q # p

Unset == -1

NewTimer ==
    [state |-> "ping", next |-> 0, deadline |-> 0, probe_count |-> 0, reset |-> TRUE, pong |-> FALSE]

NewPeer ==
    [connected |-> FALSE, timeout |-> FALSE, need_relay |-> FALSE, active |-> TRUE,
     deadline |-> Unset, next |-> 0,            \* handshake_deadline_, next_handshake_
     got_ping |-> FALSE, timer |-> NewTimer]

Init ==
    /\ peer = [p \in Peers |-> NewPeer]
    /\ net = {}

\* The server passes a message on to the other peer, or ignores it
handle_relay(p, kinds) ==
    IF internal_relay THEN {[to |-> Other(p), kind |-> k] : k \in kinds} ELSE {}

\* peer::send with an address: directly or through the relay
Sent(p, kinds) ==
    IF peer[p].need_relay THEN handle_relay(p, kinds)
    ELSE IF Direct THEN {[to |-> Other(p), kind |-> k] : k \in kinds} ELSE {}

-----------------------------------------------------------------------------
(* ping_timer::update *)

Started(t) ==
    IF t.reset THEN
        [t EXCEPT !.reset = FALSE, !.next = 0, !.deadline = ProbeTime, !.probe_count = 0,
                  !.state = "ping"]
    ELSE IF t.pong THEN
        [t EXCEPT !.pong = FALSE, !.deadline = ProbeTime, !.state = "ping"]
    ELSE IF t.state = "ping" /\ t.deadline = 0 THEN
        [t EXCEPT !.state = "probe", !.next = 0]
    ELSE t

\* A ping is due.  A pong does not reset the number of probes.
Pinged(t) ==
    LET count == IF t.probe_count > ProbeCount THEN t.probe_count ELSE t.probe_count + 1 IN
    IF t.state # "probe" THEN [t EXCEPT !.next = Interval]
    ELSE IF count > ProbeCount THEN
        [t EXCEPT !.probe_count = count, !.state = "inactive", !.next = Interval]
    ELSE [t EXCEPT !.probe_count = count, !.next = 1]

\* Mutant: no more pings to a peer that is inactive
update_quiet(t) ==
    LET s == Started(t)
        u == IF s.next = 0 THEN Pinged(s) ELSE s
    IN  [timer |-> u, ping |-> s.next = 0 /\ u.state # "inactive"]

update(t) ==
    LET s == Started(t) IN
    [timer |-> IF s.next = 0 THEN Pinged(s) ELSE s, ping |-> s.next = 0]

-----------------------------------------------------------------------------
(* peer *)

\* peer::do_send: a ping if one is due, and the answer to a ping
do_send(p) ==
    LET result == update(peer[p].timer) IN
    /\ peer[p].connected
    /\ peer' = [peer EXCEPT ![p].timer = result.timer,
                            ![p].active = result.timer.state # "inactive",
                            ![p].got_ping = FALSE]
    /\ net' = net \union Sent(p, (IF result.ping THEN {"ping"} ELSE {})
                                   \union (IF peer[p].got_ping THEN {"pong"} ELSE {}))

\* peer::send before the connection is established.  The first call sets the deadline.
Deadline(p) == IF peer[p].deadline = Unset THEN ProbeCount ELSE peer[p].deadline

send_handshake(p) ==
    /\ ~peer[p].connected /\ ~peer[p].timeout
    /\ Deadline(p) > 0
    /\ IF peer[p].deadline = Unset \/ peer[p].next = 0
       THEN /\ peer' = [peer EXCEPT ![p].deadline = Deadline(p), ![p].next = 1]
            /\ net' = net \union Sent(p, {"ping"})
       ELSE UNCHANGED vars

\* the handshake has failed: try to relay
send_relay(p) ==
    /\ ~peer[p].connected /\ ~peer[p].timeout
    /\ Deadline(p) = 0
    /\ HasRelay /\ ~peer[p].need_relay
    /\ peer' = [peer EXCEPT ![p].need_relay = TRUE, ![p].deadline = Unset]
    /\ UNCHANGED net

send_timeout(p) ==
    /\ ~peer[p].connected /\ ~peer[p].timeout
    /\ Deadline(p) = 0
    /\ ~HasRelay \/ peer[p].need_relay
    /\ peer' = [peer EXCEPT ![p].timeout = TRUE]
    /\ UNCHANGED net

send(p) == do_send(p) \/ send_handshake(p) \/ send_relay(p) \/ send_timeout(p)

\* peer::handle_ping and handle_pong, with handle_first_ping.  A datagram of the relay
\* is unpacked and looks as if it came from the peer (udp_client::handle_osc_message):
\* a peer that it connects goes on without the relay unless its own handshake had failed.
\* The deadlines of the handshake are not read again.
receive(p) ==
    \E m \in net :
        /\ m.to = p
        /\ net' \in {net, net \ {m}}
        /\ peer' = [peer EXCEPT ![p].connected = TRUE, ![p].deadline = Unset, ![p].next = 0,
                                ![p].timer.pong = TRUE,
                                ![p].got_ping = @ \/ m.kind = "ping"]

lose == \E m \in net : net' = net \ {m} /\ UNCHANGED peer

Before(t) == IF t > 0 THEN t - 1 ELSE t

tick ==
    /\ peer' = [p \in Peers |->
          [peer[p] EXCEPT !.deadline = Before(@), !.next = Before(@),
                          !.timer.deadline = Before(@), !.timer.next = Before(@)]]
    /\ UNCHANGED net

Next == tick \/ lose \/ \E p \in Peers : send(p) \/ receive(p)

Spec == Init /\ [][Next]_vars

\* The send thread wakes up again and again, time goes on, and a peer to whom datagrams
\* are sent over and over again gets one at last.
FairSpec ==
    /\ Spec
    /\ WF_vars(tick)
    /\ \A p \in Peers : WF_vars(send(p)) /\ SF_vars(receive(p))

-----------------------------------------------------------------------------
\* "reply to both handshake and regular pings!!! otherwise, the handshake might fail on
\* the other side" (handle_ping): when one peer is connected, the other one is connected
\* in the end, even if it has given up (send_timeout) or fallen back to the relay before.
\* It depends on Direct and, with HasRelay, on internal_relay: a peer answers by the way
\* it has chosen for itself, not by the one on which it was reached.
ConnectedTogether ==
    []<>(\A p, q \in Peers : peer[p].connected = peer[q].connected)
=============================================================================
