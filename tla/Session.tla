------------------------------ MODULE Session ------------------------------
(* Clients and a server together: the clients of Client, the server of       *)
(* Server, and TCP connections between them.                                 *)
EXTENDS Integers, Sequences, FiniteSets, FiniteSetsExt

CONSTANTS Clients, HostUsers, Names, None, MaxCalls, MaxWaiting, MaxConnections, MaxFaults, MaxHostCalls

VARIABLES client, calls, connections, faults,
          clients_, groups_, next_group_id_, deferred, message_queue_, hostcalls,
          up, down, alive, served

C == INSTANCE Client

S == INSTANCE Server

serverOnly == <<clients_, groups_, next_group_id_, deferred, message_queue_, hostcalls>>

vars == <<client, calls, connections, faults, serverOnly, up, down, alive, served>>

Init == C!Init /\ S!Init

Next ==
    \/ C!Next /\ UNCHANGED serverOnly
    \/ S!Next /\ UNCHANGED <<client, calls, connections, faults>>

Spec == Init /\ [][Next]_vars

-----------------------------------------------------------------------------

\* the connection of client c is accepted and logged in on both sides, and
\* everything the server has sent has been read
Quiet(c) ==
    /\ client[c].state_ = "connected"
    /\ client[c].sock \in DOMAIN clients_
    /\ down[client[c].sock] = <<>>

\* Client.handle_response: a response of the server on the open connection of a
\* client answers one of its pending requests, and only one response does
ResponseExpected ==
    \A c \in Clients : client[c].sock # None =>
        LET q == down[client[c].sock]
            R == {k \in 1 .. Len(q) : "token" \in DOMAIN q[k] /\ q[k].t # "login"}
        IN  /\ \A k \in R : /\ q[k].token \in DOMAIN client[c].pending_requests_
                            /\ client[c].pending_requests_[q[k].token].t = q[k].t
            /\ \A k, l \in R : q[k].token = q[l].token => k = l

\* Client.groups_ against client_endpoint::group_users_: once a client has read
\* everything, it is a member of the groups that the server thinks it is in
MembershipAgrees ==
    \A c \in Clients : Quiet(c) =>
        {<<g.group_id, g.user_id>> : g \in client[c].groups_}
            = clients_[client[c].sock].group_users_

\* Client.peers_: once a client has read everything, its peers in a group it
\* joined are exactly the other users that joined, whatever joined, left, was
\* removed or disconnected before (users created by the host aside; no client
\* joins under the name of one)
PeersAgree ==
    \A c \in Clients : Quiet(c) =>
        \A g \in DOMAIN groups_ :
            LET joined == {u \in DOMAIN groups_[g].users : ~groups_[g].users[u].persistent}
                own == {u \in joined : groups_[g].users[u].client = client[c].sock}
                peers == {p.user : p \in {q \in client[c].peers_ : q.group = g}}
            IN  own # {} => peers = joined \ own

\* Server: an active user belongs to a client that is connected and knows it,
\* and only a persistent group has no users, however clients are lost, are removed
\* by the host or leave at the same time
UsersOnline ==
    \A g \in DOMAIN groups_ :
        /\ \A u \in DOMAIN groups_[g].users :
              LET id == groups_[g].users[u].client IN
              id # None => id \in DOMAIN clients_ /\ <<g, u>> \in clients_[id].group_users_
        /\ DOMAIN groups_[g].users = {} => groups_[g].persistent

\* However calls, faults and messages interleave, the two sides agree about who is a
\* member, about who is whose peer and about which requests are open, and the server
\* keeps no user without a client.
SessionAgrees == MembershipAgrees /\ PeersAgree /\ UsersOnline /\ ResponseExpected
=============================================================================
