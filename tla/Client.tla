------------------------------- MODULE Client -------------------------------
(* The client of an AOO server (net/client.cpp).  Public functions only push *)
(* commands; the thread in run() performs them and reads the TCP connection, *)
(* the thread in send() drives the UDP handshake (udp_client::update), and   *)
(* the UDP receiver takes the answer of the server to a query.               *)
(*                                                                           *)
(* client[c] holds the members of client c.  A TCP connection is a number:   *)
(* up[i] and down[i] are its streams of messages, alive the connections that *)
(* the client has open, served those the server has open (accepted or not).  *)
EXTENDS Integers, Sequences, FiniteSets, Functions, TLC

CONSTANTS
    Clients,            \* the clients; a client is also its user name
    Names,              \* group names
    None,               \* no connection, no group
    MaxCalls,           \* bound: calls of all clients together
    MaxWaiting,         \* bound: calls of one client that wait to be performed
    MaxConnections,     \* bound: TCP connections of all clients together
    MaxFaults           \* bound: timeouts, failed and lost connections of all clients

VARIABLES client, up, down, alive, served, calls, connections, faults

vars == <<client, up, down, alive, served, calls, connections, faults>>

Connections == 0 .. MaxConnections - 1

\* The members of a client that matter here.  connection_: whether it is set;
\* sock: the TCP socket; start_handshake_, asked (a query was sent) and got_address_
\* belong to the UDP client.  answer: how far the UDP receiver is with the answer to a
\* query.  draining: run() performs all commands that wait before it reads from the
\* socket again.
NewClient ==
    [state_ |-> "disconnected", connection_ |-> FALSE, sock |-> None, commands_ |-> <<>>,
     groups_ |-> {}, peers_ |-> {}, pending_requests_ |-> <<>>, next_token_ |-> 0,
     start_handshake_ |-> FALSE, asked |-> FALSE, got_address_ |-> FALSE,
     answer |-> "none", draining |-> FALSE]

Init ==
    /\ client = [c \in Clients |-> NewClient]
    /\ up = [i \in Connections |-> <<>>]
    /\ down = [i \in Connections |-> <<>>]
    /\ alive = {}
    /\ served = {}
    /\ connections = 0
    /\ faults = 0
    /\ calls = 0

\* one of the things that go wrong
Fault == faults < MaxFaults /\ faults' = faults + 1

-----------------------------------------------------------------------------
(* Helpers on the members of one client *)

push_command(x, cmd) == [x EXCEPT !.commands_ = Append(@, cmd)]

\* Everything goes without a word to the callbacks of the pending requests
close(x) ==
    [x EXCEPT !.sock = None, !.connection_ = FALSE, !.groups_ = {}, !.peers_ = {},
              !.pending_requests_ = <<>>, !.state_ = "disconnected"]

find_group_membership(x, id) == \E g \in x.groups_ : g.group_id = id

\* A command leaves the queue before it is performed
popped(c) ==
    [client[c] EXCEPT !.commands_ = Tail(@), !.draining = Len(client[c].commands_) > 1]

\* once it has read from the socket, the thread turns to the commands
Drain(x) == [x EXCEPT !.draining = x.commands_ # <<>>]

\* A request is remembered under a new token
request(x, cmd) ==
    [x EXCEPT !.pending_requests_ = @ @@ (x.next_token_ :> cmd), !.next_token_ = @ + 1]

\* the client closes its end: what the server still sends is lost
Hangup(c) ==
    /\ alive' = alive \ {client[c].sock}
    /\ down' = [i \in DOMAIN down |-> IF i = client[c].sock THEN <<>> ELSE down[i]]

\* The new members of client c.  When they have no socket any more, it was closed.
Becomes(c, x) ==
    /\ client' = [client EXCEPT ![c] = x]
    /\ IF x.sock = client[c].sock THEN UNCHANGED <<alive, down>> ELSE Hangup(c)

send_server_message(c, msg) ==
    up' = [i \in DOMAIN up |-> IF i = client[c].sock THEN Append(up[i], msg) ELSE up[i]]

NextCommand(c, kind) == client[c].commands_ # <<>> /\ Head(client[c].commands_).t = kind

-----------------------------------------------------------------------------
(* The public functions push a command for the network thread *)

\* a caller names a group that it is a member of (when the command is performed,
\* it may not be any more)
Commands(x) ==
    {[t |-> k] : k \in {"connect", "disconnect", "request"}}
        \cup [t : {"join"}, name : Names]
        \cup [t : {"leave", "group_update", "user_update"}, group : {g.group_id : g \in x.groups_}]

\* connect(), disconnect(), joinGroup(), leaveGroup(), updateGroup(), updateUser(),
\* customRequest()
call(c, cmd) ==
    /\ calls < MaxCalls
    /\ Cardinality({k \in DOMAIN client[c].commands_ :
                       client[c].commands_[k].t \notin {"timeout", "login"}}) < MaxWaiting
    /\ client[c].state_ # "crashed"
    /\ client' = [client EXCEPT ![c] = push_command(@, cmd)]
    /\ calls' = calls + 1
    /\ UNCHANGED <<up, down, alive, served, connections, faults>>

-----------------------------------------------------------------------------
(* The commands, performed by the network thread *)

\* refused while connected or connecting; a host name may not resolve
perform_connect(c) ==
    /\ NextCommand(c, "connect")
    /\ \/ /\ IF client[c].state_ = "disconnected" THEN Fault ELSE UNCHANGED faults
          /\ client' = [client EXCEPT ![c] = popped(c)]
       \/ /\ client[c].state_ = "disconnected"
          /\ UNCHANGED faults
          /\ client' = [client EXCEPT ![c] =
                [popped(c) EXCEPT !.connection_ = TRUE, !.start_handshake_ = TRUE,
                                  !.got_address_ = FALSE, !.state_ = "handshake"]]
    /\ UNCHANGED <<up, down, alive, served, calls, connections>>

\* do_connect() replaces the socket, and the TCP connection may fail.  The command
\* asserts that there is a connection_ (it dereferences it) and that there are no
\* groups; neither holds when the login comes too late, see handle_query_login.
perform_login(c) ==
    LET x == popped(c) IN
    /\ NextCommand(c, "login")
    /\ \/ /\ ~x.connection_ \/ x.groups_ # {}
          /\ Becomes(c, [close(x) EXCEPT !.state_ = "crashed"])
          /\ UNCHANGED <<up, served, calls, connections, faults>>
       \/ /\ x.connection_ /\ x.groups_ = {}
          /\ Fault
          /\ Becomes(c, close(x))
          /\ UNCHANGED <<up, served, calls, connections>>
       \/ /\ x.connection_ /\ x.groups_ = {}
          /\ connections < MaxConnections
          /\ client' = [client EXCEPT ![c] =
                [x EXCEPT !.state_ = "connecting", !.sock = connections, !.next_token_ = @ + 1]]
          /\ up' = [up EXCEPT ![connections] = <<[t |-> "login", token |-> x.next_token_]>>]
          /\ alive' = (alive \ {x.sock}) \cup {connections}
          /\ down' = [i \in DOMAIN down |-> IF i = x.sock THEN <<>> ELSE down[i]]
          /\ served' = served \cup {connections}
          /\ connections' = connections + 1
          /\ UNCHANGED <<calls, faults>>

\* only a handshake that has not ended is ended; other timeouts come too late
perform_timeout(c) ==
    LET x == popped(c) IN
    /\ NextCommand(c, "timeout")
    /\ client' = [client EXCEPT ![c] =
                     IF x.connection_ /\ x.state_ = "handshake" THEN close(x) ELSE x]
    /\ UNCHANGED <<up, down, alive, served, calls, connections, faults>>

\* refused unless connected, also during the handshake
perform_disconnect(c) ==
    LET x == popped(c) IN
    /\ NextCommand(c, "disconnect")
    /\ Becomes(c, IF x.state_ = "connected" THEN close(x) ELSE x)
    /\ UNCHANGED <<up, served, calls, connections, faults>>

\* answered with an error at once, or sent to the server under a new token (if
\* that fails, the connection is closed)
perform_request(c, allowed, msg) ==
    LET x == popped(c) IN
    /\ \/ /\ allowed
          /\ Becomes(c, request(x, Head(client[c].commands_)))
          /\ send_server_message(c, msg)
          /\ UNCHANGED faults
       \/ /\ ~allowed
          /\ Becomes(c, x)
          /\ UNCHANGED <<up, faults>>
       \/ /\ allowed
          /\ Becomes(c, close(x))
          /\ Fault
          /\ UNCHANGED up
    /\ UNCHANGED <<served, calls, connections>>

perform_group_join(c) ==
    LET x == client[c]  cmd == Head(x.commands_) IN
    /\ NextCommand(c, "join")
    /\ perform_request(c,
           x.state_ = "connected" /\ \A g \in x.groups_ : g.group_name # cmd.name,
           [t |-> "join", token |-> x.next_token_, name |-> cmd.name, user |-> c])

\* leave, update the group, update the user: the membership is checked, not the state
perform_member(c, kind) ==
    LET x == client[c]  cmd == Head(x.commands_) IN
    /\ NextCommand(c, kind)
    /\ perform_request(c, find_group_membership(x, cmd.group),
           [t |-> kind, token |-> x.next_token_, group |-> cmd.group])

perform_custom_request(c) ==
    /\ NextCommand(c, "request")
    /\ perform_request(c, client[c].state_ = "connected",
           [t |-> "request", token |-> client[c].next_token_])

-----------------------------------------------------------------------------
(* Messages of the server over TCP *)

without_group(x, id) ==
    [x EXCEPT !.peers_ = {p \in @ : p.group # id}, !.groups_ = {g \in @ : g.group_id # id}]

\* a server of another version is refused
handle_login(x, m, compatible) ==
    IF ~x.connection_ THEN x
    ELSE IF m.ok /\ compatible THEN [x EXCEPT !.state_ = "connected"] ELSE close(x)

handle_join_response(x, m, cmd) ==
    IF m.ok /\ \A g \in x.groups_ : g.group_name # cmd.name
    THEN [x EXCEPT !.groups_ = @ \cup {[group_name |-> cmd.name, group_id |-> m.group,
                                        user_id |-> m.user]}]
    ELSE x

handle_leave_response(x, m, cmd) == IF m.ok THEN without_group(x, cmd.group) ELSE x

\* a response ends the request with its token; updates and custom requests
\* only call back
handle_response(x, m) ==
    IF m.token \notin DOMAIN x.pending_requests_ THEN x
    ELSE LET cmd == x.pending_requests_[m.token]
             y == CASE cmd.t = "join" -> handle_join_response(x, m, cmd)
                    [] cmd.t = "leave" -> handle_leave_response(x, m, cmd)
                    [] OTHER -> x
         IN [y EXCEPT !.pending_requests_ = Restrict(@, DOMAIN @ \ {m.token})]

handle_group_eject(x, m) == without_group(x, m.group)

\* ignored if the peer is there already or the group (by name) is not ours
handle_peer_join(x, m) ==
    IF /\ \A p \in x.peers_ : <<p.group, p.user>> # <<m.group, m.user>>
       /\ \E g \in x.groups_ : g.group_name = m.name
    THEN [x EXCEPT !.peers_ = @ \cup {[group |-> m.group, user |-> m.user]}]
    ELSE x

\* a peer of a group that is not ours stays
handle_peer_leave(x, m) ==
    IF find_group_membership(x, m.group)
    THEN [x EXCEPT !.peers_ = @ \ {[group |-> m.group, user |-> m.user]}]
    ELSE x

handle_server_message(x, m, compatible) ==
    CASE m.t = "login" -> handle_login(x, m, compatible)
      [] m.t \in {"join", "leave", "group_update", "user_update", "request"} ->
            handle_response(x, m)
      [] m.t = "eject" -> handle_group_eject(x, m)
      [] m.t = "peer_join" -> handle_peer_join(x, m)
      [] m.t = "peer_leave" -> handle_peer_leave(x, m)
      [] OTHER -> x     \* news of a group, user or peer and notifications become events

receive_data(c) ==
    LET x == client[c] IN
    /\ x.sock # None /\ ~x.draining
    /\ down[x.sock] # <<>>
    /\ \E compatible \in BOOLEAN :
          LET y == Drain(handle_server_message(x, Head(down[x.sock]), compatible)) IN
          /\ IF compatible THEN UNCHANGED faults
             ELSE Fault /\ Head(down[x.sock]).t = "login"
          /\ client' = [client EXCEPT ![c] = y]
          /\ IF y.sock = x.sock
             THEN down' = [down EXCEPT ![x.sock] = Tail(@)] /\ UNCHANGED alive
             ELSE Hangup(c)
    /\ UNCHANGED <<up, served, calls, connections>>

\* The server has closed the connection and everything it sent was read
end_of_stream(c) ==
    LET x == client[c] IN
    /\ x.sock # None /\ ~x.draining
    /\ x.sock \notin served
    /\ down[x.sock] = <<>>
    /\ Becomes(c, Drain(close(x)))
    /\ UNCHANGED <<up, served, calls, connections, faults>>

\* recv() fails, or the server does not answer pings (run())
connection_lost(c) ==
    /\ client[c].sock # None /\ ~client[c].draining
    /\ Fault
    /\ Becomes(c, Drain(close(client[c])))
    /\ UNCHANGED <<up, served, calls, connections>>

-----------------------------------------------------------------------------
(* The UDP handshake *)

\* first call in a handshake: the timer starts; the server is queried
update_query(c) ==
    /\ client[c].state_ = "handshake"
    /\ client' = [client EXCEPT ![c].start_handshake_ = FALSE, ![c].asked = TRUE]
    /\ UNCHANGED <<up, down, alive, served, calls, connections, faults>>

\* the deadline has passed: at every call, until the handshake is over
update_timeout(c) ==
    /\ client[c].state_ = "handshake"
    /\ ~client[c].start_handshake_
    /\ Fault
    /\ client' = [client EXCEPT ![c] = push_command(@, [t |-> "timeout"])]
    /\ UNCHANGED <<up, down, alive, served, calls, connections>>

\* An answer to a query, of this handshake or of an earlier one: the state is read, ...
handle_query(c) ==
    /\ client[c].answer = "none"
    /\ client[c].asked
    /\ client[c].state_ = "handshake"
    /\ client' = [client EXCEPT ![c].answer = "checked"]
    /\ UNCHANGED <<up, down, alive, served, calls, connections, faults>>

\* ... got_address_ is exchanged, and only the first answer counts, ...
handle_query_first(c) ==
    /\ client[c].answer = "checked"
    /\ client' = [client EXCEPT ![c].answer = IF client[c].got_address_ THEN "none" ELSE "first",
                                ![c].got_address_ = TRUE]
    /\ UNCHANGED <<up, down, alive, served, calls, connections, faults>>

\* ... and the client can try to log in, in whatever state it is now
handle_query_login(c) ==
    /\ client[c].answer = "first"
    /\ client' = [client EXCEPT ![c] =
                     [push_command(@, [t |-> "login"]) EXCEPT !.answer = "none"]]
    /\ UNCHANGED <<up, down, alive, served, calls, connections, faults>>

\* poll() times out: there was nothing to do
wait_for_event(c) == client[c].commands_ = <<>> /\ UNCHANGED vars

perform(c) ==
    /\ client[c].state_ # "crashed"
    /\ \/ perform_connect(c) \/ perform_login(c) \/ perform_timeout(c)
       \/ perform_disconnect(c) \/ perform_group_join(c) \/ perform_custom_request(c)
       \/ \E kind \in {"leave", "group_update", "user_update"} : perform_member(c, kind)

Step(c) ==
    \/ \E cmd \in Commands(client[c]) : call(c, cmd)
    \/ perform(c)
    \/ receive_data(c) \/ end_of_stream(c) \/ connection_lost(c)
    \/ update_query(c) \/ update_timeout(c)
    \/ handle_query(c) \/ handle_query_first(c) \/ handle_query_login(c)
    \/ wait_for_event(c)

Next == \E c \in Clients : Step(c)
=============================================================================
