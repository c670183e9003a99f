------------------------------- MODULE Server -------------------------------
(* The AOO server (net/server.cpp) and its client endpoints                  *)
(* (net/client_endpoint.cpp): clients log in, join and leave groups, and the *)
(* members of a group are told of each other.  Requests come over TCP, one   *)
(* at a time; the host may take a request over and answer it later, and it   *)
(* may add or remove groups and users in between.                            *)
(*                                                                           *)
(* The id of a client is the number of its connection (see Client).          *)
EXTENDS Integers, Sequences, FiniteSets, FiniteSetsExt, Functions, TLC

CONSTANTS
    HostUsers,          \* names of the users that the host adds
    Names,              \* names of groups
    None,               \* kAooIdInvalid
    MaxHostCalls        \* bound: calls of the host, requests it takes over, refusals,
                        \*        clients that do not answer, stops

VARIABLES
    clients_,           \* the endpoints, by id: active (logged in), group_users_
    groups_,            \* the groups, by id: name, persistent, users (by id)
    next_group_id_,
    deferred,           \* requests taken over by the host
    message_queue_,     \* notifications of the host
    hostcalls,          \* of MaxHostCalls
    up, down, alive, served

vars == <<clients_, groups_, next_group_id_, deferred, message_queue_, hostcalls,
          up, down, alive, served>>

Init ==
    /\ clients_ = <<>>
    /\ groups_ = <<>>
    /\ next_group_id_ = 0
    /\ deferred = {}
    /\ message_queue_ = <<>>
    /\ hostcalls = 0

\* one thing that the host does or that goes wrong
Counted == hostcalls < MaxHostCalls /\ hostcalls' = hostcalls + 1

-----------------------------------------------------------------------------
(* A handler maps the clients, the groups and what is sent: s is a record of *)
(* clients_, groups_ and down.                                               *)

Now == [clients |-> clients_, groups |-> groups_, down |-> down]

Become(s) == clients_' = s.clients /\ groups_' = s.groups /\ down' = s.down

Without(f, x) == Restrict(f, DOMAIN f \ {x})

\* what is sent to a client that hung up is lost
send_message(s, id, msg) ==
    IF id \in DOMAIN s.clients \cap alive
    THEN [s EXCEPT !.down[id] = Append(@, msg)] ELSE s

\* requests to update a group or user get no error
send_error(s, id, r) ==
    IF r.t \in {"login", "join", "leave", "request"}
    THEN send_message(s, id, [t |-> r.t, token |-> r.token, ok |-> FALSE]) ELSE s

reply(s, id, r) == send_message(s, id, [t |-> r.t, token |-> r.token, ok |-> TRUE])

find_group(s, name) == {g \in DOMAIN s.groups : s.groups[g].name = name}

users(s, g) == s.groups[g].users

find_user_name(s, g, name) == {u \in DOMAIN users(s, g) : users(s, g)[u].name = name}

find_user_client(s, g, id) == {u \in DOMAIN users(s, g) : users(s, g)[u].client = id}

\* ids are reclaimed: the lowest one that is free
get_next_user_id(s, g) == Min(0 .. Cardinality(DOMAIN users(s, g)) \ DOMAIN users(s, g))

add_group(s, g, name, persistent) ==
    [s EXCEPT !.groups = @ @@ (g :> [name |-> name, persistent |-> persistent, users |-> <<>>])]

add_user(s, g, u, name, id, persistent) ==
    [s EXCEPT !.groups[g].users =
        @ @@ (u :> [name |-> name, client |-> id, persistent |-> persistent])]

-----------------------------------------------------------------------------
(* Joining and leaving *)

on_group_join(s, id, g, u) == [s EXCEPT !.clients[id].group_users_ = @ \cup {<<g, u>>}]

on_group_leave(s, id, g, u, eject) ==
    LET t == IF eject THEN send_message(s, id, [t |-> "eject", group |-> g]) ELSE s
    IN  IF id \in DOMAIN s.clients
        THEN [t EXCEPT !.clients[id].group_users_ = @ \ {<<g, u>>}] ELSE t

PeerJoin(s, g, u) == [t |-> "peer_join", name |-> s.groups[g].name, group |-> g, user |-> u]

\* the new member learns of the active ones and they of it
on_user_joined_group(s, g, u, id) ==
    LET others == {v \in DOMAIN users(s, g) \ {u} :
                      users(s, g)[v].client \in DOMAIN s.clients}
        tell(v, t) == send_message(send_message(t, id, PeerJoin(s, g, v)),
                                   users(s, g)[v].client, PeerJoin(s, g, u))
    IN  FoldSet(tell, s, others)

\* everybody else in the group, msg(v) to the client of user v
Tell(s, g, who, msg(_)) ==
    FoldSet(LAMBDA v, t : send_message(t, users(s, g)[v].client, msg(v)), s, who)

on_user_left_group(s, g, u) ==
    Tell(s, g, DOMAIN users(s, g) \ {u},
         LAMBDA v : [t |-> "peer_leave", group |-> g, user |-> u])

remove_group(s, g) ==
    LET leave(u, t) == on_group_leave(t, users(s, g)[u].client, g, u, TRUE)
        told == FoldSet(leave, s, DOMAIN users(s, g))
    IN  [told EXCEPT !.groups = Without(@, g)]

\* a persistent user is only unset; a group that is empty goes unless persistent
do_remove_user_from_group(s, g, u) ==
    IF users(s, g)[u].persistent
    THEN [s EXCEPT !.groups[g].users[u].client = None]
    ELSE LET t == [s EXCEPT !.groups[g].users = Without(@, u)]
         IN  IF ~t.groups[g].persistent /\ DOMAIN users(t, g) = {} THEN remove_group(t, g) ELSE t

\* Mutant: the others are not told
on_close_untold(s, id) ==
    LET leave(gu, t) ==
            IF gu[1] \in DOMAIN t.groups /\ gu[2] \in DOMAIN users(t, gu[1])
            THEN do_remove_user_from_group(t, gu[1], gu[2]) ELSE t
    IN  FoldSet(leave, s, s.clients[id].group_users_)

\* the client leaves all its groups
on_close(s, id) ==
    LET leave(gu, t) ==
            IF gu[1] \in DOMAIN t.groups /\ gu[2] \in DOMAIN users(t, gu[1])
            THEN do_remove_user_from_group(on_user_left_group(t, gu[1], gu[2]), gu[1], gu[2])
            ELSE t
    IN  FoldSet(leave, s, s.clients[id].group_users_)

\* Mutant: the endpoint goes without a word to its groups
remove_client_quiet(s, id) == [s EXCEPT !.clients = Without(@, id)]

remove_client(s, id) == [on_close(s, id) EXCEPT !.clients = Without(@, id)]

-----------------------------------------------------------------------------
(* Requests that were accepted, by the server itself or by its host *)

do_login(s, id, r) == reply([s EXCEPT !.clients[id].active = TRUE], id, r)

\* r.group and r.userid were looked up when the request arrived.  A user that
\* exists keeps its client_; only a new one is given to the client.
do_group_join(s, id, r) ==
    LET created == r.group \notin DOMAIN s.groups
        g == IF created THEN next_group_id_ ELSE r.group
        t == IF created THEN add_group(s, g, r.name, FALSE) ELSE s
        found == r.userid \in DOMAIN users(t, g)
        u == IF found THEN r.userid ELSE get_next_user_id(t, g)
        t2 == IF found THEN t ELSE add_user(t, g, u, r.user, id, FALSE)
        t3 == send_message(on_group_join(t2, id, g, u), id,
                  [t |-> "join", token |-> r.token, ok |-> TRUE, group |-> g, user |-> u])
    IN  IF created /\ find_group(s, r.name) # {} THEN send_error(s, id, r)
        ELSE IF ~found /\ find_user_name(t, g, r.user) # {} THEN send_error(t, id, r)
        ELSE on_user_joined_group(t3, g, u, id)

\* Mutant: the endpoint still has the user
do_group_leave_kept(s, id, r) ==
    IF r.group \in DOMAIN s.groups /\ find_user_client(s, r.group, id) # {}
    THEN LET u == Min(find_user_client(s, r.group, id))
         IN  reply(do_remove_user_from_group(on_user_left_group(s, r.group, u), r.group, u), id, r)
    ELSE send_error(s, id, r)

do_group_leave(s, id, r) ==
    IF r.group \in DOMAIN s.groups /\ find_user_client(s, r.group, id) # {}
    THEN LET u == Min(find_user_client(s, r.group, id))
             t == on_group_leave(on_user_left_group(s, r.group, u), id, r.group, u, FALSE)
         IN  reply(do_remove_user_from_group(t, r.group, u), id, r)
    ELSE send_error(s, id, r)

do_group_update(s, id, r) ==
    IF r.group \in DOMAIN s.groups /\ find_user_client(s, r.group, id) # {}
    THEN reply(Tell(s, r.group, DOMAIN users(s, r.group) \ find_user_client(s, r.group, id),
                    LAMBDA v : [t |-> "group_changed", group |-> r.group]), id, r)
    ELSE s

\* the user is found by the id it had when the request arrived
do_user_update(s, id, r) ==
    IF r.group \in DOMAIN s.groups /\ r.userid \in DOMAIN users(s, r.group)
    THEN reply(Tell(s, r.group, DOMAIN users(s, r.group) \ {r.userid},
                    LAMBDA v : [t |-> "peer_changed", group |-> r.group, user |-> r.userid]),
               id, r)
    ELSE s

do_custom_request(s, id, r) == reply(s, id, r)

do_request(s, id, r) ==
    CASE r.t = "login" -> do_login(s, id, r)
      [] r.t = "join" -> do_group_join(s, id, r)
      [] r.t = "leave" -> do_group_leave(s, id, r)
      [] r.t = "group_update" -> do_group_update(s, id, r)
      [] r.t = "user_update" -> do_user_update(s, id, r)
      [] r.t = "request" -> do_custom_request(s, id, r)

-----------------------------------------------------------------------------
(* Requests as they arrive *)

AnyOf(S) == IF S = {} THEN None ELSE Min(S)

\* the group and the user the request is about, as they are now
Lookup(s, id, r) ==
    CASE r.t = "join" ->
            LET g == AnyOf(find_group(s, r.name))
                u == IF g = None THEN None ELSE AnyOf(find_user_name(s, g, r.user))
            IN  r @@ [group |-> g, userid |-> u]
      [] r.t = "user_update" ->
            r @@ [userid |-> IF r.group \in DOMAIN s.groups
                             THEN AnyOf(find_user_client(s, r.group, id)) ELSE None]
      [] OTHER -> r

\* Passwords, versions and the permission to create a group are the choice of
\* the environment (MayRefuse); the rest of the checks is Refused.
MayRefuse(r) == r.t \in {"login", "join"}

Refused(s, id, r) ==
    CASE r.t = "join" -> r.userid # None /\ users(s, r.group)[r.userid].client # None
      [] r.t \in {"group_update", "user_update"} ->
            r.group \notin DOMAIN s.groups \/ find_user_client(s, r.group, id) = {}
      [] OTHER -> FALSE

\* Mutant: no return after an error
handle_request_twice(s, id, r) ==
    IF r.t = "request" THEN send_error(s, id, r)
    ELSE do_request(IF Refused(s, id, r) THEN send_error(s, id, r) ELSE s, id, r)

\* a custom request that nobody takes is an error
handle_request(s, id, r) ==
    IF Refused(s, id, r) \/ r.t = "request" THEN send_error(s, id, r) ELSE do_request(s, id, r)

\* a join that has to create its group takes an id, also if the name was taken meanwhile
UsesGroupId(s, r) == r.t = "join" /\ r.group \notin DOMAIN s.groups

NextGroupId(s, r) ==
    next_group_id_' = IF UsesGroupId(s, r) THEN next_group_id_ + 1 ELSE next_group_id_

Take(id) == up' = [up EXCEPT ![id] = Tail(@)]

\* handle_client_data(): a message before the login ends the connection
handle_message(id) ==
    LET r == Lookup(Now, id, Head(up[id])) IN
    /\ id \in DOMAIN clients_
    /\ up[id] # <<>>
    /\ Take(id)
    /\ \/ /\ r.t # "login" /\ ~clients_[id].active
          /\ Become(remove_client(Now, id))
          /\ served' = served \ {id}
          /\ UNCHANGED <<next_group_id_, deferred, hostcalls>>
       \/ /\ r.t = "login" \/ clients_[id].active
          /\ UNCHANGED hostcalls
          /\ Become(handle_request(Now, id, r))
          /\ IF Refused(Now, id, r) THEN UNCHANGED next_group_id_ ELSE NextGroupId(Now, r)
          /\ UNCHANGED <<served, deferred>>
       \/ /\ r.t = "login" \/ clients_[id].active
          /\ MayRefuse(r)
          /\ Counted
          /\ Become(send_error(Now, id, r))
          /\ UNCHANGED <<served, deferred, next_group_id_>>
       \/ /\ r.t = "login" \/ clients_[id].active
          /\ ~Refused(Now, id, r)
          /\ Counted
          /\ deferred' = deferred \cup {<<id, r>>}
          /\ UNCHANGED <<served, clients_, groups_, down, next_group_id_>>
    /\ UNCHANGED <<message_queue_, alive>>

\* the host answers a request later; the client may be gone
handleRequest(d) ==
    LET id == d[1]  r == d[2] IN
    /\ d \in deferred
    /\ deferred' = deferred \ {d}
    /\ \/ /\ id \notin DOMAIN clients_
          /\ UNCHANGED <<clients_, groups_, down, next_group_id_>>
       \/ /\ id \in DOMAIN clients_
          /\ Become(do_request(Now, id, r))
          /\ NextGroupId(Now, r)
       \/ /\ id \in DOMAIN clients_
          /\ Become(send_error(Now, id, r))
          /\ UNCHANGED next_group_id_
    /\ UNCHANGED <<hostcalls, message_queue_, up, alive, served>>

-----------------------------------------------------------------------------
(* Connections *)

accept_client(id) ==
    /\ id \in served \ DOMAIN clients_
    /\ clients_' = clients_ @@ (id :> [active |-> FALSE, group_users_ |-> {}])
    /\ UNCHANGED <<hostcalls, groups_, next_group_id_, deferred, message_queue_, up, down, alive, served>>

\* the client hung up and all it sent was read, or it does not answer pings
handle_disconnect(id) ==
    /\ id \in DOMAIN clients_
    /\ \/ /\ id \notin alive /\ up[id] = <<>>
          /\ UNCHANGED hostcalls
       \/ Counted
    /\ Become(remove_client(Now, id))
    /\ served' = served \ {id}
    /\ up' = [up EXCEPT ![id] = <<>>]
    /\ UNCHANGED <<next_group_id_, deferred, message_queue_, alive>>

\* stop(), and close() at the end of run(): nobody is told.  (A stop() that comes while
\* run() is not in tcp_server::run() leaves the sockets open until the next setup(); see
\* TcpServer.  Here they are closed with the server.)
close ==
    /\ Counted
    /\ clients_' = <<>>
    /\ groups_' = <<>>
    /\ message_queue_' = <<>>
    /\ served' = {}
    /\ up' = [i \in DOMAIN up |-> <<>>]
    /\ UNCHANGED <<next_group_id_, deferred, down, alive>>

-----------------------------------------------------------------------------
(* Calls of the host *)

HostCall ==
    /\ Counted
    /\ UNCHANGED <<deferred, up, alive, served>>

\* the id is used up even if the name is taken
addGroup(name) ==
    /\ HostCall
    /\ next_group_id_' = next_group_id_ + 1
    /\ groups_' = IF find_group(Now, name) = {}
                  THEN add_group(Now, next_group_id_, name, TRUE).groups ELSE groups_
    /\ UNCHANGED <<clients_, down, message_queue_>>

removeGroup(g) ==
    /\ HostCall
    /\ g \in DOMAIN groups_
    /\ Become(remove_group(Now, g))
    /\ UNCHANGED <<next_group_id_, message_queue_>>

addUserToGroup(g, name) ==
    /\ HostCall
    /\ g \in DOMAIN groups_
    /\ find_user_name(Now, g, name) = {}
    /\ groups_' = add_user(Now, g, get_next_user_id(Now, g), name, None, TRUE).groups
    /\ UNCHANGED <<clients_, down, next_group_id_, message_queue_>>

removeUserFromGroup(g, u) ==
    LET id == groups_[g].users[u].client IN
    /\ HostCall
    /\ g \in DOMAIN groups_
    /\ u \in DOMAIN groups_[g].users
    /\ Become(do_remove_user_from_group(
                 IF id = None THEN Now
                 ELSE on_user_left_group(on_group_leave(Now, id, g, u, TRUE), g, u), g, u))
    /\ UNCHANGED <<next_group_id_, message_queue_>>

\* groupControl(): the members are told of the new metadata
update_group(g) ==
    /\ HostCall
    /\ g \in DOMAIN groups_
    /\ Become(Tell(Now, g, DOMAIN groups_[g].users,
                   LAMBDA v : [t |-> "group_changed", group |-> g]))
    /\ UNCHANGED <<next_group_id_, message_queue_>>

\* every other member is sent the metadata of that member, not of the user
update_user(g, u) ==
    /\ HostCall
    /\ g \in DOMAIN groups_
    /\ u \in DOMAIN groups_[g].users
    /\ Become(Tell(Now, g, DOMAIN groups_[g].users,
                   LAMBDA v : [t |-> IF v = u THEN "user_changed" ELSE "peer_changed",
                               group |-> g, user |-> v]))
    /\ UNCHANGED <<next_group_id_, message_queue_>>

\* notifyClient(), notifyGroup(): to one or all clients, to one or all of a group
push_message(g, who) ==
    /\ HostCall
    /\ IF g = None THEN who \in DOMAIN clients_ \cup {None}
       ELSE g \in DOMAIN groups_ /\ who \in DOMAIN groups_[g].users \cup {None}
    /\ message_queue_' = Append(message_queue_, <<g, who>>)
    /\ UNCHANGED <<clients_, groups_, down, next_group_id_>>

\* the clients that a queued notification reaches now
Receivers(g, who) ==
    IF g = None THEN IF who = None THEN DOMAIN clients_ ELSE {who}
    ELSE IF g \notin DOMAIN groups_ THEN {}
    ELSE {groups_[g].users[u].client :
             u \in IF who = None THEN DOMAIN groups_[g].users ELSE {who} \cap DOMAIN groups_[g].users}

dispatch_message ==
    /\ message_queue_ # <<>>
    /\ message_queue_' = Tail(message_queue_)
    /\ Become(FoldSet(LAMBDA id, t : send_message(t, id, [t |-> "message"]), Now,
                      Receivers(Head(message_queue_)[1], Head(message_queue_)[2])))
    /\ UNCHANGED <<hostcalls, next_group_id_, deferred, up, alive, served>>

Next ==
    \/ \E id \in DOMAIN up : handle_message(id) \/ accept_client(id) \/ handle_disconnect(id)
    \/ \E d \in deferred : handleRequest(d)
    \/ close \/ dispatch_message
    \/ \E name \in Names : addGroup(name)
    \/ \E g \in DOMAIN groups_ :
          \/ removeGroup(g) \/ update_group(g)
          \/ \E name \in HostUsers : addUserToGroup(g, name)
          \/ \E u \in DOMAIN groups_[g].users : removeUserFromGroup(g, u) \/ update_user(g, u)
    \/ \E g \in DOMAIN groups_ \cup {None} :
          \E who \in {None} \cup DOMAIN clients_ \cup UNION {DOMAIN groups_[h].users : h \in DOMAIN groups_} :
             push_message(g, who)
=============================================================================
