------------------------------ MODULE PdClient ------------------------------
(***************************************************************************)
(* The aoo_client object of the Pure Data external (pd/src/aoo_client.cpp),   *)
(* attached to a node.  The network thread leaves events in the client's      *)
(* queue and replies to requests in the object's own list; a clock in Pd's    *)
(* main thread polls both, first the events, then the replies.  Messages of   *)
(* peers are put off until their time in a priority queue with a clock of its *)
(* own, which the object must keep set to the first of them.                  *)
(*                                                                           *)
(* Of AooClient there are the link to the server, the groups it is in, the     *)
(* peers it knows and its requests; a group is known by its name alone.        *)
(* Time is Pd's logical time, which does not pass a clock that is due.         *)
(***************************************************************************)
EXTENDS Integers, Sequences, SequencesExt, FiniteSetsExt

CONSTANTS Groups, Users,
          Delays,      \* delays of a message with a time tag, negative if it is late
          MaxTime, MaxRequests, MaxMessages, MaxChanges \* bounds

Never == -1

VARIABLES object,    \* [connected, groups, peers, target, schedule, queue, clock]
          now,
          polling,   \* between pollEvents() and the replies of one tick
          events, replies,
          link, joined, members, \* AooClient: link to the server, groups, peers,
          requests, pending,     \* commands to perform, requests sent to the server
          messages, calls, changes         \* counts for the bounds

external == <<link, joined, members, pending>>
counts == <<messages, calls, changes>>
vars == <<object, now, polling, events, replies, external, requests, counts>>

Init ==
    /\ object = [connected |-> FALSE, groups |-> {}, peers |-> {}, target |-> "all",
                 schedule |-> TRUE, queue |-> {}, clock |-> Never]
    /\ now = 0 /\ polling = FALSE
    /\ events = <<>> /\ replies = <<>> /\ requests = <<>>
    /\ link = "down" /\ joined = {} /\ members = {} /\ pending = <<>>
    /\ messages = 0 /\ calls = 0 /\ changes = 0

-----------------------------------------------------------------------------
(* Messages of peers.                                                        *)

Due(queue) == Min({m.time : m \in queue})

\* A message is put on the queue at an absolute time; the clock is set if it is
\* the next due.
Enqueue_first(o, m) ==
    [o EXCEPT !.queue = @ \cup {m}, !.clock = IF o.queue = {} THEN m.time ELSE @]

Enqueue(o, m) ==
    [o EXCEPT !.queue = @ \cup {m},
              !.clock = IF o.queue = {} \/ m.time < Due(o.queue) THEN m.time ELSE @]

\* handle_message(): a message without time tag, a late one, and any message when
\* scheduling is off is sent out at once (or discarded).
handle_message(o, e) ==
    IF e.timed /\ o.schedule /\ e.delay >= 0
    THEN Enqueue(o, [time |-> now + e.delay, n |-> e.n])
    ELSE o

\* aoo_client_queue_tick()
aoo_client_queue_tick ==
    /\ ~polling
    /\ object.queue # {} /\ object.clock = now
    /\ LET left == {m \in object.queue : m.time > now}
       IN  object' = [object EXCEPT !.queue = left,
                                    !.clock = IF left = {} THEN Never ELSE Due(left)]
    /\ UNCHANGED <<now, polling, events, replies, external, requests, counts>>

Time ==
    /\ ~polling
    /\ now < MaxTime
    /\ object.clock # now \* a clock that is due runs first
    /\ now' = now + 1
    /\ UNCHANGED <<object, polling, events, replies, external, requests, counts>>

-----------------------------------------------------------------------------
(* Events and replies.                                                       *)

aoo_client_handle_event(o, e) ==
    CASE e.kind = "message" -> handle_message(o, e)
      [] e.kind = "disconnect" -> [o EXCEPT !.peers = {}, !.groups = {}, !.connected = FALSE]
      [] e.kind = "peer_join" -> [o EXCEPT !.peers = @ \cup {e.peer}]
      [] e.kind = "peer_leave" -> [o EXCEPT !.peers = @ \ {e.peer}]
      [] e.kind = "group_eject" -> o \* not handled

\* What the replies pushed by connect_cb(), group_join_cb() and group_leave_cb() do;
\* a reply that reports an error only prints it.
connect_cb(o, r) == [o EXCEPT !.peers = {}, !.groups = {}, !.connected = TRUE]

group_join_cb(o, r) == [o EXCEPT !.groups = @ \cup {r.group}]

group_leave_cb(o, r) ==
    IF r.group \notin o.groups THEN o
    ELSE [o EXCEPT !.groups = @ \ {r.group}, !.peers = {p \in @ : p[1] # r.group}]

Reply(o, r) ==
    CASE ~r.ok -> o
      [] r.ok /\ r.kind = "connect" -> connect_cb(o, r)
      [] r.ok /\ r.kind = "join" -> group_join_cb(o, r)
      [] r.ok /\ r.kind = "leave" -> group_leave_cb(o, r)

\* aoo_client_tick(): all events are handled ...
aoo_client_tick ==
    /\ ~polling
    /\ polling' = TRUE
    /\ object' = FoldLeft(aoo_client_handle_event, object, events)
    /\ events' = <<>>
    /\ UNCHANGED <<now, replies, external, requests, counts>>

aoo_client_replies_cleared(locked) ==
    /\ polling
    /\ polling' = FALSE
    /\ object' = IF locked THEN FoldLeft(Reply, object, replies) ELSE object
    /\ replies' = <<>>
    /\ UNCHANGED <<now, events, external, requests, counts>>

\* ... and then the replies, unless the network thread holds their lock.
aoo_client_replies(locked) ==
    /\ polling
    /\ polling' = FALSE
    /\ object' = IF locked THEN FoldLeft(Reply, object, replies) ELSE object
    /\ replies' = IF locked THEN <<>> ELSE replies
    /\ UNCHANGED <<now, events, external, requests, counts>>

-----------------------------------------------------------------------------
(* The methods of the object.                                                *)

Call(request) ==
    /\ ~polling
    /\ calls < MaxRequests /\ calls' = calls + 1
    /\ requests' = Append(requests, request)
    /\ UNCHANGED <<now, polling, events, replies, external, messages, changes>>

aoo_client_connect ==
    /\ ~object.connected
    /\ Call([kind |-> "connect"])
    /\ UNCHANGED object

aoo_client_disconnect ==
    /\ object.connected
    /\ object' = [object EXCEPT !.peers = {}, !.groups = {}, !.connected = FALSE]
    /\ Call([kind |-> "disconnect"])

aoo_client_group_join(g) ==
    /\ object.connected
    /\ Call([kind |-> "join", group |-> g])
    /\ UNCHANGED object

aoo_client_group_leave(g) ==
    /\ object.connected
    /\ g \in object.groups
    /\ Call([kind |-> "leave", group |-> g])
    /\ UNCHANGED object

\* aoo_client_target(): only a group that is listed, or all of them.
aoo_client_target(g) ==
    /\ ~polling /\ changes < MaxChanges /\ changes' = changes + 1
    /\ object' = [object EXCEPT !.target = IF g \in object.groups THEN g ELSE "none"]
    /\ UNCHANGED <<now, polling, events, replies, external, requests, messages, calls>>

aoo_client_schedule ==
    /\ ~polling /\ changes < MaxChanges /\ changes' = changes + 1
    /\ object' = [object EXCEPT !.schedule = ~@]
    /\ UNCHANGED <<now, polling, events, replies, external, requests, messages, calls>>

-----------------------------------------------------------------------------
(* AooClient and its network thread (aoo/src/net/client.cpp; Client has the   *)
(* protocol with the server in full).  A request is performed; what needs the *)
(* server goes on the list of pending ones, answered in order.                *)

Event(e) == events' = Append(events, e)

Answer(r, ok) ==
    replies' = Append(replies, [kind |-> r.kind, ok |-> ok,
                                group |-> IF r.kind = "connect" THEN "none" ELSE r.group])

Quiet == UNCHANGED <<object, now, polling, messages, calls>>

\* Client::close(): the pending requests are dropped and never answered.
close == link' = "down" /\ joined' = {} /\ members' = {} /\ pending' = <<>>

Performs(kind) ==
    /\ requests # <<>> /\ Head(requests).kind = kind
    /\ requests' = Tail(requests)
    /\ UNCHANGED <<events, changes>> /\ Quiet

\* The host may not be resolved.
perform_connect(resolved) ==
    /\ Performs("connect")
    /\ IF link = "down" /\ resolved
       THEN link' = "connecting" /\ UNCHANGED replies
       ELSE Answer(Head(requests), FALSE) /\ UNCHANGED link
    /\ UNCHANGED <<joined, members, pending>>

\* Pd asks for no reply.
perform_disconnect ==
    /\ Performs("disconnect")
    /\ IF link = "up" THEN close ELSE UNCHANGED external
    /\ UNCHANGED replies

Ask(can) ==
    /\ IF can
       THEN pending' = Append(pending, Head(requests)) /\ UNCHANGED replies
       ELSE Answer(Head(requests), FALSE) /\ UNCHANGED pending
    /\ UNCHANGED <<link, joined, members>>

perform_group_join ==
    Performs("join") /\ Ask(link = "up" /\ Head(requests).group \notin joined)

perform_group_leave == Performs("leave") /\ Ask(Head(requests).group \in joined)

\* The server answers, or the handshake times out.
handle_login(ok) ==
    /\ link = "connecting"
    /\ Answer([kind |-> "connect"], ok)
    /\ IF ok THEN link' = "up" /\ UNCHANGED <<joined, members, pending>> ELSE close
    /\ UNCHANGED <<events, requests, changes>> /\ Quiet

\* The server lets in who is not a member and out who is; it may refuse the former.
handle_response(ok) ==
    /\ pending # <<>>
    /\ pending' = Tail(pending)
    /\ LET r == Head(pending)
           done == IF r.kind = "join" THEN ok /\ r.group \notin joined ELSE r.group \in joined
       IN  /\ Answer(r, done)
           /\ joined' = CASE ~done -> joined
                          [] done /\ r.kind = "join" -> joined \cup {r.group}
                          [] done /\ r.kind = "leave" -> joined \ {r.group}
           /\ members' = {m \in members : m[1] \in joined'}
    /\ UNCHANGED <<link, events, requests, changes>> /\ Quiet

Change == changes < MaxChanges /\ changes' = changes + 1 /\ Quiet /\ UNCHANGED <<replies, requests>>

\* Client::close_with_error(): the user is only told when there was a connection.
LinkLost ==
    /\ link # "down" /\ Change
    /\ close
    /\ IF link = "up" THEN Event([kind |-> "disconnect"]) ELSE UNCHANGED events

Ejected(g) ==
    /\ g \in joined /\ Change
    /\ joined' = joined \ {g}
    /\ members' = {m \in members : m[1] # g}
    /\ Event([kind |-> "group_eject", group |-> g])
    /\ UNCHANGED <<link, pending>>

PeerJoins(g, u) ==
    /\ g \in joined /\ <<g, u>> \notin members /\ Change
    /\ members' = members \cup {<<g, u>>}
    /\ Event([kind |-> "peer_join", peer |-> <<g, u>>])
    /\ UNCHANGED <<link, joined, pending>>

PeerLeaves(g, u) ==
    /\ <<g, u>> \in members /\ Change
    /\ members' = members \ {<<g, u>>}
    /\ Event([kind |-> "peer_leave", peer |-> <<g, u>>])
    /\ UNCHANGED <<link, joined, pending>>

PeerMessage(timed, d) ==
    /\ members # {}
    /\ messages < MaxMessages /\ messages' = messages + 1
    /\ Event([kind |-> "message", timed |-> timed, delay |-> d, n |-> messages])
    /\ UNCHANGED <<object, now, polling, replies, external, requests, calls, changes>>

Network ==
    \/ perform_disconnect \/ perform_group_join \/ perform_group_leave
    \/ \E ok \in BOOLEAN : perform_connect(ok) \/ handle_login(ok) \/ handle_response(ok)
    \/ LinkLost
    \/ \E g \in Groups : Ejected(g)
    \/ \E g \in Groups, u \in Users : PeerJoins(g, u) \/ PeerLeaves(g, u)
    \/ \E d \in Delays : PeerMessage(TRUE, d)
    \/ PeerMessage(FALSE, 0)

Next ==
    \/ aoo_client_tick
    \/ \E locked \in BOOLEAN : aoo_client_replies(locked)
    \/ aoo_client_queue_tick
    \/ aoo_client_connect \/ aoo_client_disconnect \/ aoo_client_schedule
    \/ \E g \in Groups : \/ aoo_client_group_join(g) \/ aoo_client_group_leave(g)
                         \/ aoo_client_target(g)
    \/ Time
    \/ Network

Spec == Init /\ [][Next]_vars

-----------------------------------------------------------------------------

\* No message waits past its time: the one clock of the queue is always set to the
\* first message due, in whatever order messages with different times come in and
\* are polled (pd/src/aoo_client.cpp, handle_message() and queue_tick()).
Punctual == \A m \in object.queue : m.time >= now

\* A group the client is in is known to the object by name, or will be when the
\* replies have been handled: joining, leaving, disconnecting and connecting
\* again in a row, or losing the connection, never lose one
\* (pd/src/aoo_client.cpp, group_join_cb(), group_leave_cb() and connect_cb()).
GroupsKnown ==
    \A g \in joined :
        \/ g \in object.groups
        \/ \E i \in DOMAIN replies : replies[i].kind = "join" /\ replies[i].ok /\ replies[i].group = g
        \/ ~object.connected

\* The object keeps up with its client: with the time of messages and with the
\* groups it is in.
ObjectKeepsUp == Punctual /\ GroupsKnown
=============================================================================
