----------------------------- MODULE PdObjects -----------------------------
(***************************************************************************)
(* The objects of the Pure Data external (pd/src) and the nodes they share.   *)
(* Objects live in Pd's main thread and are given a port and an identifier     *)
(* any number of times; objects on the same port share a node, which is       *)
(* counted by hand, bound to a symbol made from the port and deleted with its *)
(* last object.  aoo_send~ and aoo_receive~ keep their own list of sinks and   *)
(* sources, which they bring up to date with the events of the network         *)
(* threads; a clock polls these.                                             *)
(*                                                                           *)
(* A step that goes through the null pointer of an object without a node sets *)
(* fault and ends the behaviour.                                             *)
(***************************************************************************)
EXTENDS Integers, Sequences, SequencesExt, FiniteSets

CONSTANTS Senders, Receivers, ClientObjects, \* aoo_send~, aoo_receive~, aoo_client
          Ports, Ids,  \* ports other than 0, identifiers
          Endpoints,   \* remote sinks and sources
          MaxMoves,    \* bound: objects made or moved to another port or identifier
          MaxEvents    \* bound: changes of the lists

Objects == Senders \cup Receivers \cup ClientObjects
Streams == Senders \cup Receivers

NoNode == [refcount |-> 0, bound |-> FALSE, clientobj |-> {}, sources |-> {}, sinks |-> {}]

VARIABLES object,  \* [alive, port, id, node, clock]; node 0 is the null pointer
          node,    \* the node on each port
          has,     \* the sinks the source has, the sources the sink has announced
          listed,  \* x_sinks, x_sources
          queue,   \* events not yet polled
          moves, events, fault

vars == <<object, node, has, listed, queue, moves, events, fault>>

Init ==
    /\ object = [x \in Objects |-> [alive |-> FALSE, port |-> 0, id |-> 0, node |-> 0,
                                    clock |-> FALSE]]
    /\ node = [p \in Ports |-> NoNode]
    /\ has = [x \in Streams |-> {}]
    /\ listed = [x \in Streams |-> <<>>]
    /\ queue = [x \in Streams |-> <<>>]
    /\ moves = 0 /\ events = 0 /\ fault = FALSE

-----------------------------------------------------------------------------
(* Nodes.                                                                    *)

\* add_object(): the second aoo_client is refused; an identifier in use is only
\* reported, and the object counts all the same.
Refused(x, n) == x \in ClientObjects /\ n.clientobj # {}

SameId(x, y) == object'[x].id = object'[y].id

add_object_early(x, n) ==
    IF Refused(x, n) THEN [n EXCEPT !.refcount = @ + 1]
    ELSE [n EXCEPT
        !.refcount = @ + 1,
        !.clientobj = IF x \in ClientObjects THEN {x} ELSE @,
        !.sources = IF x \in Senders /\ ~\E y \in @ : SameId(x, y) THEN @ \cup {x} ELSE @,
        !.sinks = IF x \in Receivers /\ ~\E y \in @ : SameId(x, y) THEN @ \cup {x} ELSE @]

add_object(x, n) ==
    IF Refused(x, n) THEN n
    ELSE [n EXCEPT
        !.refcount = @ + 1,
        !.clientobj = IF x \in ClientObjects THEN {x} ELSE @,
        !.sources = IF x \in Senders /\ ~\E y \in @ : SameId(x, y) THEN @ \cup {x} ELSE @,
        !.sinks = IF x \in Receivers /\ ~\E y \in @ : SameId(x, y) THEN @ \cup {x} ELSE @]

\* release(): the last object deletes the node.
release(x, n) ==
    IF n.refcount = 1 THEN NoNode
    ELSE [n EXCEPT !.refcount = @ - 1,
                   !.clientobj = IF x \in ClientObjects THEN {} ELSE @,
                   !.sources = @ \ {x},
                   !.sinks = @ \ {x}]

\* The nodes after x has let its node go.
Left(x) == IF object[x].node = 0 THEN node
           ELSE [node EXCEPT ![object[x].node] = release(x, @)]

\* t_node::get(): the node of port p is found or made.  Making it fails when the
\* port cannot be bound (free is FALSE); with port 0 there is no node to be had.
Gets(x, nodes, p, free) == p # 0 /\ (nodes[p].bound \/ free) /\ ~Refused(x, nodes[p])

get(x, nodes, p, free) ==
    IF p # 0 /\ (nodes[p].bound \/ free)
    THEN [nodes EXCEPT ![p] = [add_object(x, @) EXCEPT !.bound = TRUE]]
    ELSE nodes

\* x goes to port p under identifier id.
Move(x, p, id, free, clock) ==
    /\ moves < MaxMoves /\ moves' = moves + 1
    /\ object' = [object EXCEPT ![x] =
           [alive |-> TRUE, port |-> p, id |-> id, clock |-> clock,
            node |-> IF Gets(x, Left(x), p, free) THEN p ELSE 0]]
    /\ node' = get(x, Left(x), p, free)
    /\ UNCHANGED <<has, listed, queue, events, fault>>

\* The constructors.  The clock of an aoo_client is started if it has a node.
t_aoo_send(x, p, id, free) ==
    x \in Senders /\ ~object[x].alive /\ Move(x, p, id, free, FALSE)

t_aoo_receive(x, p, id, free) ==
    x \in Receivers /\ ~object[x].alive /\ Move(x, p, id, free, FALSE)

t_aoo_client(x, p, free) ==
    x \in ClientObjects /\ ~object[x].alive /\ Move(x, p, 0, free, Gets(x, node, p, free))

\* Nothing is done if nothing changes.
Reset(x, p, id, free) ==
    /\ object[x].alive
    /\ <<p, id>> # <<object[x].port, object[x].id>>
    /\ Move(x, p, id, free, object[x].clock)

aoo_send_set(x, p, id, free) == x \in Senders /\ Reset(x, p, id, free)

aoo_receive_set(x, p, id, free) == x \in Receivers /\ Reset(x, p, id, free)

\* aoo_client_port(): the clock is left as it is.
aoo_client_port(x, p, free) ==
    /\ x \in ClientObjects /\ object[x].alive
    /\ Move(x, p, 0, free, object[x].clock)

\* ~t_aoo_send(), ~t_aoo_receive(), ~t_aoo_client(): the node is released, the
\* clocks, the list and the queue go with the object.
free_object(x) ==
    /\ object[x].alive
    /\ node' = Left(x)
    /\ object' = [object EXCEPT ![x] = [alive |-> FALSE, port |-> 0, id |-> 0, node |-> 0,
                                        clock |-> FALSE]]
    /\ IF x \in Streams
       THEN /\ has' = [has EXCEPT ![x] = {}]
            /\ listed' = [listed EXCEPT ![x] = <<>>]
            /\ queue' = [queue EXCEPT ![x] = <<>>]
       ELSE UNCHANGED <<has, listed, queue>>
    /\ UNCHANGED <<moves, events, fault>>

-----------------------------------------------------------------------------
(* The list of sinks of an aoo_send~.                                        *)

Changed == events < MaxEvents /\ events' = events + 1

\* A remote sink invites the source: the source adds it and says so.  Only a
\* source its node's client knows is reached by the network threads.
Invited(x, e) ==
    /\ x \in Senders /\ object[x].node # 0 /\ x \in node[object[x].node].sources
    /\ e \notin has[x]
    /\ Changed
    /\ has' = [has EXCEPT ![x] = @ \cup {e}]
    /\ queue' = [queue EXCEPT ![x] = Append(@, [kind |-> "add", ep |-> e])]
    /\ UNCHANGED <<object, node, listed, moves, fault>>

\* aoo_send_add(): refused if the sink is listed.  addSink() reports a sink it has
\* already, which is ignored.
aoo_send_add(x, e) ==
    /\ x \in Senders /\ object[x].node # 0
    /\ ~Contains(listed[x], e)
    /\ Changed
    /\ has' = [has EXCEPT ![x] = @ \cup {e}]
    /\ listed' = [listed EXCEPT ![x] = Append(@, e)]
    /\ UNCHANGED <<object, node, queue, moves, fault>>

\* aoo_send_remove(): get_sink_arg() only knows sinks that are listed.
aoo_send_remove(x, e) ==
    /\ x \in Senders /\ object[x].node # 0
    /\ Contains(listed[x], e)
    /\ Changed
    /\ has' = [has EXCEPT ![x] = @ \ {e}]
    /\ listed' = [listed EXCEPT ![x] = RemoveFirst(@, e)]
    /\ UNCHANGED <<object, node, queue, moves, fault>>

remove_all(x) ==
    /\ x \in Senders /\ object[x].node # 0
    /\ has[x] # {} \/ listed[x] # <<>>
    /\ Changed
    /\ has' = [has EXCEPT ![x] = {}]
    /\ listed' = [listed EXCEPT ![x] = <<>>]
    /\ UNCHANGED <<object, node, queue, moves, fault>>

-----------------------------------------------------------------------------
(* The list of sources of an aoo_receive~: announced with the first stream    *)
(* by the network thread, removed when inactive by the audio thread.          *)

SourceStarts(x, e) ==
    /\ x \in Receivers /\ object[x].node # 0 /\ x \in node[object[x].node].sinks
    /\ e \notin has[x]
    /\ Changed
    /\ has' = [has EXCEPT ![x] = @ \cup {e}]
    /\ queue' = [queue EXCEPT ![x] = Append(@, [kind |-> "add", ep |-> e])]
    /\ UNCHANGED <<object, node, listed, moves, fault>>

SourceInactive(x, e) ==
    /\ x \in Receivers /\ object[x].node # 0
    /\ e \in has[x]
    /\ Changed
    /\ has' = [has EXCEPT ![x] = @ \ {e}]
    /\ queue' = [queue EXCEPT ![x] = Append(@, [kind |-> "remove", ep |-> e])]
    /\ UNCHANGED <<object, node, listed, moves, fault>>

-----------------------------------------------------------------------------
(* Polling.                                                                  *)

\* The clock is set if there are events.
Perform(x) ==
    /\ object[x].node # 0
    /\ queue[x] # <<>> /\ ~object[x].clock
    /\ object' = [object EXCEPT ![x].clock = TRUE]
    /\ UNCHANGED <<node, has, listed, queue, moves, events, fault>>

aoo_send_perform(x) == x \in Senders /\ Perform(x)

aoo_receive_perform(x) == x \in Receivers /\ Perform(x)

\* What the event e makes of the list of an object.
aoo_send_handle_event_unchecked(list, e) == Append(list, e.ep)

aoo_send_handle_event(list, e) == IF Contains(list, e.ep) THEN list ELSE Append(list, e.ep)

aoo_receive_handle_event(list, e) ==
    IF e.kind = "add" THEN Append(list, e.ep) ELSE RemoveFirst(list, e.ep)

\* The clock runs: all events are polled.  The first thing the handlers do with an
\* event is to have its endpoint named by the node.
Tick(x, list) ==
    /\ object[x].clock
    /\ object' = [object EXCEPT ![x].clock = FALSE]
    /\ queue' = [queue EXCEPT ![x] = <<>>]
    /\ listed' = [listed EXCEPT ![x] = list]
    /\ fault' = (queue[x] # <<>> /\ object[x].node = 0)
    /\ UNCHANGED <<node, has, moves, events>>

aoo_send_tick(x) ==
    x \in Senders /\ Tick(x, FoldLeft(aoo_send_handle_event, listed[x], queue[x]))

aoo_receive_tick(x) ==
    x \in Receivers /\ Tick(x, FoldLeft(aoo_receive_handle_event, listed[x], queue[x]))

\* aoo_client_tick(): the events of the client are polled through the node.
aoo_client_tick(x) ==
    /\ x \in ClientObjects /\ object[x].clock
    /\ object[x].node = 0
    /\ fault' = TRUE
    /\ UNCHANGED <<object, node, has, listed, queue, moves, events>>

-----------------------------------------------------------------------------

Step(x) ==
    \/ \E p \in Ports \cup {0}, id \in Ids, free \in BOOLEAN :
           \/ t_aoo_send(x, p, id, free) \/ aoo_send_set(x, p, id, free)
           \/ t_aoo_receive(x, p, id, free) \/ aoo_receive_set(x, p, id, free)
    \/ \E p \in Ports \cup {0}, free \in BOOLEAN :
           t_aoo_client(x, p, free) \/ aoo_client_port(x, p, free)
    \/ free_object(x)
    \/ \E e \in Endpoints : \/ Invited(x, e) \/ aoo_send_add(x, e) \/ aoo_send_remove(x, e)
                            \/ SourceStarts(x, e) \/ SourceInactive(x, e)
    \/ remove_all(x)
    \/ aoo_send_perform(x) \/ aoo_send_tick(x)
    \/ aoo_receive_perform(x) \/ aoo_receive_tick(x)
    \/ aoo_client_tick(x)

Next == ~fault /\ \E x \in Objects : Step(x)

Spec == Init /\ [][Next]_vars

-----------------------------------------------------------------------------

\* A node is bound as long as an object holds it and no longer, its count is the
\* number of these objects, and every source, sink and client object it knows
\* holds it, however objects are moved between ports and refused
\* (pd/src/aoo_node.cpp, add_object() and release()).
NodesCounted ==
    \A p \in Ports :
        LET holders == {x \in Objects : object[x].node = p}
        IN  /\ node[p].bound <=> holders # {}
            /\ node[p].refcount = Cardinality(holders)
            /\ node[p].sources \cup node[p].sinks \cup node[p].clientobj \subseteq holders

\* aoo_send~ lists no sink twice, and every sink its source sends to is listed or
\* about to be, so that it can be named in a message, also when a sink invites the
\* source while the user adds or removes it (pd/src/aoo_send~.cpp,
\* aoo_send_handle_event() and aoo_send_add()).
SinksListed ==
    \A x \in Senders :
        /\ IsInjective(listed[x])
        /\ \A e \in has[x] : \/ Contains(listed[x], e)
                             \/ \E i \in DOMAIN queue[x] : queue[x][i].ep = e

\* Nodes live as long as their objects, and the objects know their sinks.
ObjectsSound == NodesCounted /\ SinksListed
=============================================================================
