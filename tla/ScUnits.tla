------------------------------ MODULE ScUnits ------------------------------
(***************************************************************************)
(* The SuperCollider plugin (sc/src): the units AooSend and AooReceive, the  *)
(* plugin commands of AooClient and the nodes they share.  Everything is      *)
(* started in the real time thread (RT) and carried out in the background     *)
(* thread (NRT), to and from which the commands travel in order.  A unit      *)
(* keeps a delegate alive together with the commands under way; the delegate  *)
(* gets its source or sink and its node when the open command comes back, and *)
(* gives them up when the detach command, sent as the unit is freed, is run.  *)
(*                                                                           *)
(* A step that reads through a null or dangling pointer sets fault to what    *)
(* was missing and ends the behaviour.                                       *)
(***************************************************************************)
EXTENDS Naturals, Sequences, SequencesExt

CONSTANTS Units,       \* unit instances; each is created at most once
          Ports, Ids,  \* ports of nodes, identifiers of sources and sinks
          None,        \* a null pointer
          MaxCommands, \* bound: unit and plugin commands
          MaxClients   \* bound: sc::AooClient objects created

VARIABLES unit,       \* the unit and the arguments it was created with
          delegate,   \* its AooDelegate
          toNRT, toRT,\* commands on their way to the two threads
          registered, \* units whose source or sink the node's client holds
          client,     \* sc::AooClient registered with the node, 0 if none
          created,    \* sc::AooClient objects created so far
          requests,   \* requests of the AooClient thread of the node
          commands, fault

vars == <<unit, delegate, toNRT, toRT, registered, client, created, requests,
          commands, fault>>

Init ==
    /\ unit = [u \in Units |-> [state |-> "absent"]]
    /\ delegate = [u \in Units |-> [owner |-> FALSE, node |-> None, object |-> "none",
                                    running |-> FALSE, gate |-> FALSE]]
    /\ toNRT = <<>> /\ toRT = <<>>
    /\ registered = [p \in Ports |-> {}]
    /\ client = [p \in Ports |-> 0]
    /\ created = 0
    /\ requests = [p \in Ports |-> <<>>]
    /\ commands = 0 /\ fault = "none"

-----------------------------------------------------------------------------
(* Nodes.  gNodeMap holds weak pointers: a node lives as long as a delegate,  *)
(* an open command that has been run, or an sc::AooClient holds it.           *)

Held(p) ==
    \/ \E u \in Units : delegate[u].node = p
    \/ \E i \in DOMAIN toRT : toRT[i].kind = "open" /\ toRT[i].node = p
    \/ client[p] # 0

\* ~AooNode(): the client goes with its sources, sinks and requests.  The new
\* values of the variables Held reads are given before this is evaluated.
Nodes(reg, req) ==
    /\ registered' = [p \in Ports |-> IF Held(p)' THEN reg[p] ELSE {}]
    /\ requests' = [p \in Ports |-> IF Held(p)' THEN req[p] ELSE <<>>]

\* The commands that keep the delegate of u alive.
Pending(u, queue) == \E i \in DOMAIN queue : queue[i].unit = u

-----------------------------------------------------------------------------
(* The real time thread: units and their commands.                           *)

\* AooDelegate::doCmd(): the command holds the delegate.
doCmd(u, kind) == toNRT' = Append(toNRT, [unit |-> u, kind |-> kind])

\* sendMsgRT(): a message for the client, which holds no delegate.
sendMsgRT == toNRT' = Append(toNRT, [unit |-> None, kind |-> "message"])

\* AooSendUnit(), AooReceiveUnit(): the delegate is made and opens.
NewUnit(u, class, port, id) ==
    /\ unit[u].state = "absent"
    /\ unit' = [unit EXCEPT ![u] = [state |-> "alive", class |-> class, port |-> port,
                                    id |-> id, ready |-> FALSE]]
    /\ delegate' = [delegate EXCEPT ![u].owner = TRUE]
    /\ doCmd(u, "open")
    /\ UNCHANGED <<toRT, registered, client, created, requests, commands, fault>>

AooSendUnit(u, port, id) == NewUnit(u, "send", port, id)
AooReceiveUnit(u, port, id) == NewUnit(u, "receive", port, id)

\* ~AooUnit(): detach().  ready records whether the unit had been initialized.
detach(u) ==
    /\ unit[u].state = "alive"
    /\ unit' = [unit EXCEPT ![u].state = "freed", ![u].ready = delegate[u].node # None]
    /\ delegate' = [delegate EXCEPT ![u].owner = FALSE]
    /\ doCmd(u, "detach")
    /\ UNCHANGED <<toRT, registered, client, created, requests, commands, fault>>

\* runUnitCmd(): a command of a unit that is not initialized only warns.
runUnitCmd_always(u, class) ==
    /\ unit[u].state = "alive" /\ unit[u].class = class
    /\ commands < MaxCommands /\ commands' = commands + 1
    /\ UNCHANGED <<unit, toRT, registered, client, created, requests>>

runUnitCmd(u, class) ==
    /\ unit[u].state = "alive" /\ unit[u].class = class /\ delegate[u].node # None
    /\ commands < MaxCommands /\ commands' = commands + 1
    /\ UNCHANGED <<unit, toRT, registered, client, created, requests>>

\* A command that is carried out in the background: it either composes a reply,
\* which takes the unit's place in the node tree from the unit, or does not.
Background(u, kind) == doCmd(u, kind) /\ UNCHANGED <<delegate, fault>>

\* What a step of either thread finds when it uses source() or sink().
Use(u) == IF delegate[u].object = "delegate" /\ delegate[u].node # None
          THEN "none" ELSE "object"

\* A command that is carried out at once, on source() or sink().
Direct(u) == fault' = Use(u) /\ UNCHANGED <<delegate, toNRT>>

aoo_send_add(u) == runUnitCmd(u, "send") /\ Background(u, "reply")
aoo_send_invite(u) == runUnitCmd(u, "send") /\ Direct(u)
aoo_send_format(u) == runUnitCmd(u, "send") /\ Background(u, "reply")
aoo_send_codec_set(u) == runUnitCmd(u, "send") /\ Background(u, "option")
aoo_send_codec_get(u) == runUnitCmd(u, "send") /\ Background(u, "reply")
aoo_send_options(u) == runUnitCmd(u, "send") /\ Direct(u)
aoo_send_resend(u) == runUnitCmd(u, "send") /\ Background(u, "option")

\* startStream(), stopStream(): the delegate remembers what it asked for.
aoo_send_start(u, running) ==
    /\ runUnitCmd(u, "send")
    /\ delegate' = [delegate EXCEPT ![u].running = running]
    /\ fault' = Use(u) /\ UNCHANGED toNRT

aoo_recv_invite(u) == runUnitCmd(u, "receive") /\ Background(u, "reply")
aoo_recv_latency(u) == runUnitCmd(u, "receive") /\ Background(u, "option")
aoo_recv_options(u) == runUnitCmd(u, "receive") /\ Direct(u)
aoo_recv_reset(u) == runUnitCmd(u, "receive") /\ Background(u, "option")

\* AooSendUnit::next(): an edge of the gate starts or stops the stream; process()
\* and, if events are pending, handleEvent(), which answers an invitation by
\* itself and leaves the message for the client to the other thread unless the
\* invitation has been declined.
AooSendUnit_next(u, gate, event) ==
    /\ unit[u].state = "alive" /\ unit[u].class = "send"
    /\ delegate[u].object = "delegate"
    /\ gate # delegate[u].gate \/ event # "none"
    /\ commands < MaxCommands /\ commands' = commands + 1
    /\ LET running == IF gate # delegate[u].gate THEN gate ELSE delegate[u].running
       IN  /\ delegate' = [delegate EXCEPT ![u].running = running, ![u].gate = gate]
           /\ IF event = "none" \/ (event = "invite" /\ ~running)
              THEN UNCHANGED toNRT
              ELSE sendMsgRT
    /\ fault' = Use(u)
    /\ UNCHANGED <<unit, toRT, registered, client, created, requests>>

\* AooReceiveUnit::next(): process() and, if an event is pending, handleEvent(),
\* which leaves a message for the client to the other thread.
AooReceiveUnit_next(u, event) ==
    /\ unit[u].state = "alive" /\ unit[u].class = "receive"
    /\ delegate[u].object = "delegate"
    /\ commands < MaxCommands /\ commands' = commands + 1
    /\ IF event THEN sendMsgRT ELSE UNCHANGED toNRT
    /\ fault' = Use(u)
    /\ UNCHANGED <<unit, delegate, toRT, registered, client, created, requests>>

-----------------------------------------------------------------------------
(* The background thread takes the next command.                             *)

Take(kind) ==
    /\ toNRT # <<>> /\ Head(toNRT).kind = kind
    /\ toNRT' = Tail(toNRT)

\* The command goes back to be freed, or for its third stage.
Return(u, kind, node) == toRT' = Append(toRT, [unit |-> u, kind |-> kind, node |-> node])

\* addSource(), addSink(): no other object of the kind has the identifier.
Added(u, p) ==
    \A v \in registered[p] : unit[v].class = unit[u].class => unit[v].id # unit[u].id

\* init(), second stage.  The node is found or made, which fails when the port
\* cannot be bound (bound is FALSE); without a node or with the identifier in use
\* there is no third stage, and the node is let go again.
Open_unchecked(u, bound) ==
    /\ Take("open") /\ Head(toNRT).unit = u
    /\ LET p == unit[u].port
           ok == Held(p) \/ bound
       IN  /\ Return(u, "open", IF ok THEN p ELSE None)
           /\ delegate' = IF ok THEN [delegate EXCEPT ![u].object = "command"] ELSE delegate
           /\ UNCHANGED <<unit, client, created, commands, fault>>
           /\ Nodes(IF ok /\ Added(u, p) THEN [registered EXCEPT ![p] = @ \cup {u}]
                    ELSE registered, requests)

Open(u, bound) ==
    /\ Take("open") /\ Head(toNRT).unit = u
    /\ LET p == unit[u].port
           ok == (Held(p) \/ bound) /\ Added(u, p)
       IN  /\ Return(u, "open", IF ok THEN p ELSE None)
           /\ delegate' = IF ok THEN [delegate EXCEPT ![u].object = "command"] ELSE delegate
           /\ UNCHANGED <<unit, client, created, commands, fault>>
           /\ Nodes(IF ok THEN [registered EXCEPT ![p] = @ \cup {u}] ELSE registered, requests)

AooSend_init(u, bound) == unit[u].state # "absent" /\ unit[u].class = "send" /\ Open(u, bound)
AooReceive_init(u, bound) == unit[u].state # "absent" /\ unit[u].class = "receive" /\ Open(u, bound)

\* onDetach(), second stage.  What the delegate has by now is given up.
Close_keep(u) ==
    /\ Take("detach") /\ Head(toNRT).unit = u
    /\ Return(u, "detach", None)
    /\ delegate' = [delegate EXCEPT ![u].node = None,
                                    ![u].object = IF @ = "delegate" THEN "destroyed" ELSE @]
    /\ UNCHANGED <<unit, client, created, commands, fault>>
    /\ Nodes(registered, requests)

Close(u) ==
    /\ Take("detach") /\ Head(toNRT).unit = u
    /\ Return(u, "detach", None)
    /\ delegate' = [delegate EXCEPT ![u].node = None,
                                    ![u].object = IF @ = "delegate" THEN "destroyed" ELSE @]
    /\ UNCHANGED <<unit, client, created, commands, fault>>
    /\ Nodes([p \in Ports |-> IF p = delegate[u].node THEN registered[p] \ {u}
                              ELSE registered[p]], requests)

AooSend_onDetach(u) == unit[u].state = "freed" /\ unit[u].class = "send" /\ Close(u)
AooReceive_onDetach(u) == unit[u].state = "freed" /\ unit[u].class = "receive" /\ Close(u)

\* The second stage of a unit command.  beginReply() goes through the unit, which
\* may have been freed since.
RunCommand(kind) ==
    /\ Take(kind)
    /\ LET u == Head(toNRT).unit
       IN  /\ fault' = IF kind = "reply" /\ ~delegate[u].owner THEN "unit" ELSE Use(u)
           /\ Return(u, kind, None)
    /\ UNCHANGED <<unit, delegate, registered, client, created, requests, commands>>

\* The message is sent to the address registered for its port.
SendMessage ==
    /\ Take("message")
    /\ UNCHANGED <<unit, delegate, toRT, registered, client, created, requests, commands, fault>>

\* Back in the real time thread: the third stage of an open command hands over
\* the object and the node; then the command is freed, and with the last command
\* of a unit that is gone the delegate and what it owns.
Finish ==
    /\ toRT # <<>>
    /\ toRT' = Tail(toRT)
    /\ LET c == Head(toRT)
           u == c.unit
           opened == IF c.kind = "open" /\ c.node # None
                     THEN [delegate[u] EXCEPT !.node = c.node, !.object = "delegate"]
                     ELSE delegate[u]
           last == unit[u].state = "freed" /\ ~Pending(u, toNRT) /\ ~Pending(u, Tail(toRT))
       IN  delegate' = [delegate EXCEPT ![u] =
               IF last
               THEN [opened EXCEPT !.node = None,
                                   !.object = IF @ = "delegate" THEN "destroyed" ELSE @]
               ELSE opened]
    /\ UNCHANGED <<unit, toNRT, client, created, commands, fault>>
    /\ Nodes(registered, requests)

-----------------------------------------------------------------------------
(* The plugin commands of AooClient.  They are complete after their second    *)
(* stage, in the background thread; connecting, joining and so on add a        *)
(* request whose callback has a plain pointer to the sc::AooClient.           *)

Plugin ==
    /\ commands < MaxCommands /\ commands' = commands + 1
    /\ UNCHANGED <<unit, delegate, toNRT, toRT, fault>>

\* createClient(): fails if the node has a client already.
aoo_client_new(p, bound) ==
    /\ Plugin
    /\ Held(p) \/ bound
    /\ client[p] = 0 /\ created < MaxClients
    /\ created' = created + 1
    /\ client' = [client EXCEPT ![p] = created + 1]
    /\ UNCHANGED <<registered, requests>>

\* destroyClient(): ~AooClient() unregisters and lets the node go.
aoo_client_free(p) ==
    /\ Plugin
    /\ client[p] # 0
    /\ client' = [client EXCEPT ![p] = 0]
    /\ UNCHANGED created
    /\ Nodes(registered, requests)

aoo_client_request(p) ==
    /\ Plugin
    /\ client[p] # 0
    /\ requests' = [requests EXCEPT ![p] = Append(@, client[p])]
    /\ UNCHANGED <<registered, client, created>>

\* The AooClient thread runs the callback of a request.
Callback(p) ==
    /\ requests[p] # <<>>
    /\ fault' = IF Head(requests[p]) = client[p] THEN "none" ELSE "client"
    /\ requests' = [requests EXCEPT ![p] = Tail(@)]
    /\ UNCHANGED <<unit, delegate, toNRT, toRT, registered, client, created, commands>>

\* AooNode::send(), receive(): the network threads call every source and sink.
Network(p) ==
    /\ \E u \in registered[p] : delegate[u].object = "destroyed"
    /\ fault' = "dangling"
    /\ UNCHANGED <<unit, delegate, toNRT, toRT, registered, client, created, requests, commands>>

-----------------------------------------------------------------------------

UnitStep(u) ==
    \/ \E p \in Ports, id \in Ids : AooSendUnit(u, p, id) \/ AooReceiveUnit(u, p, id)
    \/ detach(u)
    \/ aoo_send_add(u) \/ aoo_send_invite(u) \/ aoo_send_format(u) \/ aoo_send_codec_set(u)
    \/ aoo_send_codec_get(u) \/ aoo_send_options(u) \/ aoo_send_resend(u)
    \/ \E running \in BOOLEAN : aoo_send_start(u, running)
    \/ aoo_recv_invite(u) \/ aoo_recv_latency(u) \/ aoo_recv_options(u) \/ aoo_recv_reset(u)
    \/ \E gate \in BOOLEAN, event \in {"none", "invite", "other"} : AooSendUnit_next(u, gate, event)
    \/ \E event \in BOOLEAN : AooReceiveUnit_next(u, event)

BackgroundStep ==
    \/ \E u \in Units, bound \in BOOLEAN : AooSend_init(u, bound) \/ AooReceive_init(u, bound)
    \/ \E u \in Units : AooSend_onDetach(u) \/ AooReceive_onDetach(u)
    \/ \E kind \in {"reply", "option"} : RunCommand(kind)
    \/ SendMessage

Next ==
    /\ fault = "none"
    /\ \/ \E u \in Units : UnitStep(u)
       \/ BackgroundStep
       \/ Finish
       \/ \E p \in Ports : \/ \E bound \in BOOLEAN : aoo_client_new(p, bound)
                           \/ aoo_client_free(p) \/ aoo_client_request(p) \/ Callback(p)
                           \/ Network(p)

Spec == Init /\ [][Next]_vars

-----------------------------------------------------------------------------

\* No unit command, processing call or event of a unit runs without its source
\* or sink and its node, whatever commands and detachments are under way: the
\* check of runUnitCmd() in one thread still holds when the command is run in
\* the other (sc/src/AooSend.cpp, runUnitCmd()).
ObjectAtHand == fault # "object"

\* The client of the node knows the source or sink of every initialized unit.  Of
\* a unit that was initialized when it was freed, it forgets the source or sink
\* before this is destroyed, so the network threads never call it afterwards, and
\* it has forgotten it when the commands of the unit are done
\* (sc/src/AooSend.cpp, init() and onDetach()).
KnownWhileLiving ==
    \A u \in Units :
        /\ unit[u].state = "alive" /\ delegate[u].node # None
               => u \in registered[delegate[u].node]
        /\ unit[u].state = "freed" /\ unit[u].ready
               => \A p \in Ports :
                     u \in registered[p] =>
                         /\ delegate[u].object # "destroyed"
                         /\ Pending(u, toNRT) \/ Pending(u, toRT)

\* A unit has its object whenever it needs it, and the client of the node knows the
\* object of an initialized unit as long as it exists and no longer.  Three faults
\* remain in reach and are outside of this property: "unit", a reply composed through
\* a unit that was freed meanwhile (sc/src/Aoo.cpp:160; CmdData::alive(), which would
\* tell, is never called); "dangling", the source or sink of a unit freed before its
\* open command came back, which nothing removes from the client of the node; and
\* "client", the callback of a request of an sc::AooClient freed meanwhile.
UnitsSafe == ObjectAtHand /\ KnownWhileLiving
=============================================================================
