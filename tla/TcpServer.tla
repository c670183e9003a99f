----------------------------- MODULE TcpServer -----------------------------
(***************************************************************************)
(* The TCP server (aoo/src/net/tcp_server.cpp) below aoo::net::Server.  One   *)
(* thread polls the sockets, receives, closes and accepts; it keeps the       *)
(* clients and their pollfd entries in two parallel vectors whose closed slots *)
(* are reused, and purged when there are many.  The Server keeps an endpoint   *)
(* for every client it has accepted; an endpoint replies through a closure     *)
(* over the bare descriptor, possibly from another thread, so the descriptor   *)
(* must not be closed, and taken again by another connection, before the       *)
(* endpoint is gone.                                                         *)
(*                                                                           *)
(* A client that the Server throws out is only shut down; its slot loses its   *)
(* identifier and lingers until the other side has closed too.                *)
(***************************************************************************)
EXTENDS Integers, Sequences, SequencesExt, FiniteSets, FiniteSetsExt

CONSTANTS Fds,          \* descriptors for connections, positive numbers
          MaxStale,     \* max_stale_clients, 100 in the code
          MaxAccepts,   \* bound: connections accepted
          MaxData,      \* bound: chunks of data sent
          MaxStarts     \* bound: calls of setup()

Closed == 0       \* invalid_socket
Invalid == 0      \* kAooIdInvalid

VARIABLES clients,    \* clients_: sequence of [fd, id]
          poll,       \* poll_array_ from client_index on: sequence of [fd, revents]
          stale,      \* stale_clients_: sequence of indices
          count,      \* client_count_
          running,    \* running_
          pc, index,  \* the thread in run(), and its place in the loop over the clients
          listening,  \* revents of the listening socket
          endpoints,  \* clients_ of the Server: set of [id, fd]
          socket,     \* the connection a descriptor belongs to, 0 when it is free
          incoming,   \* what the kernel holds for a descriptor: [data, end]
          event,      \* a datagram waits in the event socket
          waiting,    \* a connection waits to be accepted
          ids, sent, starts

server == <<clients, poll, stale, count>>
kernel == <<socket, incoming, waiting, sent>>
vars == <<clients, poll, stale, count, running, pc, index, listening, endpoints, socket,
          incoming, event, waiting, ids, sent, starts>>

Fresh == [data |-> 0, end |-> "no"]

Init ==
    /\ clients = <<>> /\ poll = <<>> /\ stale = <<>> /\ count = 0
    /\ running = TRUE /\ pc = "timers" /\ index = 1 /\ listening = FALSE
    /\ endpoints = {}
    /\ socket = [f \in Fds |-> 0]
    /\ incoming = [f \in Fds |-> Fresh]
    /\ event = FALSE /\ waiting = FALSE
    /\ ids = 0 /\ sent = 0 /\ starts = 1

-----------------------------------------------------------------------------
(* The other ends, and the kernel.                                           *)

Connect ==
    /\ ~waiting /\ waiting' = TRUE
    /\ UNCHANGED <<server, running, pc, index, listening, endpoints, socket, incoming, event,
                   ids, sent, starts>>

Send(f) ==
    /\ socket[f] # 0 /\ incoming[f].end = "no" /\ sent < MaxData
    /\ incoming' = [incoming EXCEPT ![f].data = @ + 1]
    /\ sent' = sent + 1
    /\ UNCHANGED <<server, running, pc, index, listening, endpoints, socket, event, waiting,
                   ids, starts>>

\* The other end closes in order, or the connection breaks.
End(f, how) ==
    /\ socket[f] # 0 /\ incoming[f].end = "no"
    /\ incoming' = [incoming EXCEPT ![f].end = how]
    /\ UNCHANGED <<server, running, pc, index, listening, endpoints, socket, event, waiting,
                   ids, sent, starts>>

Ready(f) == f # Closed /\ incoming[f] # Fresh

-----------------------------------------------------------------------------
(* The Server's side: endpoints.                                             *)

\* Server::remove_client(); an unknown client is only logged.
remove_client(E, id) == {e \in E : e.id # id}

\* tcp_server::close(): the slot lingers without its identifier.
close(C, id) ==
    IF \E i \in DOMAIN C : C[i].id = id
    THEN [C EXCEPT ![SelectInSeq(C, LAMBDA c : c.id = id)].id = Invalid]
    ELSE C

\* The ping timers of Server::run(): clients that do not respond are removed.
update_timers ==
    /\ pc = "timers" /\ running
    /\ \E silent \in SUBSET endpoints :
        /\ endpoints' = endpoints \ silent
        /\ clients' = FoldSet(LAMBDA e, C : close(C, e.id), clients, silent)
    /\ pc' = "run"
    /\ UNCHANGED <<poll, stale, count, running, index, listening, kernel, event, ids, starts>>

-----------------------------------------------------------------------------
(* The thread in tcp_server::run().                                          *)

\* do_close(): every socket is closed.
do_close ==
    /\ clients' = <<>> /\ poll' = <<>> /\ stale' = <<>> /\ count' = 0
    /\ socket' = [f \in Fds |-> 0]
    /\ incoming' = [f \in Fds |-> Fresh]

\* run() entered: stop() may have come after Server::run() looked.
run ==
    /\ pc = "run"
    /\ IF running
       THEN pc' = "poll" /\ UNCHANGED <<server, socket, incoming>>
       ELSE pc' = "timers" /\ do_close
    /\ UNCHANGED <<running, index, listening, endpoints, event, waiting, ids, sent, starts>>

\* do_run(): poll() returns with events, or without any when a timer is due.
Events == event \/ waiting \/ \E i \in DOMAIN poll : Ready(poll[i].fd)

do_run ==
    /\ pc = "poll"
    /\ \/ /\ Events
          /\ poll' = [i \in DOMAIN poll |-> [poll[i] EXCEPT !.revents = Ready(poll[i].fd)]]
          /\ listening' = waiting
          /\ event' = FALSE
          /\ pc' = "receive" /\ index' = 1
       \/ /\ ~Events /\ endpoints # {}
          /\ pc' = "timers"
          /\ UNCHANGED <<poll, listening, event, index>>
    /\ UNCHANGED <<clients, stale, count, running, endpoints, kernel, ids, starts>>

\* close_and_remove_client(i): the slot stays, with a socket that is closed.
close_and_remove_client(i) ==
    LET f == clients[i].fd IN
    /\ clients' = [clients EXCEPT ![i].fd = Closed]
    /\ poll' = [poll EXCEPT ![i] = [fd |-> Closed, revents |-> FALSE]]
    /\ stale' = Append(stale, i)
    /\ count' = count - 1
    /\ socket' = [socket EXCEPT ![f] = 0]
    /\ incoming' = [incoming EXCEPT ![f] = Fresh]

\* Data goes to receive_handler_; a message the Server cannot handle makes it
\* remove the client and close() it from within the handler.
Received(i) ==
    LET c == clients[i] IN
    /\ incoming[c.fd].data > 0
    /\ incoming' = [incoming EXCEPT ![c.fd].data = @ - 1]
    /\ \/ UNCHANGED <<clients, endpoints>>
       \/ /\ c.id # Invalid
          /\ endpoints' = remove_client(endpoints, c.id)
          /\ clients' = close(clients, c.id)
    /\ poll' = [poll EXCEPT ![i].revents = FALSE]
    /\ UNCHANGED <<stale, count, socket>>

\* End of file, or an error: the handler hears of it unless the slot lingers.
Disconnected_unheard(i) ==
    LET c == clients[i] IN
    /\ incoming[c.fd].data = 0 /\ incoming[c.fd].end # "no"
    /\ endpoints' = IF incoming[c.fd].end = "reset" THEN endpoints
                    ELSE remove_client(endpoints, c.id)
    /\ close_and_remove_client(i)
Disconnected(i) ==
    LET c == clients[i] IN
    /\ incoming[c.fd].data = 0 /\ incoming[c.fd].end # "no"
    /\ endpoints' = IF c.id = Invalid THEN endpoints ELSE remove_client(endpoints, c.id)
    /\ close_and_remove_client(i)

\* One round of the loop of receive_from_clients(); an interrupted receive() leaves the
\* socket for the next poll().  POLLNVAL needs a descriptor that is not open: see
\* SlotsAligned.
receive_from_client ==
    /\ pc = "receive" /\ index <= Len(clients)
    /\ index' = index + 1
    /\ \/ /\ ~poll[index].revents
          /\ UNCHANGED <<server, endpoints, socket, incoming>>
       \/ /\ poll[index].revents
          /\ \/ Received(index)
             \/ Disconnected(index)
             \/ /\ poll' = [poll EXCEPT ![index].revents = FALSE]
                /\ UNCHANGED <<clients, stale, count, endpoints, socket, incoming>>
    /\ UNCHANGED <<running, pc, listening, event, waiting, ids, sent, starts>>

\* After the loop: closed slots are purged when there are more than max_stale_clients.
IsOpen(x) == x.fd # Closed

purge_kept ==
    /\ clients' = SelectSeq(clients, IsOpen)
    /\ poll' = SelectSeq(poll, IsOpen)
    /\ stale' = stale
purge ==
    /\ clients' = SelectSeq(clients, IsOpen)
    /\ poll' = SelectSeq(poll, IsOpen)
    /\ stale' = <<>>

receive_done ==
    /\ pc = "receive" /\ index > Len(clients)
    /\ pc' = "accept"
    /\ IF Len(stale) > MaxStale THEN purge ELSE UNCHANGED <<clients, poll, stale>>
    /\ UNCHANGED <<count, running, index, listening, endpoints, kernel, event, ids, starts>>

\* accept_client(): the Server makes an endpoint over the descriptor, then the last
\* closed slot is taken, or a new one.  The kernel hands out the lowest free descriptor.
FreeFds == {f \in Fds : socket[f] = 0}

AddSlot(f, id) ==
    /\ IF stale # <<>>
       THEN /\ clients' = [clients EXCEPT ![Last(stale)] = [fd |-> f, id |-> id]]
            /\ poll' = [poll EXCEPT ![Last(stale)].fd = f]
            /\ stale' = Front(stale)
       ELSE /\ clients' = Append(clients, [fd |-> f, id |-> id])
            /\ poll' = Append(poll, [fd |-> f, revents |-> FALSE])
            /\ stale' = stale
    /\ count' = count + 1

accept_client ==
    /\ pc = "accept" /\ listening
    /\ FreeFds # {} /\ ids < MaxAccepts
    /\ LET f == Min(FreeFds)
       IN  /\ ids' = ids + 1
           /\ endpoints' = endpoints \cup {[id |-> ids', fd |-> f]}
           /\ AddSlot(f, ids')
           /\ socket' = [socket EXCEPT ![f] = ids']
    /\ listening' = FALSE /\ waiting' = FALSE
    /\ pc' = "poll"
    /\ UNCHANGED <<running, index, incoming, event, sent, starts>>

\* Nothing to accept, or handle_accept_error() with an error that is not fatal; without
\* free descriptors the connection goes on waiting.
handle_accept_error ==
    /\ pc = "accept"
    /\ pc' = "poll"
    /\ waiting' = (waiting /\ (~listening \/ FreeFds = {}))
    /\ listening' = FALSE
    /\ UNCHANGED <<server, running, index, endpoints, socket, incoming, event, ids, sent,
                   starts>>

\* A fatal error of accept() leaves run() by an exception, with everything in place; the
\* caller may call Server::run() again.
fatal_error ==
    /\ pc = "accept" /\ listening
    /\ pc' = "timers"
    /\ listening' = FALSE /\ waiting' = FALSE
    /\ UNCHANGED <<server, running, index, endpoints, socket, incoming, event, ids, sent,
                   starts>>

-----------------------------------------------------------------------------
(* Stopping, from any thread, and starting again.                            *)

stop ==
    /\ running
    /\ running' = FALSE /\ event' = TRUE
    /\ UNCHANGED <<server, pc, index, listening, endpoints, kernel, ids, starts>>

\* notify(): the queue of the Server has a message.
notify ==
    /\ ~event /\ event' = TRUE
    /\ UNCHANGED <<server, running, pc, index, listening, endpoints, kernel, ids, starts>>

\* Server::run() sees that the TCP server has stopped; it closes the Server only when it
\* was called without a timeout.
finish ==
    /\ pc = "timers" /\ ~running
    /\ pc' = "ended"
    /\ endpoints' \in {endpoints, {}}
    /\ UNCHANGED <<server, running, index, listening, kernel, event, ids, starts>>

\* Server::setup(): close(), then tcp_server::start(), which may fail.
setup ==
    /\ pc = "ended" /\ starts < MaxStarts
    /\ endpoints' = {}
    /\ do_close
    /\ listening' = FALSE /\ waiting' = FALSE /\ event' = FALSE
    /\ starts' = starts + 1
    /\ \/ running' = TRUE /\ pc' = "timers"
       \/ running' = FALSE /\ pc' = "ended"
    /\ UNCHANGED <<index, ids, sent>>

Next ==
    \/ Connect \/ (\E f \in Fds : Send(f) \/ \E how \in {"eof", "reset"} : End(f, how))
    \/ update_timers \/ run \/ do_run \/ receive_from_client \/ receive_done
    \/ accept_client \/ handle_accept_error \/ fatal_error
    \/ stop \/ notify \/ finish \/ setup

Spec == Init /\ [][Next]_vars

-----------------------------------------------------------------------------
(* The two vectors and the list of closed slots describe the same clients: slot i of     *)
(* poll_array_ holds the descriptor of client i, an open one that no other slot has; the *)
(* stale list names the closed slots, each once; client_count_ counts the open ones.     *)
(* Reuse in accept_client() and the purge in receive_from_clients() both depend on it,   *)
(* and POLLNVAL cannot happen because of it.                                             *)
SlotsAligned ==
    LET open == {i \in DOMAIN clients : IsOpen(clients[i])}
    IN  /\ Len(poll) = Len(clients)
        /\ \A i \in DOMAIN clients : poll[i].fd = clients[i].fd
        /\ \A i \in open : socket[clients[i].fd] # 0 /\ clients[i].id \in {Invalid, socket[clients[i].fd]}
        /\ IsInjective(stale) /\ ToSet(stale) = DOMAIN clients \ open
        /\ count = Cardinality(open)

(* While the server runs, the descriptor in the reply closure of an endpoint belongs to  *)
(* the connection for which accept_client() made the endpoint: no path closes the socket *)
(* (and frees its number for the next connection) before remove_client().                *)
RepliesReach == running => \A e \in endpoints : socket[e.fd] = e.id

(* The server can find, poll and answer exactly the clients it has.                      *)
ClientsServed == SlotsAligned /\ RepliesReach
=============================================================================
