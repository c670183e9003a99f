---------------------------- MODULE SourceStream ----------------------------
(***************************************************************************)
(* AooSource (aoo/src/source.cpp): the stream state that the user changes  *)
(* and the audio thread acts on, the sinks with their stream ids, and the  *)
(* send thread that announces, sends and resends blocks.                   *)
(*                                                                         *)
(*   user thread      startStream, stopStream, addSink, removeSink,        *)
(*                    removeAll, handleInvite, handleUninvite, control     *)
(*   audio thread     process                                              *)
(*   send thread      send                                                 *)
(*   network thread   handleMessage                                        *)
(*                                                                         *)
(* A step is what a thread does between two accesses that another thread   *)
(* may come between.  The sections under update_mutex_ are single steps,   *)
(* but for the two that others can observe: making a new stream (writer)   *)
(* and collecting the sinks that need a /start message (reader).           *)
(* A block of audio is its number, counted from 1; 0 is an empty block,    *)
(* sent in the place of one that was dropped.                              *)
(***************************************************************************)
EXTENDS Integers, Sequences, FiniteSets

CONSTANTS
    Sinks,        \* endpoints of the sinks
    Added,        \* the sinks that are added, and active, at the start
    Nobody,       \* no sink
    QueueSize,    \* capacity of audio_queue_, in blocks
    HistorySize,  \* capacity of history_, in blocks
    MaxCalls,     \* bound on calls of the user
    MaxMessages,  \* bound on messages of the sinks
    MaxBlocks,    \* bound on blocks of audio, dropped ones included
    MaxStreams    \* bound on streams that are made

ASSUME SinksAssumption == Nobody \notin Sinks /\ HistorySize \in Nat

VARIABLES
    stream,       \* stream_state_: its lowest bits and the metadata in the others
    metadata,     \* metadata_ of the current stream: 1 if there is some
    live,         \* metadata blocks allocated and not yet freed
    encoder, format, sequence,
    audio_queue, history,
    xruns,        \* xrunblocks_, in blocks of the stream
    sinks, need_start, requests,
    events,       \* invitations the user has yet to answer
    audio,        \* where the audio thread is
    sender,       \* where the send thread is
    notifying,    \* the threads that are about to set need_start_
    sent,         \* messages to the sinks
    next_id, blocks, streams, calls, messages

user_vars   == <<stream, metadata, live>>
data_vars   == <<encoder, format, sequence, audio_queue, history, xruns>>
sink_vars   == <<sinks, need_start, requests, events>>
bound_vars  == <<next_id, blocks, streams, calls, messages>>
thread_vars == <<audio, sender, notifying>>
vars == <<user_vars, data_vars, sink_vars, bound_vars, thread_vars, sent>>

Invalid == -1     \* kAooIdInvalid and invalid_stream

Run == [st |-> "run", md |-> 0]

NoSink == [added |-> FALSE, id |-> Invalid, invite_token |-> Invalid,
           uninvite_token |-> Invalid, need |-> FALSE, data_requests |-> <<>>]

NewSink(id, need) == [NoSink EXCEPT !.added = TRUE, !.id = id, !.need = need]

\* sink_desc::is_active
IsActive(s) == sinks[s].id # Invalid

Present == {s \in Sinks : sinks[s].added}
Active  == {s \in Present : IsActive(s)}

AudioIdle == [pc |-> "idle", full |-> Run, todo |-> {}, sink |-> Nobody]

SenderIdle == [pc |-> "idle", cached |-> {}, count |-> 0]

Init ==
    /\ stream = [st |-> "idle", md |-> 0]
    /\ metadata = 0 /\ live = 0
    /\ encoder = TRUE /\ format = 1 /\ sequence = Invalid
    /\ audio_queue = <<>> /\ history = <<>> /\ xruns = 0
    /\ sinks = [s \in Sinks |-> IF s \in Added THEN NewSink(1, FALSE) ELSE NoSink]
    /\ need_start = FALSE /\ requests = <<>> /\ events = {}
    /\ audio = AudioIdle /\ sender = SenderIdle /\ notifying = {}
    /\ sent = {}
    /\ next_id = 2 /\ blocks = 0 /\ streams = 0
    /\ calls = 0 /\ messages = 0

\* update_mutex_ is held by no writer, resp. by nobody.
CanRead  == audio.pc # "new_stream"
CanWrite == CanRead /\ sender.pc # "collect"

\* A call of the user, a message of a sink.
Call ==
    /\ calls < MaxCalls /\ calls' = calls + 1
    /\ "user" \notin notifying
    /\ UNCHANGED <<blocks, streams, messages>>

Receive ==
    /\ messages < MaxMessages /\ messages' = messages + 1
    /\ "network" \notin notifying
    /\ UNCHANGED <<blocks, streams, calls>>

-----------------------------------------------------------------------------
(* Stream state                                                            *)

\* free_metadata: what exchanging the old state frees.
Freed(old) == IF old.st = "start" THEN old.md ELSE 0

\* Source::startStream, with or without metadata (or a sample offset).
startStream(md) ==
    /\ Call
    /\ stream' = [st |-> "start", md |-> md]
    /\ live' = live + md - Freed(stream)
    /\ UNCHANGED <<metadata, data_vars, sink_vars, next_id, thread_vars, sent>>

\* Mutant: metadata that was not yet accepted is not freed.
stopStream_leak ==
    /\ Call
    /\ stream' = [st |-> "stop", md |-> 0]
    /\ UNCHANGED <<metadata, live, data_vars, sink_vars, next_id, thread_vars, sent>>

\* Source::stopStream
stopStream ==
    /\ Call
    /\ stream' = [st |-> "stop", md |-> 0]
    /\ live' = live - Freed(stream)
    /\ UNCHANGED <<metadata, data_vars, sink_vars, next_id, thread_vars, sent>>

\* Source::restart_stream: only a running stream is restarted.
restart_stream == stream' = IF stream = Run THEN [st |-> "start", md |-> 0] ELSE stream

\* update_audio_queue and update_historybuffer: the queue and the history are resized,
\* which empties them.
update_buffers == audio_queue' = <<>> /\ history' = <<>>

\* Mutant: the sequence number of the old stream stays valid.
set_format_valid ==
    /\ Call
    /\ CanWrite
    /\ encoder' = TRUE /\ format' = format + 1
    /\ update_buffers
    /\ restart_stream
    /\ UNCHANGED <<metadata, live, sequence, xruns, sink_vars, next_id, thread_vars, sent>>

\* Source::set_format
set_format ==
    /\ Call
    /\ CanWrite
    /\ encoder' = TRUE /\ format' = format + 1
    /\ update_buffers
    /\ restart_stream
    /\ sequence' = Invalid
    /\ UNCHANGED <<metadata, live, xruns, sink_vars, next_id, thread_vars, sent>>

\* Source::set_format with a format AooEncoder_setup rejects.
set_format_rejected ==
    /\ Call
    /\ CanWrite
    /\ encoder' = FALSE
    /\ UNCHANGED <<user_vars, format, sequence, audio_queue, history, xruns, sink_vars,
                   next_id, thread_vars, sent>>

\* Source::setup with new parameters.
setup ==
    /\ Call
    /\ CanWrite
    /\ IF encoder THEN update_buffers /\ sequence' = Invalid
                  ELSE UNCHANGED <<audio_queue, history, sequence>>
    /\ restart_stream
    /\ UNCHANGED <<metadata, live, encoder, format, xruns, sink_vars, next_id, thread_vars, sent>>

\* Source::control: a new source id (kAooCtlSetId).
set_id ==
    /\ Call
    /\ restart_stream
    /\ UNCHANGED <<metadata, live, data_vars, sink_vars, next_id, thread_vars, sent>>

\* Source::control: kAooCtlReset, kAooCtlSetBufferSize and kAooCtlSetResendBufferSize
\* empty the queue, resp. the history.
reset_buffers ==
    /\ Call
    /\ CanWrite
    /\ \/ audio_queue' = <<>> /\ UNCHANGED history
       \/ history' = <<>> /\ UNCHANGED audio_queue
    /\ UNCHANGED <<user_vars, encoder, format, sequence, xruns, sink_vars, next_id,
                   thread_vars, sent>>

-----------------------------------------------------------------------------
(* Sinks.  is_running() is read after the sink was changed; the flag of    *)
(* the sink is set before the one of the source.                           *)

IsRunning == stream.st = "run"

\* The sink flag is set; the flag of the source follows (SetNeedStart).
NotifyIf(b, thread) ==
    notifying' = IF b THEN notifying \cup {thread} ELSE notifying

SetNeedStart(thread) ==
    /\ thread \in notifying
    /\ notifying' = notifying \ {thread}
    /\ need_start' = TRUE
    /\ UNCHANGED <<user_vars, data_vars, sinks, requests, events, bound_vars, audio, sender, sent>>

\* push_request for each sink of a set.  Of a request only its kind is kept: the messages
\* it leads to change nothing here.
PushStops(S) == requests' = requests \o [i \in 1 .. Cardinality(S) |-> "stop"]

\* Source::addSink, do_add_sink
addSink(s, active) ==
    LET start == IsRunning /\ active IN
    /\ Call
    /\ ~sinks[s].added
    /\ sinks' = [sinks EXCEPT ![s] = NewSink(IF active THEN next_id ELSE Invalid, start)]
    /\ next_id' = IF active THEN next_id + 1 ELSE next_id
    /\ NotifyIf(start, "user")
    /\ UNCHANGED <<user_vars, data_vars, need_start, requests, events, audio, sender, sent>>

\* The audio thread that walks the list no longer reaches a sink that was erased.
Erased(gone) ==
    audio' = [audio EXCEPT !.todo = @ \ gone, !.sink = IF @ \in gone THEN Nobody ELSE @]

\* Source::removeSink, do_remove_sink
removeSink(s) ==
    LET stop == IsRunning /\ IsActive(s) IN
    /\ Call
    /\ sinks[s].added
    /\ stop => CanRead
    /\ PushStops(IF stop THEN {s} ELSE {})
    /\ sinks' = [sinks EXCEPT ![s] = NoSink]
    /\ Erased({s})
    /\ UNCHANGED <<user_vars, data_vars, need_start, events, next_id, sender, notifying, sent>>

\* Source::removeAll
removeAll ==
    /\ Call
    /\ CanRead
    /\ Present # {}
    /\ PushStops(IF IsRunning THEN Active ELSE {})
    /\ sinks' = [s \in Sinks |-> NoSink]
    /\ Erased(Sinks)
    /\ UNCHANGED <<user_vars, data_vars, need_start, events, next_id, sender, notifying, sent>>

\* sink_desc::activate(true)
activate(s) ==
    /\ Call
    /\ sinks[s].added
    /\ sinks' = [sinks EXCEPT ![s].id = next_id, ![s].need = @ \/ IsRunning]
    /\ next_id' = next_id + 1
    /\ NotifyIf(IsRunning, "user")
    /\ UNCHANGED <<user_vars, data_vars, need_start, requests, events, audio, sender, sent>>

\* sink_desc::activate(false)
deactivate(s) ==
    /\ Call
    /\ sinks[s].added
    /\ sinks' = [sinks EXCEPT ![s].id = Invalid]
    /\ PushStops(IF IsRunning THEN {s} ELSE {})
    /\ UNCHANGED <<user_vars, data_vars, need_start, events, next_id, thread_vars, sent>>

\* Mutant: the source is told before the sink.
handleInvite_early(e, accept) ==
    LET start == accept /\ IsRunning IN
    /\ Call
    /\ e \in events /\ e.type = "invite"
    /\ events' = events \ {e}
    /\ IF sinks[e.sink].added
       THEN /\ sinks' = IF accept THEN [sinks EXCEPT ![e.sink].id = e.token] ELSE sinks
            /\ requests' = IF accept THEN requests
                           ELSE Append(requests, "decline")
            /\ need_start' = (need_start \/ start)
       ELSE UNCHANGED <<sinks, requests, need_start>>
    /\ UNCHANGED <<user_vars, data_vars, next_id, thread_vars, sent>>

\* Source::handleInvite: the user answers an invitation.
handleInvite(e, accept) ==
    LET start == sinks[e.sink].added /\ accept /\ IsRunning IN
    /\ Call
    /\ e \in events /\ e.type = "invite"
    /\ events' = events \ {e}
    /\ IF sinks[e.sink].added
       THEN /\ sinks' = IF accept
                        THEN [sinks EXCEPT ![e.sink].id = e.token, ![e.sink].need = @ \/ start]
                        ELSE sinks
            /\ requests' = IF accept THEN requests
                           ELSE Append(requests, "decline")
       ELSE UNCHANGED <<sinks, requests>>
    /\ NotifyIf(start, "user")
    /\ UNCHANGED <<user_vars, data_vars, need_start, next_id, audio, sender, sent>>

\* Source::handleUninvite: the user answers; a declined uninvitation times out.
handleUninvite(e, accept) ==
    /\ Call
    /\ e \in events /\ e.type = "uninvite"
    /\ events' = events \ {e}
    /\ IF sinks[e.sink].added /\ accept
       THEN /\ sinks' = [sinks EXCEPT ![e.sink].id = Invalid]
            /\ PushStops(IF IsRunning THEN {e.sink} ELSE {})
       ELSE UNCHANGED <<sinks, requests>>
    /\ UNCHANGED <<user_vars, data_vars, need_start, next_id, thread_vars, sent>>
-----------------------------------------------------------------------------
(* Network thread: messages of the sinks                                   *)

\* Source::handle_start_request: the sink asks for a /start message.
handle_start_request(s) ==
    /\ Receive
    /\ sinks[s].added /\ IsActive(s)
    /\ sinks' = [sinks EXCEPT ![s].need = TRUE]
    /\ NotifyIf(TRUE, "network")
    /\ UNCHANGED <<user_vars, data_vars, need_start, requests, events, next_id, audio, sender, sent>>

\* Source::handle_stop_request: the sink asks for the /stop message of a stream.
handle_stop_request(s) ==
    /\ Receive
    /\ sinks[s].added
    /\ stream.st = "idle" \/ ~IsActive(s)
    /\ PushStops({s})
    /\ UNCHANGED <<user_vars, data_vars, sinks, need_start, events, next_id, thread_vars, sent>>

\* Source::handle_data_request (OSC or binary): the sink asks for block seq of stream id.
handle_data_request(s, id, seq) ==
    /\ Receive
    /\ HistorySize > 0
    /\ sinks[s].added /\ IsActive(s) /\ sinks[s].id = id
    /\ sinks' = [sinks EXCEPT ![s].data_requests = Append(@, seq)]
    /\ UNCHANGED <<user_vars, data_vars, need_start, requests, events, next_id, thread_vars, sent>>

\* Source::handle_invite.  An unknown sink is added, inactive; the user gets one event
\* for each token.
handle_invite(s, token) ==
    LET sink == IF sinks[s].added THEN sinks[s] ELSE NewSink(Invalid, FALSE) IN
    /\ Receive
    /\ sinks' = [sinks EXCEPT ![s] = [sink EXCEPT !.invite_token = token]]
    /\ events' = IF token # sink.invite_token
                 THEN events \cup {[type |-> "invite", sink |-> s, token |-> token]}
                 ELSE events
    /\ next_id' = IF token = next_id THEN next_id + 1 ELSE next_id
    /\ UNCHANGED <<user_vars, data_vars, need_start, requests, thread_vars, sent>>

\* Source::handle_uninvite.  The user decides about the current stream; any other stream
\* is answered with /stop.
handle_uninvite(s, token) ==
    LET current == sinks[s].added /\ IsActive(s) /\ sinks[s].id = token IN
    /\ Receive
    /\ IF current
       THEN /\ sinks' = [sinks EXCEPT ![s].uninvite_token = token]
            /\ events' = IF token # sinks[s].uninvite_token
                         THEN events \cup {[type |-> "uninvite", sink |-> s, token |-> token]}
                         ELSE events
            /\ UNCHANGED requests
       ELSE /\ PushStops({s})
            /\ UNCHANGED <<sinks, events>>
    /\ UNCHANGED <<user_vars, data_vars, need_start, next_id, thread_vars, sent>>

\* Source::handle_ping
handle_ping(s) ==
    /\ Receive
    /\ sinks[s].added /\ IsActive(s)
    /\ requests' = Append(requests, "pong")
    /\ UNCHANGED <<user_vars, data_vars, sinks, need_start, events, next_id, thread_vars, sent>>

-----------------------------------------------------------------------------
(* Audio thread: process                                                   *)

\* Source::process loads the state.
process ==
    /\ audio.pc = "idle"
    /\ stream.st # "idle"
    /\ audio' = [AudioIdle EXCEPT !.pc = stream.st, !.full = stream,
                                  !.todo = IF stream.st = "stop" THEN Present ELSE {}]
    /\ UNCHANGED <<user_vars, data_vars, sink_vars, bound_vars, sender, notifying, sent>>

\* The stream has been stopped: sink_desc::stop.
process_stop_sink(s) ==
    /\ audio.pc = "stop"
    /\ s \in audio.todo
    /\ audio' = [audio EXCEPT !.todo = @ \ {s}]
    /\ PushStops(IF IsActive(s) THEN {s} ELSE {})
    /\ UNCHANGED <<user_vars, data_vars, sinks, need_start, events, bound_vars, sender,
                   notifying, sent>>

\* The stream is idle, unless it has been started in the meantime.
process_stopped ==
    /\ audio.pc = "stop"
    /\ audio.todo = {}
    /\ stream' = IF stream = audio.full THEN [st |-> "idle", md |-> 0] ELSE stream
    /\ audio' = AudioIdle
    /\ UNCHANGED <<metadata, live, data_vars, sink_vars, bound_vars, sender, notifying, sent>>

\* The mutex is taken, or the stream has been stopped in the meantime.
process_start_fails ==
    /\ audio.pc = "start"
    /\ audio' = AudioIdle
    /\ UNCHANGED <<user_vars, data_vars, sink_vars, bound_vars, sender, notifying, sent>>

\* The stream has been started: make_new_stream up to the sinks.
process_start ==
    /\ audio.pc = "start"
    /\ CanWrite
    /\ stream = audio.full
    /\ streams < MaxStreams /\ streams' = streams + 1
    /\ stream' = Run
    /\ metadata' = audio.full.md
    /\ live' = live - metadata
    /\ sequence' = 0 /\ xruns' = 0 /\ audio_queue' = <<>> /\ history' = <<>>
    /\ audio' = [audio EXCEPT !.pc = "new_stream", !.todo = Present]
    /\ UNCHANGED <<encoder, format, sink_vars, next_id, blocks, calls, messages, sender,
                   notifying, sent>>

\* sink_desc::start: the requests are dropped and is_active() is read ...
start_sink(s) ==
    /\ audio.pc = "new_stream" /\ audio.sink = Nobody
    /\ s \in audio.todo
    /\ sinks' = [sinks EXCEPT ![s].data_requests = <<>>]
    /\ audio' = [audio EXCEPT !.todo = @ \ {s}, !.sink = IF IsActive(s) THEN s ELSE Nobody]
    /\ UNCHANGED <<user_vars, data_vars, need_start, requests, events, bound_vars, sender,
                   notifying, sent>>

\* Mutant: a new stream keeps the stream id.
start_sink_id_kept ==
    /\ audio.pc = "new_stream" /\ audio.sink # Nobody
    /\ sinks' = [sinks EXCEPT ![audio.sink].need = TRUE]
    /\ audio' = [audio EXCEPT !.sink = Nobody]
    /\ UNCHANGED <<user_vars, data_vars, need_start, requests, events, bound_vars, sender,
                   notifying, sent>>

\* ... and the sink gets a new stream id.
start_sink_id ==
    /\ audio.pc = "new_stream" /\ audio.sink # Nobody
    /\ sinks' = [sinks EXCEPT ![audio.sink].id = next_id, ![audio.sink].need = TRUE]
    /\ next_id' = next_id + 1
    /\ audio' = [audio EXCEPT !.sink = Nobody]
    /\ UNCHANGED <<user_vars, data_vars, need_start, requests, events, blocks,
                   streams, calls, messages, sender, notifying, sent>>

\* The end of make_new_stream; process goes on with the audio.
process_started ==
    /\ audio.pc = "new_stream" /\ audio.sink = Nobody /\ audio.todo = {}
    /\ need_start' = TRUE
    /\ audio' = [AudioIdle EXCEPT !.pc = "run"]
    /\ UNCHANGED <<user_vars, data_vars, sinks, requests, events, bound_vars, sender,
                   notifying, sent>>

\* A block for the queue.  The stream may have been stopped or changed since the state was
\* loaded.
process_block ==
    /\ audio.pc = "run"
    /\ encoder
    /\ Len(audio_queue) < QueueSize
    /\ blocks < MaxBlocks /\ blocks' = blocks + 1
    /\ audio_queue' = Append(audio_queue, blocks + 1)
    /\ audio' = AudioIdle
    /\ UNCHANGED <<user_vars, encoder, format, sequence, history, xruns, sink_vars, next_id,
                   streams, calls, messages, sender, notifying, sent>>

\* Nothing happens without an encoder.
process_no_encoder ==
    /\ audio.pc = "run"
    /\ ~encoder
    /\ audio' = AudioIdle
    /\ UNCHANGED <<user_vars, data_vars, sink_vars, bound_vars, sender, notifying, sent>>

\* Source::add_xrun: the mutex is taken or the queue is full (or the user reports an xrun).
process_xrun ==
    /\ audio.pc = "run"
    /\ blocks < MaxBlocks /\ blocks' = blocks + 1
    /\ xruns' = xruns + 1
    /\ audio' = AudioIdle
    /\ UNCHANGED <<user_vars, encoder, format, sequence, audio_queue, history, sink_vars,
                   next_id, streams, calls, messages, sender, notifying, sent>>

-----------------------------------------------------------------------------
(* Send thread: send                                                       *)

send_vars == <<user_vars, encoder, format, events, bound_vars, audio, notifying>>

At(pc) == sender.pc = pc

GoTo(pc) == sender' = [SenderIdle EXCEPT !.pc = pc]

\* What cached_sinks_ keeps of the sinks.
Cached(S) == {[sink |-> s, id |-> sinks[s].id] : s \in S}

\* Source::send.  While the stream does not run it only dispatches requests.
send ==
    /\ At("idle")
    /\ IF IsRunning \/ requests # <<>> THEN GoTo("dispatch") ELSE UNCHANGED sender
    /\ UNCHANGED <<send_vars, sequence, audio_queue, history, xruns, sinks, need_start,
                   requests, sent>>

\* Source::dispatch_requests.  A /stop message has the sequence number of the stream.
dispatch_requests ==
    /\ At("dispatch")
    /\ IF requests = <<>>
       THEN GoTo("start") /\ UNCHANGED requests
       ELSE /\ Head(requests) = "stop" => CanRead
            /\ requests' = Tail(requests)
            /\ UNCHANGED sender
    /\ UNCHANGED <<send_vars, sequence, audio_queue, history, xruns, sinks, need_start, sent>>

\* Source::send_start: nothing to announce, or no audio yet.
send_start_not ==
    /\ At("start")
    /\ \/ ~need_start
       \/ CanRead /\ (audio_queue = <<>> \/ ~encoder \/ sequence = Invalid)
    /\ GoTo("xruns")
    /\ UNCHANGED <<send_vars, sequence, audio_queue, history, xruns, sinks, need_start,
                   requests, sent>>

\* Source::send_start takes the flag of the source ...
send_start ==
    /\ At("start")
    /\ need_start
    /\ CanRead
    /\ audio_queue # <<>> /\ encoder /\ sequence # Invalid
    /\ need_start' = FALSE
    /\ GoTo("collect")
    /\ UNCHANGED <<send_vars, sequence, audio_queue, history, xruns, sinks, requests, sent>>

\* send_start_msg, for a sink of cached_sinks_
StartMsg(c) ==
    [type |-> "start", sink |-> c.sink, id |-> c.id, seq |-> sequence, format |-> format]

\* ... and then the flags of the sinks, with the reader lock held.
send_start_msg ==
    LET starting == {s \in Present : sinks[s].need} IN
    /\ At("collect")
    /\ sinks' = [s \in Sinks |-> [sinks[s] EXCEPT !.need = FALSE]]
    /\ sent' = sent \cup {StartMsg(c) : c \in Cached(starting)}
    /\ GoTo("xruns")
    /\ UNCHANGED <<send_vars, sequence, audio_queue, history, xruns, need_start, requests>>

\* history_buffer::push
Push(b) ==
    IF HistorySize = 0 THEN history
    ELSE IF Len(history) < HistorySize THEN Append(history, b) ELSE Append(Tail(history), b)

\* send_packet: a block of the history, or the newest one, in a message to a sink.
DataMsg(c, b) ==
    [type |-> "data", sink |-> c.sink, id |-> c.id, seq |-> b.seq, format |-> b.format,
     block |-> b.block]

\* The next block goes to the history and to the sinks in cached.
SendBlock(block, cached) ==
    LET b == [seq |-> sequence, format |-> format, block |-> block] IN
    /\ sequence' = sequence + 1
    /\ history' = Push(b)
    /\ sent' = sent \cup {DataMsg(c, b) : c \in cached}

\* Source::send_xruns.  The sinks are looked up once.
send_xruns ==
    /\ At("xruns")
    /\ IF xruns = 0
       THEN GoTo("data") /\ UNCHANGED <<sequence, history, xruns, sent>>
       ELSE /\ CanRead
            /\ xruns' = 0
            /\ IF Active = {} \/ ~encoder \/ sequence = Invalid
               THEN GoTo("data") /\ UNCHANGED <<sequence, history, sent>>
               ELSE /\ SendBlock(0, Cached(Active))
                    /\ sender' = [pc |-> "empty", cached |-> Cached(Active), count |-> xruns - 1]
    /\ UNCHANGED <<send_vars, audio_queue, sinks, need_start, requests>>

\* The following empty blocks: the lock was released in between.
send_empty_block ==
    /\ At("empty")
    /\ CanRead
    /\ IF sender.count = 0 \/ ~encoder \/ sequence = Invalid
       THEN GoTo("data") /\ UNCHANGED <<sequence, history, sent>>
       ELSE /\ SendBlock(0, sender.cached)
            /\ sender' = [sender EXCEPT !.count = @ - 1]
    /\ UNCHANGED <<send_vars, audio_queue, xruns, sinks, need_start, requests>>

\* Source::send_data: the queue is empty or the stream not valid.
send_data_done ==
    /\ At("data")
    /\ CanRead
    /\ audio_queue = <<>> \/ ~encoder \/ sequence = Invalid
    /\ GoTo("resend")
    /\ UNCHANGED <<send_vars, sequence, audio_queue, history, xruns, sinks, need_start,
                   requests, sent>>

\* Source::send_data: a block is encoded and sent, or dropped if there is no active sink.
send_data ==
    /\ At("data")
    /\ CanRead
    /\ audio_queue # <<>> /\ encoder /\ sequence # Invalid
    /\ audio_queue' = Tail(audio_queue)
    /\ IF Active = {} THEN UNCHANGED <<sequence, history, sent>>
                      ELSE SendBlock(Head(audio_queue), Cached(Active))
    /\ UNCHANGED <<send_vars, sender, xruns, sinks, need_start, requests>>

\* Source::send_data: AooEncoder_encode fails.
send_data_fails ==
    /\ At("data")
    /\ CanRead
    /\ audio_queue # <<>> /\ encoder /\ sequence # Invalid /\ Active # {}
    /\ audio_queue' = Tail(audio_queue)
    /\ GoTo("resend")
    /\ UNCHANGED <<send_vars, sequence, history, xruns, sinks, need_start, requests, sent>>

\* history_buffer::find
Find(seq) == {i \in DOMAIN history : history[i].seq = seq}

\* Source::resend_data: one request.  The block and the stream id are read with the lock.
resend_data(s) ==
    /\ At("resend")
    /\ CanRead
    /\ HistorySize > 0
    /\ sinks[s].added /\ sinks[s].data_requests # <<>>
    /\ sinks' = [sinks EXCEPT ![s].data_requests = Tail(@)]
    /\ sent' = sent \cup {DataMsg([sink |-> s, id |-> sinks[s].id], history[i])
                          : i \in Find(Head(sinks[s].data_requests))}
    /\ UNCHANGED <<send_vars, sender, sequence, audio_queue, history, xruns, need_start, requests>>

\* The end of send: Source::send_ping, and erased sinks are freed.
send_end ==
    /\ At("resend")
    /\ CanRead
    /\ \A s \in Present : HistorySize = 0 \/ sinks[s].data_requests = <<>>
    /\ GoTo("idle")
    /\ UNCHANGED <<send_vars, sequence, audio_queue, history, xruns, sinks, need_start,
                   requests, sent>>

-----------------------------------------------------------------------------
User ==
    \/ \E md \in {0, 1} : startStream(md)
    \/ stopStream \/ set_format \/ set_format_rejected \/ setup \/ set_id \/ reset_buffers
    \/ removeAll
    \/ \E s \in Sinks :
        \/ \E active \in BOOLEAN : addSink(s, active)
        \/ removeSink(s) \/ activate(s) \/ deactivate(s)
    \/ \E e \in events, accept \in BOOLEAN : handleInvite(e, accept) \/ handleUninvite(e, accept)

Network ==
    \E s \in Sinks :
        \/ handle_start_request(s) \/ handle_stop_request(s) \/ handle_ping(s)
        \/ \E id \in 1 .. next_id - 1 :
            \/ handle_uninvite(s, id)
            \/ \E seq \in 0 .. sequence : handle_data_request(s, id, seq)
        \/ \E id \in {sinks[s].invite_token, next_id} \ {Invalid} : handle_invite(s, id)

Audio ==
    \/ process \/ process_stopped \/ process_start_fails \/ process_start
    \/ start_sink_id \/ process_started \/ process_block \/ process_no_encoder \/ process_xrun
    \/ \E s \in Sinks : process_stop_sink(s) \/ start_sink(s)

Send ==
    \/ send \/ dispatch_requests \/ send_start_not \/ send_start \/ send_start_msg
    \/ send_xruns \/ send_empty_block \/ send_data_done \/ send_data \/ send_data_fails
    \/ send_end
    \/ \E s \in Sinks : resend_data(s)

Next == User \/ Network \/ Audio \/ Send \/ \E t \in notifying : SetNeedStart(t)

Spec == Init /\ [][Next]_vars

-----------------------------------------------------------------------------
(* Properties                                                              *)

TypeOK ==
    /\ stream \in [st : {"stop", "start", "run", "idle"}, md : {0, 1}]
    /\ metadata \in {0, 1} /\ live \in Nat
    /\ encoder \in BOOLEAN /\ format \in Nat /\ sequence \in Nat \cup {Invalid}
    /\ Len(audio_queue) <= QueueSize /\ Len(history) <= HistorySize
    /\ xruns \in Nat /\ need_start \in BOOLEAN
    /\ \A s \in Sinks : s \notin Present => sinks[s] = NoSink
    /\ notifying \subseteq {"user", "network"}

\* Every block of metadata is owned by the stream state (a start that was not yet accepted)
\* or by the current stream: startStream, stopStream, restart_stream and make_new_stream
\* hand it on through the atomic state and free it exactly once.
MetadataOwned == live = metadata + Freed(stream)

\* "The stream ID ... has to be synchronized with any format change" (sink_desc): all
\* messages of a stream with audio, announced, sent or resent, are of one format.
FormatOfStream ==
    \A m, n \in {x \in sent : x.id # Invalid /\ (x.type = "start" \/ (x.type = "data" /\ x.block # 0))} :
        m.sink = n.sink /\ m.id = n.id => m.format = n.format

\* A block of audio that is sent or resent under a sequence number of a stream is always
\* the same one, whatever streams were started between a request and its answer.
BlockOfSequence ==
    \A m, n \in {x \in sent : x.type = "data" /\ x.id # Invalid /\ x.block # 0} :
        m.sink = n.sink /\ m.id = n.id /\ m.seq = n.seq => m.block = n.block

\* What a sink gets under a stream id is one stream, of one format and with one block for
\* each sequence number, and the metadata of streams that never got to run is not lost.
StreamConsistent == FormatOfStream /\ BlockOfSequence /\ MetadataOwned

\* A sink that is active while the stream runs has been sent a /start message of its
\* stream or is going to be: no notification is lost between the two flags, whichever
\* threads set them and however they interleave with send_start.
ActiveSinkAnnounced ==
    stream.st = "run" /\ audio.pc # "new_stream" =>
        \A s \in Active :
            \/ \E m \in sent : m.type = "start" /\ m.sink = s /\ m.id = sinks[s].id
            \/ sinks[s].need /\ (need_start \/ notifying # {} \/ At("collect"))
=============================================================================
