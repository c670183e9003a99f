----------------------------- MODULE SinkStream -----------------------------
(***************************************************************************)
(* The stream of one source in AooSink (source_desc in aoo/src/sink.cpp):  *)
(* the atomic state_, which three threads change, and what hangs on it.    *)
(*                                                                         *)
(*   network receive thread   handle_start, handle_stop, handle_decline,   *)
(*                            handle_data                                  *)
(*   network send thread      invite, uninvite, send_invitations, send     *)
(*   audio thread             process                                      *)
(*                                                                         *)
(* A handler that reads state_ and stores it later, or drops the mutex in  *)
(* between, takes one step per access: network, sending and processing say *)
(* where each thread is.  A packet stands for a complete block; sequence   *)
(* numbers and frames are the subject of JitterBuffer.  Of the requests to *)
(* the source only the stop requests are state: the answers to the others  *)
(* are messages that may arrive at any time.                               *)
(***************************************************************************)
EXTENDS Naturals, Sequences

CONSTANTS
    Ids,          \* stream ids and invitation tokens
    Formats,      \* format ids
    Unsupported,  \* the formats AooDecoder_setup rejects
    Invalid,      \* kAooIdInvalid, and a null decoder
    LowLatency,   \* the formats announced with low-latency metadata (low_latency_enabled_)
    Latency,      \* latency_blocks_
    Capacity,     \* capacity of the jitter buffer, in blocks
    MaxQueue,     \* bound on packets between two audio callbacks
    MaxLate       \* bound on messages of a stream that arrive after its end

ASSUME InvalidAssumption == Invalid \notin Ids \cup Formats
ASSUME FormatsAssumption == Unsupported \subseteq Formats /\ LowLatency \subseteq Formats
ASSUME BufferAssumption ==
    /\ Latency \in Nat /\ Capacity \in Nat /\ MaxQueue \in Nat /\ MaxLate \in Nat
    /\ Latency > 0 /\ Latency <= Capacity

VARIABLES
    stream_format,  \* the source: format of each stream it created
    ended,          \* the source: streams that are over
    tokens,         \* tokens drawn by inviteSource
    invited,        \* tokens the source has seen
    asked,          \* streams for which the source was asked to send /stop
    late,           \* late messages the network still holds
    state, stream_id, invite_token, format_id, decoder,
    stream_state, stopped, underrun, did_update, missing,
    packet_queue,   \* stream ids of the queued packets
    jitter,         \* stream ids of the buffered blocks
    requestqueue,   \* Sink: invite and uninvite requests of the user
    request_queue,  \* source_desc: stop requests for the source
    network, sending, processing,
    invitation      \* token of the invitation the user waits for

source == <<stream_format, ended, tokens, invited, asked, late>>
audio  == <<stream_state, stopped, underrun, did_update, missing, jitter>>
ids    == <<stream_id, format_id, decoder>>
queues == <<packet_queue, requestqueue, request_queue>>
vars   == <<source, state, invite_token, ids, audio, queues,
            network, sending, processing, invitation>>

Idle == [pc |-> "idle", id |-> Invalid, format |-> Invalid]

Init ==
    /\ stream_format = [s \in Ids |-> Invalid]
    /\ ended = {} /\ tokens = {} /\ invited = {} /\ asked = {}
    /\ late = MaxLate
    /\ state = "idle" /\ invite_token = Invalid
    /\ stream_id = Invalid /\ format_id = Invalid /\ decoder = Invalid
    /\ stream_state = "inactive" /\ missing = 0
    /\ stopped = FALSE /\ underrun = FALSE /\ did_update = FALSE
    /\ packet_queue = <<>> /\ jitter = <<>>
    /\ requestqueue = <<>> /\ request_queue = {}
    /\ network = Idle /\ sending = "idle" /\ processing = FALSE
    /\ invitation = Invalid

-----------------------------------------------------------------------------
(* The source and the network.  The source has one stream at a time; its   *)
(* messages may be repeated, reordered and lost.                           *)

Created == {s \in Ids : stream_format[s] # Invalid}

SourceStart(s, f) ==
    /\ s \in (Ids \ tokens) \cup invited
    /\ s \notin Created
    /\ stream_format' = [stream_format EXCEPT ![s] = f]
    /\ ended' = Created
    /\ UNCHANGED <<tokens, invited, asked, late, state, invite_token, ids, audio,
                   queues, network, sending, processing, invitation>>

SourceStop ==
    /\ ended # Created
    /\ ended' = Created
    /\ UNCHANGED <<stream_format, tokens, invited, asked, late, state, invite_token, ids,
                   audio, queues, network, sending, processing, invitation>>

\* A /start or /data message of stream s arrives.
Arrives(s) ==
    /\ s \in Created
    /\ s \in ended => late > 0
    /\ late' = IF s \in ended THEN late - 1 ELSE late
    /\ UNCHANGED <<stream_format, ended, tokens, invited, asked>>

\* A /stop message of stream s arrives, on request or not.
StopArrives(s) ==
    /\ s \in ended
    /\ \/ s \in asked /\ asked' = asked \ {s} /\ UNCHANGED late
       \/ late > 0 /\ late' = late - 1 /\ UNCHANGED asked
    /\ UNCHANGED <<stream_format, ended, tokens, invited>>

-----------------------------------------------------------------------------
(* Network receive thread                                                  *)

\* source_desc::handle_start up to the lock.
handle_start(s) ==
    /\ network = Idle
    /\ Arrives(s)
    /\ state = "invite" => s = invite_token
    /\ s # stream_id
    /\ network' = [pc |-> "start", id |-> s, format |-> stream_format[s]]
    /\ UNCHANGED <<state, invite_token, ids, audio, queues, sending, processing, invitation>>

\* Mutant: an existing decoder is kept for a new format.
handle_start_update_keep ==
    /\ network.pc = "start"
    /\ ~processing
    /\ stream_id' = network.id
    /\ format_id' = network.format
    /\ decoder' = IF decoder = Invalid THEN network.format ELSE decoder
    /\ missing' = 0 /\ jitter' = <<>>
    /\ stopped' = FALSE /\ underrun' = FALSE /\ did_update' = TRUE
    /\ network' = [network EXCEPT !.pc = "started"]
    /\ UNCHANGED <<source, state, invite_token, stream_state, queues, sending, processing, invitation>>

\* source_desc::handle_start, with the lock: the decoder and update().
\* The decoder is only set up for a new format.  (Without a decoder the program fails an
\* assertion or follows a null pointer here, see DecoderPresent; the model goes on.)
handle_start_update ==
    LET changed == network.format # format_id IN
    /\ network.pc = "start"
    /\ ~processing
    /\ stream_id' = network.id
    /\ format_id' = network.format
    /\ missing' = 0
    /\ IF changed /\ network.format \in Unsupported
       THEN /\ decoder' = Invalid
            /\ network' = Idle
            /\ UNCHANGED <<stream_state, stopped, underrun, did_update, jitter, packet_queue>>
       ELSE /\ decoder' = IF changed THEN network.format ELSE decoder
            /\ jitter' = <<>>
            /\ stopped' = FALSE /\ underrun' = FALSE /\ did_update' = TRUE
            /\ packet_queue' = IF changed THEN <<>> ELSE packet_queue
            /\ network' = [network EXCEPT !.pc = "started"]
            /\ UNCHANGED stream_state
    /\ UNCHANGED <<source, state, invite_token, requestqueue, request_queue, sending,
                   processing, invitation>>

\* source_desc::handle_start, after the lock and the events.
handle_start_store ==
    /\ network.pc = "started"
    /\ state' = "start"
    /\ network' = Idle
    /\ invitation' = IF invitation = stream_id THEN Invalid ELSE invitation
    /\ UNCHANGED <<source, invite_token, ids, audio, queues, sending, processing>>

\* Mutant: the idle state is not checked.
handle_stop_always(s) ==
    /\ network = Idle
    /\ StopArrives(s)
    /\ s = stream_id
    /\ state' = "stop"
    /\ UNCHANGED <<invite_token, ids, audio, queues, network, sending, processing,
                   invitation>>

\* source_desc::handle_stop
handle_stop(s) ==
    /\ network = Idle
    /\ StopArrives(s)
    /\ s = stream_id
    /\ state # "idle"
    /\ state' = "stop"
    /\ UNCHANGED <<invite_token, ids, audio, queues, network, sending, processing, invitation>>

\* source_desc::handle_decline
handle_decline(t) ==
    /\ network = Idle
    /\ t \in invited
    /\ t = invite_token
    /\ state = "invite"
    /\ state' = "timeout"
    /\ invitation' = Invalid
    /\ UNCHANGED <<source, invite_token, ids, audio, queues, network, sending, processing>>

\* source_desc::handle_data while uninviting: give up after a while (until then the
\* source is asked to stop).
handle_data_uninvite(s) ==
    /\ state = "uninvite"
    /\ state' = "timeout"
    /\ UNCHANGED network

\* source_desc::handle_data for the current stream, up to the lock.
handle_data_current(s) ==
    /\ state \notin {"uninvite", "timeout", "idle"}
    /\ state = "invite" => s = invite_token
    /\ s = stream_id
    /\ decoder # Invalid
    /\ Len(packet_queue) < MaxQueue
    /\ network' = [Idle EXCEPT !.pc = "data", !.id = s]
    /\ UNCHANGED state

\* source_desc::handle_data.  Data of a stream that is not the current one only makes the
\* sink ask for its /start.
handle_data(s) ==
    /\ network = Idle
    /\ Arrives(s)
    /\ \/ handle_data_uninvite(s)
       \/ handle_data_current(s)
    /\ UNCHANGED <<invite_token, ids, audio, queues, sending, processing,
                   invitation>>

\* source_desc::handle_data, the packet is queued.
handle_data_push ==
    /\ network.pc = "data"
    /\ packet_queue' = Append(packet_queue, network.id)
    /\ network' = Idle
    /\ UNCHANGED <<source, state, invite_token, ids, audio, requestqueue, request_queue,
                   sending, processing, invitation>>

\* source_desc::reset by the user, for example for a new latency.  The packets are flushed
\* if the size of the jitter buffer has changed.
reset ==
    /\ ~processing
    /\ decoder # Invalid
    /\ jitter' = <<>>
    /\ stopped' = FALSE /\ underrun' = FALSE /\ did_update' = TRUE
    /\ packet_queue' \in {packet_queue, <<>>}
    /\ UNCHANGED <<source, state, invite_token, ids, stream_state, missing, requestqueue,
                   request_queue, network, sending, processing, invitation>>

-----------------------------------------------------------------------------
(* Network send thread                                                     *)

\* Sink::inviteSource
inviteSource(t) ==
    /\ requestqueue = <<>>
    /\ t \in Ids \ (tokens \cup Created)
    /\ tokens' = tokens \cup {t}
    /\ requestqueue' = <<[type |-> "invite", token |-> t]>>
    /\ UNCHANGED <<stream_format, ended, invited, asked, late, state, invite_token, ids,
                   audio, packet_queue, request_queue, network, sending, processing,
                   invitation>>

\* Sink::uninviteSource
uninviteSource ==
    /\ requestqueue = <<>>
    /\ requestqueue' = <<[type |-> "uninvite", token |-> Invalid]>>
    /\ UNCHANGED <<source, state, invite_token, ids, audio, packet_queue, request_queue,
                   network, sending, processing, invitation>>

\* source_desc::invite, the token
invite ==
    /\ sending = "idle"
    /\ requestqueue # <<>> /\ Head(requestqueue).type = "invite"
    /\ invite_token' = Head(requestqueue).token
    /\ requestqueue' = Tail(requestqueue)
    /\ sending' = "invite"
    /\ UNCHANGED <<source, state, ids, audio, packet_queue, request_queue, network,
                   processing, invitation>>

\* source_desc::invite, the state
invite_store ==
    /\ sending = "invite"
    /\ state' = "invite"
    /\ sending' = "idle"
    /\ invitation' = invite_token
    /\ UNCHANGED <<source, invite_token, ids, audio, queues, network, processing>>

\* source_desc::uninvite: only a running stream.
uninvite ==
    /\ sending = "idle"
    /\ requestqueue # <<>> /\ Head(requestqueue).type = "uninvite"
    /\ requestqueue' = Tail(requestqueue)
    /\ state' = IF state = "run" THEN "uninvite" ELSE state
    /\ UNCHANGED <<source, invite_token, ids, audio, packet_queue, request_queue, network,
                   sending, processing, invitation>>

\* source_desc::send_invitations before the timeout.
send_invitation ==
    /\ sending = "idle"
    /\ state = "invite"
    /\ invited' = invited \cup {invite_token}
    /\ UNCHANGED <<stream_format, ended, tokens, asked, late, state, invite_token, ids, audio,
                   queues, network, sending, processing, invitation>>

\* source_desc::send_invitations after the timeout, up to the exchange.
invite_timeout ==
    /\ sending = "idle"
    /\ state = "invite"
    /\ sending' = "timeout"
    /\ UNCHANGED <<source, state, invite_token, ids, audio, queues, network, processing, invitation>>

\* Mutant: the timeout is not reported.
invite_timeout_store_silent ==
    /\ sending = "timeout"
    /\ state' = IF state = "invite" THEN "timeout" ELSE state
    /\ sending' = "idle"
    /\ UNCHANGED <<source, invite_token, ids, audio, queues, network, processing,
                   invitation>>

\* source_desc::send_invitations, the exchange and the event, which is always sent.
invite_timeout_store ==
    /\ sending = "timeout"
    /\ state' = IF state = "invite" THEN "timeout" ELSE state
    /\ sending' = "idle"
    /\ invitation' = Invalid
    /\ UNCHANGED <<source, invite_token, ids, audio, queues, network, processing>>

\* source_desc::send, the stop requests.
send ==
    /\ sending = "idle"
    /\ request_queue # {}
    /\ request_queue' = {}
    /\ asked' = asked \cup request_queue
    /\ UNCHANGED <<stream_format, ended, tokens, invited, late, state, invite_token, ids,
                   audio, packet_queue, requestqueue, network, sending, processing,
                   invitation>>

-----------------------------------------------------------------------------
(* Audio thread                                                            *)

\* source_desc::process up to the packets: the lock, the transitions of state_, the flag
\* of update(), and handle_underrun if packets have come after an underrun.
Recover == underrun /\ packet_queue # <<>>

process ==
    /\ ~processing
    /\ decoder # Invalid
    /\ \/ /\ state = "start"
          /\ state' = "run"
          /\ stream_state' = "buffering"
          /\ UNCHANGED stopped
       \/ /\ state = "stop"
          /\ state' = "run"
          /\ stopped' = TRUE
          /\ stream_state' = IF did_update \/ Recover THEN "buffering" ELSE stream_state
       \/ /\ state \in {"run", "uninvite"}
          /\ stream_state' = IF did_update \/ Recover THEN "buffering" ELSE stream_state
          /\ UNCHANGED <<state, stopped>>
    /\ processing' = TRUE
    /\ did_update' = FALSE
    /\ underrun' = (underrun /\ ~Recover)
    /\ jitter' = IF Recover THEN <<>> ELSE jitter
    /\ UNCHANGED <<source, invite_token, ids, missing, queues, network, sending, invitation>>

\* source_desc::process without a stream to play.
process_inactive ==
    /\ ~processing
    /\ decoder # Invalid
    /\ state \in {"invite", "timeout", "idle"}
    /\ stream_state' = "inactive"
    /\ UNCHANGED <<source, state, invite_token, ids, stopped, underrun, did_update, missing,
                   jitter, queues, network, sending, processing, invitation>>

\* Mutants: the stream id is not checked again; a full buffer is not noticed.
add_packet_any ==
    /\ processing
    /\ packet_queue # <<>>
    /\ packet_queue' = Tail(packet_queue)
    /\ jitter' = IF Len(jitter) < Capacity THEN Append(jitter, Head(packet_queue))
                 ELSE <<Head(packet_queue)>>
    /\ UNCHANGED <<source, state, invite_token, ids, stream_state, stopped, underrun,
                   did_update, missing, requestqueue, request_queue, network, sending,
                   processing, invitation>>

add_packet_unbounded ==
    /\ processing
    /\ packet_queue # <<>>
    /\ packet_queue' = Tail(packet_queue)
    /\ jitter' = IF Head(packet_queue) = stream_id THEN Append(jitter, stream_id) ELSE jitter
    /\ UNCHANGED <<source, state, invite_token, ids, stream_state, stopped, underrun,
                   did_update, missing, requestqueue, request_queue, network, sending,
                   processing, invitation>>

\* source_desc::add_packet: a packet of another stream is dropped; a block that finds the
\* buffer full resets it (handle_overrun).
add_packet ==
    LET s == Head(packet_queue) IN
    /\ processing
    /\ packet_queue # <<>>
    /\ packet_queue' = Tail(packet_queue)
    /\ \/ /\ s # stream_id
          /\ UNCHANGED <<jitter, stream_state>>
       \/ /\ s = stream_id
          /\ Len(jitter) < Capacity
          /\ jitter' = Append(jitter, s)
          /\ UNCHANGED stream_state
       \/ /\ s = stream_id
          /\ Len(jitter) >= Capacity
          /\ jitter' = <<s>>
          /\ stream_state' = "buffering"
    /\ UNCHANGED <<source, state, invite_token, ids, stopped, underrun, did_update, missing,
                   requestqueue, request_queue, network, sending, processing,
                   invitation>>

\* try_decode_block while buffering: it waits for enough blocks and samples.
wait_for_blocks ==
    /\ stream_state = "buffering" /\ ~stopped
    /\ UNCHANGED <<state, stream_state, underrun, missing, jitter, request_queue>>

\* try_decode_block decodes the oldest block.
play_block ==
    /\ stream_state = "buffering" => ~stopped /\ Len(jitter) >= Latency
    /\ jitter # <<>>
    /\ stream_state' = IF stream_state = "buffering" THEN "active" ELSE stream_state
    /\ jitter' = Tail(jitter)
    /\ missing' = 0
    /\ UNCHANGED <<state, underrun, request_queue>>

\* try_decode_block with low latency: silence for an empty buffer, and after four
\* empty blocks back to buffering.
MaxMissing == 4

play_silence ==
    /\ format_id \in LowLatency
    /\ stream_state = "active"
    /\ jitter = <<>>
    /\ IF missing + 1 >= MaxMissing
       THEN stream_state' = "buffering" /\ missing' = 0
       ELSE stream_state' = "active" /\ missing' = missing + 1
    /\ UNCHANGED <<state, underrun, jitter, request_queue>>

\* Mutant: no stop requests.
on_underrun_quiet ==
    /\ IF stream_state = "buffering" THEN stopped \/ format_id \notin LowLatency
       ELSE jitter = <<>> /\ (format_id \in LowLatency => stream_state # "active")
    /\ stream_state' = "inactive"
    /\ underrun' = TRUE
    /\ state' = IF stopped /\ state = "run" THEN "idle" ELSE state
    /\ UNCHANGED <<missing, jitter, request_queue>>

\* try_decode_block has nothing to play: source_desc::on_underrun.
\* Without low latency buffering is also given up after some time.
on_underrun ==
    /\ IF stream_state = "buffering" THEN stopped \/ format_id \notin LowLatency
       ELSE jitter = <<>> /\ (format_id \in LowLatency => stream_state # "active")
    /\ stream_state' = "inactive"
    /\ underrun' = TRUE
    /\ state' = IF stopped /\ state = "run" THEN "idle" ELSE state
    /\ \/ UNCHANGED request_queue
       \/ request_queue' = request_queue \cup {stream_id}
    /\ UNCHANGED <<missing, jitter>>

\* source_desc::process once the packets are in the buffer.
process_blocks ==
    /\ processing
    /\ packet_queue = <<>>
    /\ \/ wait_for_blocks
       \/ play_block
       \/ play_silence
       \/ on_underrun
    /\ processing' = FALSE
    /\ UNCHANGED <<source, invite_token, ids, stopped, did_update, packet_queue, requestqueue,
                   network, sending, invitation>>

\* Sink::process drops a source that has been silent for the source timeout, if its
\* process() had nothing to play or could not take the lock.  A handler that is still at
\* work on it finishes on the dropped object.
remove_source ==
    /\ ~processing
    /\ stream_id # Invalid \/ state # "idle"
    /\ \/ network.pc = "start"
       \/ decoder = Invalid
       \/ state \in {"invite", "timeout", "idle"}
       \/ underrun
    /\ state' = "idle" /\ invite_token' = Invalid
    /\ stream_id' = Invalid /\ format_id' = Invalid /\ decoder' = Invalid
    /\ stream_state' = "inactive" /\ missing' = 0
    /\ stopped' = FALSE /\ underrun' = FALSE /\ did_update' = FALSE
    /\ packet_queue' = <<>> /\ jitter' = <<>> /\ request_queue' = {}
    /\ network' = Idle /\ sending' = "idle"
    /\ invitation' = Invalid
    /\ UNCHANGED <<source, requestqueue, processing>>

-----------------------------------------------------------------------------
Next ==
    \/ \E s \in Ids, f \in Formats : SourceStart(s, f)
    \/ SourceStop
    \/ \E s \in Ids : handle_start(s) \/ handle_stop(s) \/ handle_decline(s) \/ handle_data(s)
    \/ handle_start_update \/ handle_start_store \/ handle_data_push \/ reset
    \/ \E t \in Ids : inviteSource(t)
    \/ uninviteSource \/ uninvite \/ invite \/ invite_store
    \/ send_invitation \/ invite_timeout \/ invite_timeout_store \/ send
    \/ process \/ process_inactive \/ add_packet \/ process_blocks \/ remove_source

Spec == Init /\ [][Next]_vars

-----------------------------------------------------------------------------
(* Safety                                                                  *)

TypeOK ==
    /\ stream_format \in [Ids -> Formats \cup {Invalid}]
    /\ ended \subseteq Ids /\ tokens \subseteq Ids /\ invited \subseteq tokens
    /\ asked \subseteq Ids /\ late \in 0 .. MaxLate
    /\ state \in {"idle", "run", "stop", "start", "invite", "uninvite", "timeout"}
    /\ stream_id \in Ids \cup {Invalid} /\ invite_token \in Ids \cup {Invalid}
    /\ format_id \in Formats \cup {Invalid} /\ decoder \in Formats \cup {Invalid}
    /\ stream_state \in {"active", "inactive", "buffering"}
    /\ stopped \in BOOLEAN /\ underrun \in BOOLEAN /\ did_update \in BOOLEAN
    /\ missing \in 0 .. MaxMissing - 1
    /\ packet_queue \in Seq(Ids) /\ Len(packet_queue) <= MaxQueue
    /\ jitter \in Seq(Ids) /\ Len(jitter) <= Capacity
    /\ requestqueue \in Seq([type : {"invite", "uninvite"}, token : Ids \cup {Invalid}])
    /\ request_queue \subseteq Ids
    /\ network \in [pc : {"idle", "start", "started", "data"}, id : Ids \cup {Invalid},
                    format : Formats \cup {Invalid}]
    /\ sending \in {"idle", "invite", "timeout"}
    /\ processing \in BOOLEAN
    /\ invitation \in Ids \cup {Invalid}

\* Blocks of an earlier stream are never played in a later one: whatever packets were
\* queued when the stream changed, the jitter buffer only holds blocks of the stream
\* that the decoder is set up for (update, flush_packet_queue, add_packet).
OnlyCurrentStream ==
    decoder # Invalid => \A k \in DOMAIN jitter : jitter[k] = stream_id

\* The decoder fits the format that /start announced: a stream is never decoded with
\* the decoder of the stream before (handle_start).
DecoderFits ==
    decoder # Invalid => decoder = format_id /\ decoder = stream_format[stream_id]

\* The stream has a decoder whenever handle_start has updated it.  update() asserts it:
\* "assert(decoder_ != nullptr)".
DecoderPresent == network.pc = "started" => decoder # Invalid

\* A stream is idle only after its own /stop (handle_data: data for an idle stream "can
\* happen when /data messages are reordered after a /stop message").
IdleMeansStopped ==
    state = "idle" /\ network = Idle /\ stream_id # Invalid => stream_id \in ended

\* An idle stream stays idle until a /start, an invitation or its removal: late /data and
\* /stop messages do not revive it.
IdleStays ==
    [][state = "idle" => state' \in {"idle", "start", "invite"}]_vars

-----------------------------------------------------------------------------
(* Liveness.  The threads keep running; time passes, so that a pending     *)
(* timeout or stop request becomes due; the network does not lose every    *)
(* answer.  The threads are not in step: requests are not always sent, nor *)
(* answers always received, during an audio callback.                      *)

RequestsStop == process_blocks /\ stream_id \in request_queue'

Fairness ==
    /\ WF_vars(handle_start_update) /\ WF_vars(handle_start_store)
    /\ WF_vars(handle_data_push)
    /\ WF_vars(process) /\ WF_vars(process_inactive)
    /\ WF_vars(add_packet) /\ WF_vars(process_blocks)
    /\ SF_vars(RequestsStop)
    /\ WF_vars(invite) /\ WF_vars(invite_store) /\ WF_vars(uninvite)
    /\ SF_vars(invite_timeout) /\ WF_vars(invite_timeout_store)
    /\ SF_vars(send /\ ~processing)
    /\ \A s \in Ids : SF_vars(handle_stop(s) /\ ~processing)

FairSpec == Spec /\ Fairness

\* A stream that the source has ended does not run for ever, even if its /stop was lost:
\* the stop requests of on_underrun get another one.  (A user who never stops uninviting
\* or resetting it can keep it going.  With low latency a stream that has lost its /stop
\* while buffering does buffer for ever: the code excepts it from giving up.)
EndedStreamStops ==
    <>[][~uninviteSource /\ ~reset]_vars =>
        \A s \in Ids : []<>~(/\ s \in ended /\ stream_id = s
                             /\ stream_format[s] \notin LowLatency
                             /\ state \notin {"idle", "timeout", "invite"})

\* No invitation stays open for ever: its stream, a decline or the timeout event answers
\* it, unless it is withdrawn first, because the source is uninvited or removed or because
\* a newer invitation takes its place.
\* AooSink::inviteSource: "The source can either accept the invitation request and start
\* a stream or it can ignore it, upon which the sink will eventually receive an
\* AooEventInviteTimeout event."
InvitationAnswered ==
    \A t \in Ids : []<>(invitation # t)

=============================================================================
