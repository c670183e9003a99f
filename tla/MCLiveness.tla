----------------------------- MODULE MCLiveness -----------------------------
(***************************************************************************)
(* What must happen in the end, for TLC: a sink that is invited and stops, *)
(* reliable messages over a network that loses and is fair, the search for *)
(* receivers, and the blocks that the Apple sender hands over.  They do    *)
(* not act on each other: part says which of them runs, and the others     *)
(* rest in an initial state.  The module extends PeerBrowser and           *)
(* instantiates the others.                                                *)
(***************************************************************************)
EXTENDS PeerBrowser

VARIABLES
    part,  \* the component that runs
    stream_format, ended, tokens, invited, asked, late, state, stream_id, invite_token,
    format_id, decoder, stream_state, stopped, underrun, did_update, missing, packet_queue,
    jitter, requestqueue, request_queue, network, sending, processing, invitation,
    sent, next_sequence_reliable, send_buffer, received_acks, data_wire, ack_wire,
    receive_buffer, last_pushed, last_popped, send_acks, delivered,
    enabled, hasDestination, streaming, streamGeneration, running, shouldRun, sender_queue,
    writeIndex, readIndex, gapQueue, gapWriteIndex, gapReadIndex, pending, audio, thread,
    todo, sender_calls, position, processed, skipped

SinkVars == <<stream_format, ended, tokens, invited, asked, late, state, stream_id,
              invite_token, format_id, decoder, stream_state, stopped, underrun, did_update,
              missing, packet_queue, jitter, requestqueue, request_queue, network, sending,
              processing, invitation>>
MessageVars == <<sent, next_sequence_reliable, send_buffer, received_acks, data_wire,
                 ack_wire, receive_buffer, last_pushed, last_popped, send_acks, delivered>>
SenderVars == <<enabled, hasDestination, streaming, streamGeneration, running, shouldRun,
                sender_queue, writeIndex, readIndex, gapQueue, gapWriteIndex, gapReadIndex,
                pending, audio, thread, todo, sender_calls, position, processed, skipped>>
partvars == <<part, SinkVars, MessageVars, vars, SenderVars>>

Sink == INSTANCE SinkStream WITH
    Ids <- {1}, Formats <- {1, 2}, Unsupported <- {}, Invalid <- -1, LowLatency <- {2},
    Latency <- 1, Capacity <- 1, MaxQueue <- 1, MaxLate <- 2

Message == INSTANCE PeerMessage WITH
    Sizes <- {1}, maxsize <- 2, Binary <- TRUE, MaxMessages <- 2

Sender == INSTANCE AppleSender WITH
    BlockFrames <- 2, Capacity <- 1, GapCapacity <- 1, CallSizes <- {1, 3}, MaxFrames <- 4,
    MaxCalls <- 3, queue <- sender_queue, calls <- sender_calls

Parts == {"sink", "messages", "browser", "sender"}

PartsInit ==
    /\ part \in Parts
    /\ Sink!Init /\ Message!Init /\ Init /\ Sender!Init

PartsNext ==
    \/ /\ part = "sink" /\ Sink!Next
       /\ UNCHANGED <<part, MessageVars, vars, SenderVars>>
    \/ /\ part = "messages" /\ Message!LossyNext
       /\ UNCHANGED <<part, SinkVars, vars, SenderVars>>
    \/ /\ part = "browser" /\ Next
       /\ UNCHANGED <<part, SinkVars, MessageVars, SenderVars>>
    \/ /\ part = "sender" /\ Sender!Next
       /\ UNCHANGED <<part, SinkVars, MessageVars, vars>>

PartsSpec == PartsInit /\ [][PartsNext]_partvars

\* The fairness of the components.  As only one of them runs, a strong fairness of one
\* and a strong fairness of another are stated together.
SinkOrMessages == <<SinkVars, MessageVars>>

\* a datagram of message m (it has one frame), or its acknowledgement, arrives
Received(m) ==
    /\ part = "messages"
    /\ \E p \in Message!Resends \cap data_wire : p.sequence = m /\ Message!handle_client_message(p)

Acknowledged(m) ==
    /\ part = "messages"
    /\ \E a \in Message!Acks \cap ack_wire : a[1] = m /\ Message!handle_ack(a)

PartsFairSpec ==
    /\ PartsSpec
    /\ WF_SinkVars(part = "sink" /\ Sink!handle_start_update)
    /\ WF_SinkVars(part = "sink" /\ Sink!handle_start_store)
    /\ WF_SinkVars(part = "sink" /\ Sink!handle_data_push)
    /\ WF_SinkVars(part = "sink" /\ Sink!process)
    /\ WF_SinkVars(part = "sink" /\ Sink!process_inactive)
    /\ WF_SinkVars(part = "sink" /\ Sink!add_packet)
    /\ WF_SinkVars(part = "sink" /\ Sink!process_blocks)
    /\ WF_SinkVars(part = "sink" /\ Sink!invite)
    /\ WF_SinkVars(part = "sink" /\ Sink!invite_store)
    /\ WF_SinkVars(part = "sink" /\ Sink!uninvite)
    /\ WF_SinkVars(part = "sink" /\ Sink!invite_timeout_store)
    /\ SF_SinkOrMessages(\/ part = "sink" /\ Sink!RequestsStop /\ UNCHANGED MessageVars
                         \/ Received(0) /\ UNCHANGED SinkVars)
    /\ SF_SinkOrMessages(\/ part = "sink" /\ Sink!invite_timeout /\ UNCHANGED MessageVars
                         \/ Received(1) /\ UNCHANGED SinkVars)
    /\ SF_SinkOrMessages(\/ part = "sink" /\ Sink!handle_stop(1) /\ ~processing
                             /\ UNCHANGED MessageVars
                         \/ Acknowledged(0) /\ UNCHANGED SinkVars)
    /\ SF_SinkOrMessages(\/ part = "sink" /\ Sink!send /\ ~processing /\ UNCHANGED MessageVars
                         \/ Acknowledged(1) /\ UNCHANGED SinkVars)
    /\ WF_MessageVars(part = "messages" /\ Message!do_send(1 .. Len(send_buffer)))
    /\ WF_MessageVars(part = "messages" /\ Message!send_ack)
    /\ WF_vars(part = "browser" /\ Run)
    /\ \A p \in Paths : WF_vars(part = "browser" /\ end(p))
    /\ WF_vars(part = "browser" /\ \E st \in {"ready", "failed"} : BrowserState(st))
    /\ WF_SenderVars(part = "sender" /\ Sender!Audio)
    /\ WF_SenderVars(part = "sender" /\ Sender!Thread)
    /\ WF_SenderVars(part = "sender" /\ Sender!Control)

-----------------------------------------------------------------------------
\* SinkStream: a stream that has ended does not run for ever, even if its /stop was lost.
EndedStreamStops == Sink!EndedStreamStops

\* SinkStream: every invitation is answered or withdrawn in the end.
InvitationAnswered == Sink!InvitationAnswered

\* PeerMessage: over a fair network every reliable message is delivered in the end,
\* because peer::do_send resends it until it is acknowledged.
EventuallyDelivered == Message!EventuallyDelivered

\* PeerMessage: over a fair network the send buffer drains, because the receiver
\* acknowledges a frame that it has seen before once more.
EventuallyForgotten == Message!EventuallyForgotten

\* AppleSender: no block stays behind, and no call waits for ever.
BlocksTaken == Sender!BlocksTaken
=============================================================================
