---------------------------- MODULE PeerMessage ----------------------------
(***************************************************************************)
(* Reliable messages from one peer to another over UDP.                    *)
(*                                                                         *)
(* Source: aoo/src/net/peer.cpp (send_message, do_send, handle_ack,        *)
(* do_handle_client_message) and aoo/src/net/message_buffer.{hpp,cpp}.     *)
(*                                                                         *)
(* The sending peer cuts a message into frames of at most maxsize bytes,   *)
(* keeps it in send_buffer_ until every frame is acknowledged and resends  *)
(* what is missing.  The receiving peer reassembles the frames in          *)
(* receive_buffer_, delivers complete messages in sequence order and       *)
(* acknowledges every frame it sees.  Datagrams may be lost, duplicated    *)
(* and reordered.                                                          *)
(*                                                                         *)
(* The bytes of a message are its positions 0 .. size-1, so a received     *)
(* buffer holds, at each position, the position of the byte copied there.  *)
(***************************************************************************)
EXTENDS Integers, Sequences

CONSTANTS
    Sizes,         \* message sizes the user may send
    maxsize,       \* payload of a packet: packet_size minus the header size
    Binary,        \* TRUE: binary message format (the default), FALSE: OSC
    MaxMessages    \* bound: messages sent in a behaviour

ASSUME SizesAssumption == Sizes \subseteq Nat
ASSUME MaxsizeAssumption == maxsize \in Nat \ {0}
ASSUME BinaryAssumption == Binary \in BOOLEAN
ASSUME MaxMessagesAssumption == MaxMessages \in Nat

VARIABLES
    \* sending peer
    sent,                     \* history: sizes of the messages, by sequence + 1
    next_sequence_reliable,
    send_buffer,              \* list of sent_message
    received_acks,            \* queue filled by handle_ack
    \* network
    data_wire,                \* message packets in flight
    ack_wire,                 \* acks in flight
    \* receiving peer
    receive_buffer,           \* list of received_message
    last_pushed,
    last_popped,
    send_acks,                \* queue drained by do_send
    delivered                 \* history: peer message events, in order

sender == <<sent, next_sequence_reliable, send_buffer, received_acks>>
receiver == <<receive_buffer, last_pushed, last_popped, send_acks, delivered>>
vars == <<sender, data_wire, ack_wire, receiver>>

Unset == -1                   \* a byte of data_ that nothing was copied to

----------------------------------------------------------------------------
(* Frames *)

num_frames(size) == (size \div maxsize) + (IF size % maxsize # 0 THEN 1 ELSE 0)

\* A single-frame message carries no frame count; the receiver takes it as 1.
Packet(s, size, i, onset, n) ==
    [sequence |-> s, total_size |-> size,
     num_frames |-> IF num_frames(size) > 1 THEN num_frames(size) ELSE 1,
     frame_index |-> i, onset |-> onset, size |-> n]

\* What send_message puts on the wire: the last frame gets the remainder.
SendPackets(s, size) ==
    LET last == num_frames(size) - 1
        rem == size % maxsize
    IN  IF num_frames(size) > 1
        THEN {Packet(s, size, i, i * maxsize, maxsize) : i \in 0 .. last - 1}
               \cup {Packet(s, size, last, size - rem, rem)}
        ELSE {Packet(s, size, 0, 0, size)}

\* sent_message::get_frame
GetFrame(m, i) ==
    LET onset == IF m.num_frames = 1 THEN 0
                 ELSE IF i = m.num_frames - 1 THEN (i - 1) * m.frame_size
                 ELSE i * m.frame_size
        n == IF i = m.num_frames - 1 THEN m.size - onset ELSE m.frame_size
    IN  Packet(m.sequence, m.size, i, onset, n)

\* Mutant: one frame bit too many.
SentMessageExtraFrame(s, size) ==
    [sequence |-> s, size |-> size, num_frames |-> num_frames(size),
     frame_size |-> IF size \div maxsize # 0 THEN maxsize ELSE size % maxsize,
     frames |-> 0 .. num_frames(size), armed |-> FALSE]

\* sent_message::sent_message; frames are the ones not acknowledged yet.
SentMessage(s, size) ==
    [sequence |-> s, size |-> size, num_frames |-> num_frames(size),
     frame_size |-> IF size \div maxsize # 0 THEN maxsize ELSE size % maxsize,
     frames |-> 0 .. num_frames(size) - 1, armed |-> FALSE]

\* received_message(sequence): an entry without data
Placeholder(s) ==
    [sequence |-> s, placeholder |-> TRUE, size |-> 0, num_frames |-> 0,
     frames |-> {}, data |-> [j \in 0 .. -1 |-> Unset]]

\* received_message::init; frames are the ones not received yet.
InitMessage(p) ==
    [sequence |-> p.sequence, placeholder |-> FALSE, size |-> p.total_size,
     num_frames |-> p.num_frames, frames |-> 0 .. p.num_frames - 1,
     data |-> [j \in 0 .. p.total_size - 1 |-> Unset]]

\* Mutant: the last frame is placed like any other.
AddFrameUniform(m, p) ==
    LET start == p.frame_index * p.size
    IN  [m EXCEPT !.frames = @ \ {p.frame_index},
                  !.data = [j \in DOMAIN @ |->
                              IF start <= j /\ j < start + p.size
                              THEN p.onset + (j - start) ELSE @[j]]]

\* received_message::add_frame: the last frame goes to the end of the buffer.
AddFrame(m, p) ==
    LET start == IF p.frame_index = m.num_frames - 1
                 THEN m.size - p.size ELSE p.frame_index * p.size
    IN  [m EXCEPT !.frames = @ \ {p.frame_index},
                  !.data = [j \in DOMAIN @ |->
                              IF start <= j /\ j < start + p.size
                              THEN p.onset + (j - start) ELSE @[j]]]

\* Mutant: an entry without data counts as complete.
CompletePlaceholder(m) == m.frames = {}

Complete(m) == ~m.placeholder /\ m.frames = {}

----------------------------------------------------------------------------
Init ==
    /\ sent = <<>>
    /\ next_sequence_reliable = 0
    /\ send_buffer = <<>>
    /\ received_acks = {}
    /\ data_wire = {}
    /\ ack_wire = {}
    /\ receive_buffer = <<>>
    /\ last_pushed = -1
    /\ last_popped = -1
    /\ send_acks = {}
    /\ delivered = <<>>

----------------------------------------------------------------------------
(* Sending peer *)

\* peer::send_message
send_message(size) ==
    /\ Len(sent) < MaxMessages
    /\ send_buffer' = Append(send_buffer, SentMessage(next_sequence_reliable, size))
    /\ data_wire' = data_wire \cup SendPackets(next_sequence_reliable, size)
    /\ next_sequence_reliable' = next_sequence_reliable + 1
    /\ sent' = Append(sent, size)
    /\ UNCHANGED <<received_acks, ack_wire, receiver>>

\* peer::handle_ack: the network thread queues the ack for the send thread.
handle_ack(a) ==
    /\ received_acks' = received_acks \cup {a}
    /\ UNCHANGED <<sent, next_sequence_reliable, send_buffer, data_wire, ack_wire, receiver>>

\* Mutant: an ack of one frame is taken for the whole message.
AckedAll ==
    [k \in 1 .. Len(send_buffer) |->
       [send_buffer[k] EXCEPT !.frames =
          {i \in @ : ~\E a \in received_acks : a[1] = send_buffer[k].sequence}]]

\* peer::do_send, 4): apply the queued acks
Acked ==
    [k \in 1 .. Len(send_buffer) |->
       [send_buffer[k] EXCEPT !.frames =
          {i \in @ : <<send_buffer[k].sequence, i>> \notin received_acks}]]

\* Mutant: nothing is resent.
do_send_once(due) ==
    \E n \in 0 .. Len(send_buffer) :
        /\ \A k \in 1 .. n : Acked[k].frames = {}
        /\ n < Len(send_buffer) => Acked[n + 1].frames # {}
        /\ received_acks' = {}
        /\ send_buffer' = SubSeq(Acked, n + 1, Len(send_buffer))
        /\ UNCHANGED <<sent, next_sequence_reliable, data_wire, ack_wire, receiver>>

\* peer::do_send, 4) to 6): apply the acks, pop the n acknowledged messages at
\* the front and resend the other messages that are due, i.e. whose resend time
\* has come.  The first call of need_resend only arms the timer.
do_send(due) ==
    \E n \in 0 .. Len(send_buffer) :
        /\ \A k \in 1 .. n : Acked[k].frames = {}
        /\ n < Len(send_buffer) => Acked[n + 1].frames # {}
        /\ received_acks' = {}
        /\ send_buffer' = [k \in 1 .. Len(send_buffer) - n |->
                             [Acked[n + k] EXCEPT !.armed = TRUE]]
        /\ data_wire' = data_wire \cup
             UNION {{GetFrame(Acked[k], i) : i \in Acked[k].frames} :
                    k \in {j \in due : j > n /\ send_buffer[j].armed}}
        /\ UNCHANGED <<sent, next_sequence_reliable, ack_wire, receiver>>

----------------------------------------------------------------------------
(* Receiving peer *)

\* Mutant: no placeholders for skipped messages.
PushedAlone(p) == Append(receive_buffer, AddFrame(InitMessage(p), p))

\* The receive buffer after placeholders for skipped messages and the new
\* message were pushed.
Pushed(p) ==
    LET skipped == [i \in 1 .. p.sequence - last_pushed - 1 |-> Placeholder(last_pushed + i)]
    IN  Append(receive_buffer \o skipped, AddFrame(InitMessage(p), p))

\* The receive buffer after the frame was added to an existing message.
Added(p) ==
    [k \in 1 .. Len(receive_buffer) |->
       LET m == receive_buffer[k]
           n == IF m.placeholder THEN InitMessage(p) ELSE m
       IN  IF m.sequence # p.sequence THEN m
           ELSE IF p.frame_index \in n.frames THEN AddFrame(n, p) ELSE n]

Filed(p) == IF p.sequence > last_pushed THEN Pushed(p) ELSE Added(p)

\* The event of a delivered message
MessageEvent(m) == [sequence |-> m.sequence, data |-> m.data]

\* In OSC format a packet without payload is malformed (osc_read_metadata).
WellFormed(p) == Binary \/ p.size > 0

Outdated(p) == p.sequence <= last_popped

\* peer::do_handle_client_message (reliable): file the frame, deliver the n
\* complete messages at the front, schedule the ack.
file_and_deliver(p) ==
    LET buf == Filed(p) IN
    \E n \in 0 .. Len(buf) :
        /\ \A k \in 1 .. n : Complete(buf[k])
        /\ n < Len(buf) => ~Complete(buf[n + 1])
        /\ delivered' = delivered \o [k \in 1 .. n |-> MessageEvent(buf[k])]
        /\ receive_buffer' = SubSeq(buf, n + 1, Len(buf))
        /\ last_popped' = IF n > 0 THEN buf[n].sequence ELSE last_popped
        /\ last_pushed' = IF p.sequence > last_pushed THEN p.sequence ELSE last_pushed

\* Mutant: an outdated message is not acknowledged again.
handle_client_message_silent(p) ==
    /\ WellFormed(p)
    /\ ~Outdated(p)
    /\ file_and_deliver(p)
    /\ send_acks' = send_acks \cup {<<p.sequence, p.frame_index>>}
    /\ UNCHANGED <<sender, data_wire, ack_wire>>

\* peer::handle_client_message: an outdated message is acknowledged again.
handle_client_message(p) ==
    /\ WellFormed(p)
    /\ IF Outdated(p)
       THEN UNCHANGED <<receive_buffer, last_pushed, last_popped, delivered>>
       ELSE file_and_deliver(p)
    /\ send_acks' = send_acks \cup {<<p.sequence, p.frame_index>>}
    /\ UNCHANGED <<sender, data_wire, ack_wire>>

\* peer::do_send, 3): send outgoing acks
send_ack ==
    /\ send_acks # {}
    /\ ack_wire' = ack_wire \cup send_acks
    /\ send_acks' = {}
    /\ UNCHANGED <<sender, data_wire, receive_buffer, last_pushed, last_popped, delivered>>

----------------------------------------------------------------------------
(* A datagram stays in flight, so it may arrive late, again, or never; the      *)
(* safety properties need no loss steps.  Liveness does: fairness is about the  *)
(* datagrams in flight, and the network may drop them (LossyNext).              *)

LoseData(p) ==
    /\ data_wire' = data_wire \ {p}
    /\ UNCHANGED <<sender, ack_wire, receiver>>

LoseAck(a) ==
    /\ ack_wire' = ack_wire \ {a}
    /\ UNCHANGED <<sender, data_wire, receiver>>

Next ==
    \/ \E size \in Sizes : send_message(size)
    \/ \E a \in ack_wire : handle_ack(a)
    \/ \E due \in SUBSET (1 .. Len(send_buffer)) : do_send(due)
    \/ \E p \in data_wire : handle_client_message(p)
    \/ send_ack

Spec == Init /\ [][Next]_vars

LossyNext ==
    \/ Next
    \/ \E p \in data_wire : LoseData(p)
    \/ \E a \in ack_wire : LoseAck(a)

----------------------------------------------------------------------------
(* Properties *)

Message(s, size) == [sequence |-> s, data |-> [j \in 0 .. size - 1 |-> j]]

TypeOK ==
    /\ sent \in Seq(Sizes)
    /\ next_sequence_reliable = Len(sent)
    /\ \A k \in 1 .. Len(send_buffer) :
          send_buffer[k].frames \subseteq 0 .. send_buffer[k].num_frames - 1
    /\ received_acks \cup ack_wire \cup send_acks \subseteq (0 .. Len(sent) - 1) \X Nat
    /\ \A p \in data_wire : p.sequence \in 0 .. Len(sent) - 1
    /\ last_popped \in -1 .. last_pushed
    /\ last_pushed \in -1 .. Len(sent) - 1

\* Messages are delivered exactly once and in the order they were sent: the
\* k-th event is the message with sequence number k - 1.
InOrder ==
    /\ Len(delivered) <= Len(sent)
    /\ \A k \in 1 .. Len(delivered) : delivered[k].sequence = k - 1

\* The payload of every event is the payload that was sent: each byte of the
\* reassembled buffer was written, from the same position of the message.
DeliveredIntact ==
    \A k \in 1 .. Len(delivered) : delivered[k] = Message(k - 1, sent[k])

\* The receive buffer has one entry for every message after the last delivered
\* one up to the newest one seen, so a late frame always finds its message
\* (the "could not find message" branch of do_handle_client_message is dead).
BufferContiguous ==
    /\ Len(receive_buffer) = last_pushed - last_popped
    /\ \A k \in 1 .. Len(receive_buffer) : receive_buffer[k].sequence = last_popped + k

\* The sender forgets a message only when the receiver has all of it: what is
\* no longer in the send buffer was delivered or waits complete for its turn.
ForgottenIsReceived ==
    \A s \in 0 .. next_sequence_reliable - 1 :
        \/ \E k \in 1 .. Len(send_buffer) : send_buffer[k].sequence = s
        \/ s <= last_popped
        \/ \E k \in 1 .. Len(receive_buffer) :
              receive_buffer[k].sequence = s /\ Complete(receive_buffer[k])

----------------------------------------------------------------------------
(* Refinement *)

\* The messages sent so far, as the channel sees them
channelSent == [k \in 1 .. Len(sent) |-> Message(k - 1, sent[k])]

Channel == INSTANCE MessageChannel WITH
    Messages <- {Message(s, size) : s \in 0 .. MaxMessages - 1, size \in Sizes},
    sent <- channelSent

\* The protocol implements the first-in first-out channel of MessageChannel.
ImplementsChannel == Channel!Spec

----------------------------------------------------------------------------
(* Liveness.  The client calls send() again and again (its send thread loops)  *)
(* and the resend interval is capped at one second, so every unacknowledged    *)
(* message falls due infinitely often; the network is fair-lossy: a datagram   *)
(* sent again and again arrives.                                               *)

Resends ==
    UNION {{GetFrame(SentMessage(s, size), i) : i \in 0 .. num_frames(size) - 1} :
             s \in 0 .. MaxMessages - 1, size \in Sizes}

Acks == {<<p.sequence, p.frame_index>> : p \in Resends}

Fairness ==
    /\ WF_vars(do_send(1 .. Len(send_buffer)))
    /\ WF_vars(send_ack)
    /\ \A p \in Resends : SF_vars(p \in data_wire /\ handle_client_message(p))
    /\ \A a \in Acks : SF_vars(a \in ack_wire /\ handle_ack(a))

FairSpec == Init /\ [][LossyNext]_vars /\ Fairness

\* Every reliable message is eventually delivered, whatever the network loses.  (The
\* number of messages is bounded, and what was delivered stays delivered.)
EventuallyDelivered == <>[](Len(delivered) = Len(sent))

\* The sender does not keep a message for ever: the send buffer drains.
EventuallyForgotten == <>[](send_buffer = <<>>)
=============================================================================
