---------------------------- MODULE SinkMessages ----------------------------
(***************************************************************************)
(* Stream messages at the sink (source_desc in aoo/src/sink.cpp).  Decoding*)
(* a block schedules its messages at the stream time, process() hands out  *)
(* those which fall into the block of samples it returns.  Times are       *)
(* fractions of a sample, counted in units of 1 / Unit sample.  The sample *)
(* rates are the nominal ones: stream and process time then advance alike. *)
(***************************************************************************)
EXTENDS Integers, Sequences, SequencesExt

CONSTANTS
    Unit,         \* the resolution of time
    Block,        \* samples of a process block
    StreamBlock,  \* units of time in a block of the stream, after resampling
    Offsets,      \* places of messages in a block of the stream, in units
    Delay,        \* source_codec_delay_ + sink_codec_delay_, in units
    MaxMessages,  \* bound: messages of the stream
    MaxTime       \* bound: stream time

VARIABLES
    stream_messages,  \* scheduled, sorted by time
    process_samples, stream_samples,
    stock,            \* audio in the resampler
    sent,             \* messages scheduled so far
    given,            \* messages given to the handler by the last process()
    last,             \* the message given last
    skipped,          \* messages thrown away
    lost              \* the end of the last block that was skipped for an xrun

vars == <<stream_messages, process_samples, stream_samples, stock, sent, given, last,
          skipped, lost>>

Nothing == [time |-> 0, id |-> 0, offset |-> 0]

\* (int32_t)(x): towards zero, in samples.
Truncated(x) == IF x < 0 THEN -((-x) \div Unit) ELSE x \div Unit

\* A plausible bug: a message goes in front of those with the same time.
sched_stream_message_front(queue, m) ==
    LET n == Len(SelectSeq(queue, LAMBDA x : x.time < m.time))
    IN SubSeq(queue, 1, n) \o <<m>> \o SubSeq(queue, n + 1, Len(queue))

sched_stream_message(queue, m) ==
    LET n == Len(SelectSeq(queue, LAMBDA x : x.time <= m.time))
    IN SubSeq(queue, 1, n) \o <<m>> \o SubSeq(queue, n + 1, Len(queue))

\* The messages of a block: its time stamp (if it has one), then the messages
\* of the user as they come in the block.
Scheduled(tt, offsets) ==
    LET message(t, k) == [time |-> t, id |-> sent + k]
        stamped == IF tt THEN sched_stream_message(stream_messages,
                                                  message(stream_samples + Delay, 1))
                   ELSE stream_messages
        first == IF tt THEN 1 ELSE 0
    IN FoldLeftDomain(LAMBDA q, i : sched_stream_message(q, message(stream_samples + offsets[i], first + i)),
                      stamped, offsets)

\* try_decode_block(): a block of the stream goes into the resampler.
try_decode_block(tt, offsets) ==
    LET count == Len(offsets) + (IF tt THEN 1 ELSE 0)
    IN /\ stock < Block * Unit
       /\ stream_samples < MaxTime
       /\ sent + count <= MaxMessages
       /\ stream_messages' = Scheduled(tt, offsets)
       /\ sent' = sent + count
       /\ stream_samples' = stream_samples + StreamBlock
       /\ stock' = stock + StreamBlock
       /\ UNCHANGED <<process_samples, given, last, skipped, lost>>

\* A block of samples is thrown away after an xrun.
skip_block ==
    /\ stock >= Block * Unit
    /\ stock' = stock - Block * Unit
    /\ process_samples' = process_samples + Block * Unit
    /\ lost' = process_samples'
    /\ UNCHANGED <<stream_messages, stream_samples, sent, given, last, skipped>>

Offset(m) == Truncated(m.time - process_samples + Unit \div 2)

\* A plausible bug: a message that rounding moves out of the block is given out.
Due_rounded(m) == m.time < process_samples + Block * Unit

Due(m) == m.time < process_samples + Block * Unit /\ Offset(m) < Block

\* The messages at the head of the queue which are due.
Ready == LET late == SelectInSeq(stream_messages, LAMBDA m : ~Due(m))
         IN IF late = 0 THEN stream_messages ELSE SubSeq(stream_messages, 1, late - 1)

dispatch_stream_messages ==
    LET on_time == SelectSeq(Ready, LAMBDA m : Offset(m) >= 0)
    IN /\ stock >= Block * Unit
       /\ stock' = stock - Block * Unit
       /\ given' = [i \in DOMAIN on_time |->
                       [time |-> on_time[i].time, id |-> on_time[i].id, offset |-> Offset(on_time[i])]]
       /\ last' = IF given' = <<>> THEN last ELSE Last(given')
       /\ skipped' = skipped \union {m \in ToSet(Ready) : Offset(m) < 0}
       /\ stream_messages' = SubSeq(stream_messages, Len(Ready) + 1, Len(stream_messages))
       /\ process_samples' = process_samples + Block * Unit
       /\ UNCHANGED <<stream_samples, sent, lost>>

\* reset_stream(), on an underrun, an overrun and a new stream, together with
\* the resampler.
reset_stream ==
    /\ stream_messages' = <<>>
    /\ process_samples' = 0 /\ stream_samples' = 0 /\ stock' = 0
    /\ given' = <<>> /\ last' = Nothing /\ skipped' = {} /\ lost' = 0
    /\ UNCHANGED sent

Init ==
    /\ stream_messages = <<>>
    /\ process_samples = 0 /\ stream_samples = 0 /\ stock = 0
    /\ sent = 0 /\ given = <<>> /\ last = Nothing /\ skipped = {} /\ lost = 0

Placements == {<<>>} \union {<<a>> : a \in Offsets} \union
          {<<a, b>> : a \in Offsets, b \in Offsets}

Next ==
    \/ \E tt \in BOOLEAN, offsets \in Placements : try_decode_block(tt, offsets)
    \/ skip_block
    \/ dispatch_stream_messages
    \/ reset_stream

Spec == Init /\ [][Next]_vars

-----------------------------------------------------------------------------
Earlier(m, n) == m.time < n.time \/ (m.time = n.time /\ m.id < n.id)

\* The handler gets every message once, in the order of time and of scheduling,
\* with an offset inside the block, and no message is thrown away unless the
\* samples it belongs to were skipped for an xrun ("this may happen with xruns"
\* in dispatch_stream_messages()).
MessagesOnTime ==
    /\ \A i \in DOMAIN given : given[i].offset \in 0 .. Block - 1
    /\ \A i, j \in DOMAIN given : i < j => Earlier(given[i], given[j])
    /\ \A i \in DOMAIN stream_messages :
          last # Nothing => Earlier(last, stream_messages[i])
    /\ \A m \in skipped : m.time < lost
=============================================================================
