--------------------------- MODULE StreamMessages ---------------------------
(***************************************************************************)
(* Stream messages of AooSource (aoo/src/source.cpp): the user attaches    *)
(* messages to sample positions of the stream; the send thread puts each   *)
(* into the block of audio it belongs to.  Two clocks count the samples:   *)
(* process_samples_ on the side of the audio thread and stream_samples_ on *)
(* the side of the send thread.  Blocks that were dropped (xruns) advance  *)
(* the first when they are dropped and the second when empty blocks are    *)
(* sent for them.                                                          *)
(*                                                                         *)
(* The audio thread calls process with blocks of Block samples; a block of *)
(* the stream has Group of them.  With Group = 1 the resampler is bypassed.*)
(* The update mutex is a guard: what takes it as a writer does not run     *)
(* while the send thread is in send_xruns.                                 *)
(***************************************************************************)
EXTENDS Integers, Sequences, SequencesExt

CONSTANTS
    Block,         \* blocksize_: samples of a block of process
    Group,         \* blocks of process in a block of the stream
    QueueSizes,    \* capacities of audio_queue_ the user may ask for, in blocks
    MaxOffset,     \* bound on the sample offset of a message
    MaxMessages,   \* bound on messages
    MaxBlocks,     \* bound on calls of process and on reported xruns
    MaxStreams     \* bound on streams

VARIABLES
    state,               \* stream_state_
    process_samples, stream_samples,
    resampler,           \* blocks of process in the resampler
    audio_queue,         \* blocks of the stream in the queue
    capacity,            \* capacity of the queue
    xruns,               \* xrunblocks_
    adding,              \* samples the audio thread is about to count in add_xrun
    taken,               \* xruns the send thread has taken in send_xruns
    lost,                \* history: blocks of process that a reset threw away
    message_queue,       \* from the user to the send thread
    message_prio_queue,  \* scheduled messages, sorted by time
    sent,                \* the offsets of the messages of the last block
    messages, blocks, streams

clocks == <<process_samples, stream_samples, resampler, audio_queue, xruns, adding, taken, lost>>
queues == <<message_queue, message_prio_queue, sent>>
bounds == <<messages, blocks, streams>>
vars == <<state, clocks, capacity, queues, bounds>>

Init ==
    /\ state = "idle"
    /\ process_samples = 0 /\ stream_samples = 0 /\ resampler = 0 /\ audio_queue = 0
    /\ xruns = 0 /\ adding = 0 /\ taken = 0 /\ lost = 0
    /\ capacity \in QueueSizes
    /\ message_queue = <<>> /\ message_prio_queue = <<>> /\ sent = <<>>
    /\ messages = 0 /\ blocks = 0 /\ streams = 0

startStream ==
    /\ streams < MaxStreams
    /\ state' = "start" /\ streams' = streams + 1
    /\ UNCHANGED <<clocks, capacity, queues, messages, blocks>>

stopStream ==
    /\ state' = "stop"
    /\ UNCHANGED <<clocks, capacity, queues, bounds>>

-----------------------------------------------------------------------------
(* The audio thread.  It is in add_xrun while adding is not 0.                *)

\* Source::addStreamMessage, "call on the audio thread" (include/aoo_source.hpp:100).
\* Before the first block of a stream the time starts at zero.
addStreamMessage(offset) ==
    /\ adding = 0
    /\ messages < MaxMessages /\ messages' = messages + 1
    /\ state # "idle"
    /\ message_queue' = Append(message_queue,
                               IF state = "start" THEN offset ELSE process_samples + offset)
    /\ UNCHANGED <<state, clocks, capacity, message_prio_queue, sent, blocks, streams>>

\* Source::process: the stream is stopped.
process_stop ==
    /\ adding = 0
    /\ state = "stop"
    /\ state' = "idle"
    /\ UNCHANGED <<clocks, capacity, queues, bounds>>

\* Source::process: make_new_stream, unless the lock is taken.  The queue of new
\* messages is kept.
make_new_stream ==
    /\ adding = 0 /\ taken = 0
    /\ state = "start"
    /\ state' = "run"
    /\ process_samples' = 0 /\ stream_samples' = 0
    /\ resampler' = 0 /\ audio_queue' = 0 /\ xruns' = 0 /\ lost' = 0
    /\ message_prio_queue' = <<>>
    /\ UNCHANGED <<adding, taken, capacity, message_queue, sent, bounds>>

Tick == adding = 0 /\ blocks < MaxBlocks /\ blocks' = blocks + 1

\* dynamic_resampler::write: the buffer has room for 2.5 blocks of the stream and keeps
\* one sample free.
Fits(n) == (5 * Group * Block) \div 2 - n * Block - 1 >= Block

Least(m, n) == IF m <= n THEN m ELSE n

\* drain_resampler: the blocks of the stream that go from the resampler to the queue.
Drained(n) == Least(n \div Group, capacity - audio_queue)

\* Source::process: a block of audio.  If the resampler has no room it is drained first.
process ==
    LET first == IF Fits(resampler) THEN 0 ELSE Drained(resampler)
        now   == resampler - Group * first + 1
        room  == capacity - audio_queue - first
        then  == Least(now \div Group, room)
    IN  /\ state = "run"
        /\ Tick
        /\ IF Group = 1 THEN audio_queue < capacity ELSE Fits(resampler) \/ first > 0
        /\ process_samples' = process_samples + Block
        /\ audio_queue' = audio_queue + first + then
        /\ resampler' = now - Group * then
        /\ UNCHANGED <<state, stream_samples, xruns, adding, taken, lost, capacity, queues,
                       messages, streams>>

\* Source::add_xrun, first half: the dropped block is added to xrunblocks_ (a CAS loop).
AddXrun == xruns' = xruns + 1 /\ adding' = Block

\* Source::process: the queue is full.  The samples have been counted already when
\* add_xrun is called.
process_overflow ==
    /\ state = "run"
    /\ Tick
    /\ IF Group = 1 THEN audio_queue = capacity ELSE ~Fits(resampler) /\ Drained(resampler) = 0
    /\ process_samples' = process_samples + Block
    /\ AddXrun
    /\ UNCHANGED <<state, stream_samples, resampler, audio_queue, taken, lost, capacity, queues,
                   messages, streams>>

\* Source::process: the lock is taken (state is "run"); Source::handle_xrun, in any state.
process_blocked ==
    /\ Tick
    /\ AddXrun
    /\ UNCHANGED <<state, process_samples, stream_samples, resampler, audio_queue, taken, lost,
                   capacity, queues, messages, streams>>

\* Source::add_xrun, second half: "advance process samples".
add_xrun ==
    /\ adding # 0
    /\ process_samples' = process_samples + adding
    /\ adding' = 0
    /\ UNCHANGED <<state, stream_samples, resampler, audio_queue, xruns, taken, lost, capacity,
                   queues, bounds>>

-----------------------------------------------------------------------------
(* The user: the audio that waits is thrown away, and neither clock touched.  *)

ResetQueue ==
    /\ taken = 0
    /\ resampler' = 0 /\ audio_queue' = 0
    /\ lost' = lost + resampler + Group * audio_queue
    /\ UNCHANGED <<state, process_samples, stream_samples, xruns, adding, taken, queues, bounds>>

\* kAooCtlReset
reset == ResetQueue /\ UNCHANGED capacity

\* kAooCtlSetBufferSize: update_audio_queue
setBufferSize(n) == n # capacity /\ capacity' = n /\ ResetQueue

-----------------------------------------------------------------------------
(* The send thread.                                                          *)

\* Source::send_xruns: the dropped blocks are taken, under the lock.
send_xruns_take ==
    /\ taken = 0 /\ xruns > 0
    /\ taken' = xruns /\ xruns' = 0
    /\ UNCHANGED <<state, process_samples, stream_samples, resampler, audio_queue, adding, lost,
                   capacity, queues, bounds>>

\* Source::send_xruns: n empty blocks of the stream are sent for them; what is left
\* over is added back.
SendXruns(n) ==
    /\ taken # 0
    /\ stream_samples' = stream_samples + n * Group * Block
    /\ xruns' = xruns + taken - n * Group
    /\ taken' = 0
    /\ UNCHANGED <<state, process_samples, resampler, audio_queue, adding, lost, capacity,
                   queues, bounds>>

\* Mutant: XRUN_CEIL.
send_xruns_ceil == SendXruns((taken + Group - 1) \div Group)

\* XRUN_FLOOR
send_xruns == SendXruns(taken \div Group)

\* stream_message_comp: the message with the lowest time comes first.
Scheduled(new) == SortSeq(message_prio_queue \o new, <)

\* Source::send_data: one block.  Messages that are outdated when they leave message_queue_
\* are skipped; scheduled ones go out when their block has come.
send_data ==
    LET deadline  == stream_samples + Group * Block
        Due(t)    == t < deadline
        scheduled == Scheduled(SelectSeq(message_queue, LAMBDA t : t >= stream_samples))
    IN  /\ taken = 0 /\ audio_queue > 0
        /\ message_queue' = <<>>
        /\ message_prio_queue' = SelectSeq(scheduled, LAMBDA t : ~Due(t))
        /\ sent' = [i \in DOMAIN SelectSeq(scheduled, Due) |->
                        SelectSeq(scheduled, Due)[i] - stream_samples]
        /\ stream_samples' = deadline
        /\ audio_queue' = audio_queue - 1
        /\ UNCHANGED <<state, process_samples, resampler, xruns, adding, taken, lost, capacity,
                       bounds>>

Next ==
    \/ startStream \/ stopStream \/ reset
    \/ \E n \in QueueSizes : setBufferSize(n)
    \/ \E offset \in 0 .. MaxOffset : addStreamMessage(offset)
    \/ process_stop \/ make_new_stream \/ process \/ process_overflow \/ process_blocked
    \/ add_xrun \/ send_xruns_take \/ send_xruns \/ send_data

Spec == Init /\ [][Next]_vars

-----------------------------------------------------------------------------
\* Samples of blocks that the audio thread has let go and the send thread has not sent:
\* in the queue or in the resampler, and dropped and not yet made up for.
Queued == Block * (Group * audio_queue + resampler)
Owed == Block * (xruns + taken)

\* "we always use the XRUN_FLOOR method to prevent stream_samples_ from running ahead of
\* process_samples_" (source.cpp:1931): when all audio that is queued has been sent, with
\* the empty blocks that are owed or without them, the clock of the stream is not ahead of
\* the clock of process.  So the message for the next block is never outdated when it is
\* added, however overflows, blocked calls, reported xruns, resets and the blocks of both
\* sizes interleave.  (The audio thread counts the samples of a dropped block after the
\* block itself; until then the clock lags by adding.)
NeverAhead ==
    /\ stream_samples + Queued <= process_samples + adding
    /\ stream_samples + Queued + Owed <= process_samples + adding

\* "advance process samples, so we don't break stream timestamp" (source.cpp:1423): the
\* two clocks differ by exactly the blocks that wait, and by those a reset threw away.
StreamTime == stream_samples + Queued + Owed + Block * lost = process_samples + adding
=============================================================================
