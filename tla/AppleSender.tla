---------------------------- MODULE AppleSender ----------------------------
(* The sender of the Apple bridge (AOOAppleBridge.cpp).  The audio callback  *)
(* cuts its frames into blocks and puts them into a queue without locks; if  *)
(* the queue is full it leaves a gap in a second queue.  The process thread  *)
(* merges the two and hands the blocks to the AOO source.  A control thread  *)
(* sets the destination, starts and stops the stream and the process thread. *)
(*                                                                           *)
(* A frame is its sample position.  An atomic variable is read or written in *)
(* a step of its own wherever another thread can come in between.            *)
EXTENDS Integers, Sequences

CONSTANTS
    BlockFrames,        \* streamBlockSize
    Capacity,           \* size of processQueue
    GapCapacity,        \* kSenderGapQueueCapacity
    CallSizes,          \* frames of an audio callback
    MaxFrames,          \* bound: frames of all callbacks
    MaxCalls            \* bound: calls of the control thread

VARIABLES
    enabled, hasDestination, streaming, streamGeneration,
    running, shouldRun,                         \* processThread, processThreadShouldRun
    queue, writeIndex, readIndex,               \* processQueue
    gapQueue, gapWriteIndex, gapReadIndex,      \* processGapQueue
    pending,                                    \* the block that is being filled
    audio, thread,                              \* the audio callback, the process thread
    todo, calls,                                \* rest of the call of the control thread
    position,                                   \* frames captured so far
    processed,                                  \* history: blocks handed over in this generation
    skipped                                     \* history: frames of callbacks that kept nothing

vars == <<enabled, hasDestination, streaming, streamGeneration, running, shouldRun,
          queue, writeIndex, readIndex, gapQueue, gapWriteIndex, gapReadIndex,
          pending, audio, thread, todo, calls, position, processed,
          skipped>>

control == <<enabled, hasDestination, streaming, running, shouldRun, todo, calls>>
queues == <<queue, writeIndex, gapQueue, gapWriteIndex>>
consumed == <<readIndex, gapReadIndex>>

Empty == [position |-> 0, generation |-> 0, frames |-> <<>>]

Idle == [pc |-> "idle", generation |-> 0, left |-> 0]
Waiting == [pc |-> "timing", read |-> 0, write |-> 0, gap |-> FALSE, block |-> Empty]

Init ==
    /\ enabled = FALSE /\ hasDestination = FALSE /\ streaming = FALSE
    /\ running = FALSE /\ shouldRun = FALSE
    /\ streamGeneration = 0
    /\ queue = [i \in 0 .. Capacity - 1 |-> Empty]
    /\ gapQueue = [i \in 0 .. GapCapacity - 1 |-> Empty]
    /\ writeIndex = 0 /\ readIndex = 0 /\ gapWriteIndex = 0 /\ gapReadIndex = 0
    /\ pending = Empty
    /\ audio = Idle /\ thread = Waiting
    /\ todo = <<>> /\ calls = 0
    /\ position = 0
    /\ processed = <<>> /\ skipped = {}

-----------------------------------------------------------------------------
(* The audio callback *)

AudioStep(from, to) == audio.pc = from /\ audio' = [audio EXCEPT !.pc = to]

\* AOOAppleSenderProcessPlanarAtTime, ...ProcessSilenceAtTime: nothing is kept
\* unless enabled; the sample position goes on (AOOSender.processPlanar)
Process(n) ==
    /\ audio.pc = "idle"
    /\ position + n <= MaxFrames
    /\ position' = position + n
    /\ IF enabled
       THEN /\ audio' = [Idle EXCEPT !.pc = "destination", !.left = n]
            /\ UNCHANGED skipped
       ELSE /\ skipped' = skipped \union (position .. position + n - 1)
            /\ UNCHANGED audio
    /\ UNCHANGED <<control, queues, consumed, streamGeneration, pending, thread, processed>>

ReadDestination ==
    /\ AudioStep("destination", IF hasDestination THEN "generation" ELSE "idle")
    /\ skipped' = IF hasDestination THEN skipped
                  ELSE skipped \union (position - audio.left .. position - 1)
    /\ UNCHANGED <<control, queues, consumed, streamGeneration, pending, thread, position, processed>>

ReadGeneration ==
    /\ audio.pc = "generation"
    /\ audio' = [audio EXCEPT !.pc = "fill", !.generation = streamGeneration]
    /\ UNCHANGED <<control, queues, consumed, streamGeneration, pending, thread, position, processed, skipped>>

\* Mutant: a block begins where the callback ends
Pending_late ==
    IF pending.frames = <<>> \/ pending.generation # audio.generation
    THEN [position |-> position, generation |-> audio.generation, frames |-> <<>>]
    ELSE pending

\* Frames are added to the pending block; what is left of another generation
\* is thrown away first.
Pending ==
    LET at == position - audio.left IN
    IF pending.frames = <<>> \/ pending.generation # audio.generation
    THEN [position |-> at, generation |-> audio.generation, frames |-> <<>>]
    ELSE pending

Fill ==
    LET p == Pending
        at == position - audio.left
        room == BlockFrames - Len(p.frames)
        n == IF audio.left < room THEN audio.left ELSE room
    IN
    /\ audio.pc = "fill"
    /\ pending' = [p EXCEPT !.frames = @ \o [k \in 1 .. n |-> at + k - 1]]
    /\ audio' = [audio EXCEPT !.left = @ - n, !.pc = IF n = room THEN "room" ELSE "idle"]
    /\ UNCHANGED <<control, queues, consumed, streamGeneration, thread, position, processed, skipped>>

\* room in the queue as the callback sees it
ReadRoom ==
    /\ AudioStep("room", IF writeIndex - readIndex >= Capacity THEN "gap" ELSE "write")
    /\ UNCHANGED <<control, queues, consumed, streamGeneration, pending, thread, position, processed, skipped>>

WriteBlock ==
    /\ AudioStep("write", "publish")
    /\ queue' = [queue EXCEPT ![writeIndex % Capacity] = pending]
    /\ UNCHANGED <<control, writeIndex, gapQueue, gapWriteIndex, consumed, streamGeneration,
                   pending, thread, position, processed, skipped>>

\* the rest of the callback goes into the next block
Done == pending' = Empty /\ AudioStep(audio.pc, IF audio.left > 0 THEN "fill" ELSE "idle")

PublishBlock ==
    /\ audio.pc = "publish"
    /\ Done
    /\ writeIndex' = writeIndex + 1
    /\ UNCHANGED <<control, queue, gapQueue, gapWriteIndex, consumed, streamGeneration,
                   thread, position, processed, skipped>>

\* The queue is full: the block becomes a gap, if there is room for one
WriteGap ==
    /\ audio.pc = "gap"
    /\ \/ /\ gapWriteIndex - gapReadIndex < GapCapacity
          /\ gapQueue' = [gapQueue EXCEPT ![gapWriteIndex % GapCapacity] =
                             [pending EXCEPT !.frames = <<>>]]
          /\ AudioStep("gap", "publish gap")
          /\ UNCHANGED pending
       \/ /\ gapWriteIndex - gapReadIndex >= GapCapacity
          /\ Done
          /\ UNCHANGED gapQueue
    /\ UNCHANGED <<control, queue, writeIndex, gapWriteIndex, consumed, streamGeneration,
                   thread, position, processed, skipped>>

PublishGap ==
    /\ audio.pc = "publish gap"
    /\ Done
    /\ gapWriteIndex' = gapWriteIndex + 1
    /\ UNCHANGED <<control, queue, writeIndex, gapQueue, consumed, streamGeneration,
                   thread, position, processed, skipped>>

-----------------------------------------------------------------------------
(* The process thread *)

ThreadStep(from, to) == running /\ thread.pc = from /\ thread' = [thread EXCEPT !.pc = to]

ThreadOnly ==
    UNCHANGED <<control, queues, streamGeneration, pending, audio, position, skipped>>

\* Between two blocks the thread sleeps until a deadline.  It asks whether there is
\* something to process before it sleeps.
nextSenderProcessTiming ==
    /\ shouldRun
    /\ readIndex # writeIndex \/ gapReadIndex # gapWriteIndex
    /\ ThreadStep("timing", "indices")
    /\ UNCHANGED <<consumed, processed>> /\ ThreadOnly

ReadIndices ==
    /\ running /\ thread.pc = "indices"
    /\ thread' = [thread EXCEPT !.pc = "gaps", !.read = readIndex, !.write = writeIndex]
    /\ UNCHANGED <<consumed, processed>> /\ ThreadOnly

\* a gap goes first if it is older than the oldest block
ReadGaps ==
    LET hasBlock == thread.read # thread.write
        hasGap == gapReadIndex # gapWriteIndex
        block == queue[thread.read % Capacity]
        gap == gapQueue[gapReadIndex % GapCapacity]
        processGap == hasGap /\ (~hasBlock \/ gap.position < block.position)
    IN
    /\ running /\ thread.pc = "gaps"
    /\ thread' = IF hasBlock \/ hasGap
                 THEN [thread EXCEPT !.pc = "check", !.gap = processGap,
                                     !.block = IF processGap THEN gap
                                               ELSE [block EXCEPT !.frames = <<>>]]
                 ELSE Waiting
    /\ UNCHANGED <<consumed, processed>> /\ ThreadOnly

Stale == thread.block.generation # streamGeneration

Check ==
    /\ ThreadStep("check", IF ~Stale /\ enabled /\ hasDestination THEN "process" ELSE "advance")
    /\ UNCHANGED <<consumed, processed>> /\ ThreadOnly

\* AooSource_processLowLatency reads the samples of the block now
HandOver ==
    /\ ThreadStep("process", "advance")
    /\ processed' = Append(processed,
           [position |-> thread.block.position, generation |-> thread.block.generation,
            frames |-> IF thread.gap THEN <<>> ELSE queue[thread.read % Capacity].frames,
            gap |-> thread.gap])
    /\ UNCHANGED consumed /\ ThreadOnly

\* Mutant: a block that is not handed over stays in the queue
Advance_stale ==
    /\ running /\ thread.pc = "advance"
    /\ thread' = Waiting
    /\ IF thread.gap THEN gapReadIndex' = gapReadIndex + 1 /\ UNCHANGED readIndex
       ELSE /\ readIndex' = IF Stale THEN readIndex ELSE thread.read + 1
            /\ UNCHANGED gapReadIndex
    /\ UNCHANGED processed /\ ThreadOnly

Advance ==
    /\ running /\ thread.pc = "advance"
    /\ thread' = Waiting
    /\ IF thread.gap THEN gapReadIndex' = gapReadIndex + 1 /\ UNCHANGED readIndex
       ELSE readIndex' = thread.read + 1 /\ UNCHANGED gapReadIndex
    /\ UNCHANGED processed /\ ThreadOnly

-----------------------------------------------------------------------------
(* The control thread *)

Stop == <<"disable", "quit", "join", "drop blocks", "drop gaps">>
Start == <<"start stream", "drop blocks", "drop gaps", "generation", "run", "enable">>

Call(ops) ==
    /\ todo = <<>>
    /\ calls < MaxCalls
    /\ calls' = calls + 1
    /\ todo' = ops
    /\ UNCHANGED <<enabled, hasDestination, streaming, running, shouldRun, queues, consumed,
                   streamGeneration, pending, audio, thread, position, processed, skipped>>

\* the destination is resolved; a running stream is stopped and started again
SetDestination ==
    Call(IF enabled THEN Stop \o <<"stop stream", "destination">> \o Start
         ELSE <<"destination">>)

ClearDestination ==
    Call(IF enabled THEN Stop \o <<"stop stream", "no destination", "enable">>
         ELSE <<"stop stream", "no destination">>)

SetEnabled(on) ==
    /\ on # enabled
    /\ Call(IF ~on THEN Stop \o <<"stop stream">>
            ELSE IF hasDestination THEN Start ELSE <<"enable">>)

Do(op) == todo # <<>> /\ Head(todo) = op

Rest == UNCHANGED <<calls, queues, pending, audio, position, skipped>>

SetFlag ==
    /\ \/ Do("enable") /\ enabled' = TRUE /\ UNCHANGED <<hasDestination, streaming, shouldRun>>
       \/ Do("disable") /\ enabled' = FALSE /\ UNCHANGED <<hasDestination, streaming, shouldRun>>
       \/ Do("quit") /\ shouldRun' = FALSE /\ UNCHANGED <<enabled, hasDestination, streaming>>
       \/ /\ Do("no destination")
          /\ hasDestination' = FALSE
          /\ UNCHANGED <<enabled, streaming, shouldRun>>
       \/ /\ Do("stop stream")
          /\ streaming' = FALSE
          /\ UNCHANGED <<enabled, hasDestination, shouldRun>>
    /\ todo' = Tail(todo)
    /\ UNCHANGED <<running, thread, consumed, streamGeneration, processed>> /\ Rest

\* the sink of the source is replaced; if that fails, the call ends here
AddSink ==
    /\ Do("destination")
    /\ \/ hasDestination' = TRUE /\ todo' = Tail(todo)
       \/ hasDestination' = FALSE /\ todo' = <<>>
    /\ UNCHANGED <<enabled, streaming, running, shouldRun, thread, consumed,
                   streamGeneration, processed>> /\ Rest

\* so it does if the stream cannot be started
startSenderStream ==
    /\ Do("start stream")
    /\ \/ streaming' = TRUE /\ todo' = Tail(todo)
       \/ todo' = <<>> /\ UNCHANGED streaming
    /\ UNCHANGED <<enabled, hasDestination, running, shouldRun, thread, consumed,
                   streamGeneration, processed>> /\ Rest

\* the thread ends between two blocks, when it is told to
Join ==
    /\ Do("join")
    /\ ~shouldRun /\ thread.pc = "timing"
    /\ running' = FALSE
    /\ todo' = Tail(todo)
    /\ UNCHANGED <<enabled, hasDestination, streaming, shouldRun, thread, consumed,
                   streamGeneration, processed>> /\ Rest

DropBlocks ==
    /\ Do("drop blocks")
    /\ readIndex' = writeIndex
    /\ todo' = Tail(todo)
    /\ UNCHANGED <<enabled, hasDestination, streaming, running, shouldRun, thread,
                   gapReadIndex, streamGeneration, processed>> /\ Rest

DropGaps ==
    /\ Do("drop gaps")
    /\ gapReadIndex' = gapWriteIndex
    /\ todo' = Tail(todo)
    /\ UNCHANGED <<enabled, hasDestination, streaming, running, shouldRun, thread,
                   readIndex, streamGeneration, processed>> /\ Rest

NextGeneration ==
    /\ Do("generation")
    /\ streamGeneration' = streamGeneration + 1
    /\ processed' = <<>>
    /\ todo' = Tail(todo)
    /\ UNCHANGED <<enabled, hasDestination, streaming, running, shouldRun, thread, consumed>> /\ Rest

Run ==
    /\ Do("run")
    /\ running' = TRUE /\ shouldRun' = TRUE
    /\ thread' = Waiting
    /\ todo' = Tail(todo)
    /\ UNCHANGED <<enabled, hasDestination, streaming, consumed, streamGeneration, processed>> /\ Rest

-----------------------------------------------------------------------------

Audio ==
    \/ ReadDestination \/ ReadGeneration \/ Fill \/ ReadRoom
    \/ WriteBlock \/ PublishBlock \/ WriteGap \/ PublishGap

Thread ==
    \/ nextSenderProcessTiming \/ ReadIndices \/ ReadGaps \/ Check \/ HandOver \/ Advance

Control ==
    \/ SetFlag \/ AddSink \/ startSenderStream \/ Join
    \/ DropBlocks \/ DropGaps \/ NextGeneration \/ Run

Next ==
    \/ \E n \in CallSizes : Process(n)
    \/ SetDestination \/ ClearDestination \/ \E on \in BOOLEAN : SetEnabled(on)
    \/ Audio \/ Thread \/ Control

Spec == Init /\ [][Next]_vars

\* Threads make progress: the audio callback runs to its end, the process thread
\* does not sleep forever, and the control thread goes on where it need not wait.
FairSpec == Spec /\ WF_vars(Audio) /\ WF_vars(Thread) /\ WF_vars(Control)

-----------------------------------------------------------------------------

\* processNextSenderBlock: whatever start, stop and a full queue do in between, a
\* block that reaches the source was captured for the stream that runs now, comes
\* once, and consists of the frames from its sample position on; only frames of a
\* callback that found the sender disabled are missing (a gap has no frames at all);
\* and blocks reach the source only between startStream and stopStream
HandoffIntact ==
    /\ thread.pc = "process" => streaming
    /\ \A k \in 1 .. Len(processed) :
          LET b == processed[k]
              f == b.frames
          IN
          /\ b.generation = streamGeneration
          /\ ~b.gap =>
                /\ Len(f) = BlockFrames /\ f[1] = b.position
                /\ \A j \in 1 .. BlockFrames - 1 :
                      f[j] < f[j + 1] /\ f[j] + 1 .. f[j + 1] - 1 \subseteq skipped
    /\ \A j, k \in 1 .. Len(processed) :
          j # k => processed[j].position # processed[k].position

\* No block stays behind: whatever the callback has published is taken by the process
\* thread (processNextSenderBlock) or thrown away, also a block that was cut for an
\* earlier stream and came in late, and a call that waits for the thread
\* (stopSenderProcessThread) returns
BlocksTaken ==
    /\ []<>(readIndex = writeIndex \/ ~running)
    /\ []<>(todo = <<>>)

=============================================================================
