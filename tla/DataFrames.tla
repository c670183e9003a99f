----------------------------- MODULE DataFrames -----------------------------
(***************************************************************************)
(* The memory of received data (aoo/src/data_frame.cpp) and its users in   *)
(* sink.cpp.  The network thread takes a frame from the allocator for every*)
(* packet and puts it into the packet queue; the audio thread moves it into*)
(* the storage of its block or gives it back, and gives back all frames of *)
(* a block with the block.  The free list of a bin is a lock-free stack    *)
(* without tags: one thread pops, the other pushes.  The link of a frame is*)
(* used by the free list and by the storage in turn.  Bins do not share    *)
(* anything: there is one.                                                 *)
(***************************************************************************)
EXTENDS Integers, Sequences, SequencesExt, FiniteSets

CONSTANTS
    Frames,       \* pieces of memory
    Null,
    SmallLimit,   \* small_frame_limit: more frames are kept in a list
    BitsetSize,   \* frame_limit: the length of the bitset of a list
    Counts,       \* possible numbers of frames in a block
    Slots,        \* the capacity of the jitter buffer
    MaxBlocks,    \* bound: blocks of the stream
    MaxPackets    \* bound: packets received

VARIABLES
    live,         \* frames obtained from the system
    bin,          \* bins_[index]: the top of the free list
    next,         \* header.next
    index,        \* header.frame_index
    queue,        \* packet_queue_
    num,          \* the number of frames of every block, as the source says
    store,        \* the storage in every slot
    base,         \* blocks popped so far
    net,          \* the network thread
    audio,        \* the audio thread
    added,        \* per slot, the frames accepted for the block
    packets

vars == <<live, bin, next, index, queue, num, store, base, net, audio, added, packets>>

Slot(b) == b % Slots

\* The frames linked to f, at most as many as there are.
Chain(f) ==
    LET chain[n \in 0 .. Cardinality(Frames)] ==
            IF n = 0 THEN IF f = Null THEN <<>> ELSE <<f>>
            ELSE LET c == chain[n - 1]
                 IN IF Len(c) < n \/ next[c[n]] = Null THEN c ELSE Append(c, next[c[n]])
    IN chain[Cardinality(Frames)]

Empty == [size |-> 0, head |-> Null, tail |-> Null, bits |-> {},
          vec |-> [i \in 0 .. SmallLimit - 1 |-> Null]]

Idle == [pc |-> "idle", frame |-> Null, link |-> Null, block |-> 0, index |-> 0]
Resting == [pc |-> "idle", frame |-> Null, cursor |-> Null, todo |-> <<>>]

-----------------------------------------------------------------------------
(* The network thread: source_desc::handle_data() and allocate() *)

Queued(f, b, i) == Append(queue, [frame |-> f, block |-> b, index |-> i])

\* The top of the free list is loaded; when there is none a frame is obtained
\* from the system, filled and queued.
handle_data(b, i) ==
    /\ net.pc = "idle"
    /\ packets < MaxPackets
    /\ packets' = packets + 1
    /\ IF bin = Null
       THEN LET f == CHOOSE f \in Frames \ live : TRUE
            IN /\ live # Frames
               /\ live' = live \union {f}
               /\ next' = [next EXCEPT ![f] = Null]
               /\ index' = [index EXCEPT ![f] = 0]
               /\ queue' = Queued(f, b, i)
               /\ UNCHANGED net
       ELSE /\ net' = [pc |-> "cas", frame |-> bin, link |-> next[bin], block |-> b, index |-> i]
            /\ UNCHANGED <<live, next, index, queue>>
    /\ UNCHANGED <<bin, num, store, base, audio, added>>

\* compare_exchange_weak(frame, frame->next), which may fail for no reason; when
\* it succeeds the frame is filled and queued.
allocate_cas ==
    /\ net.pc = "cas"
    /\ \/ /\ bin = net.frame
          /\ bin' = net.link
          /\ queue' = Queued(net.frame, net.block, net.index)
          /\ net' = Idle
       \/ /\ net' = [net EXCEPT !.frame = bin, !.link = next[bin]]
          /\ UNCHANGED <<bin, queue>>
    /\ UNCHANGED <<live, next, index, num, store, base, audio, added, packets>>

-----------------------------------------------------------------------------
(* The storage of a block *)

has_frame(s, i) ==
    IF s.size > SmallLimit
    THEN IF i < BitsetSize THEN i \in s.bits
         ELSE \E k \in 1 .. Len(Chain(s.head)) : index[Chain(s.head)[k]] = i
    ELSE s.vec[i] # Null

\* The frame after which frame i is inserted, Null for the front of the list.
Before(s, i) ==
    IF s.tail # Null /\ i > index[s.tail] THEN s.tail
    ELSE LET lower == SelectSeq(Chain(s.head), LAMBDA f : index[f] < i)
         IN IF lower = <<>> THEN Null ELSE Last(lower)

\* add_frame(): the links after frame f has become frame i of the block ...
Linked(s, i, f) ==
    IF s.size <= SmallLimit THEN next
    ELSE IF Before(s, i) = Null THEN [next EXCEPT ![f] = s.head]
    ELSE [next EXCEPT ![f] = next[Before(s, i)], ![Before(s, i)] = f]

\* A plausible bug: a frame that is inserted always becomes the tail.
Stored_tail(s, i, f) ==
    IF s.size <= SmallLimit THEN [s EXCEPT !.vec[i] = f]
    ELSE [s EXCEPT
            !.head = IF Before(s, i) = Null THEN f ELSE s.head,
            !.tail = f,
            !.bits = IF i < BitsetSize THEN @ \union {i} ELSE @]

\* ... and the storage.
Stored(s, i, f) ==
    IF s.size <= SmallLimit THEN [s EXCEPT !.vec[i] = f]
    ELSE [s EXCEPT
            !.head = IF Before(s, i) = Null THEN f ELSE s.head,
            !.tail = IF Linked(s, i, f)[f] = Null THEN f ELSE s.tail,
            !.bits = IF i < BitsetSize THEN @ \union {i} ELSE @]

-----------------------------------------------------------------------------
(* The audio thread: source_desc::process() *)

\* The thread gives back frames as long as there are any.
Onward(a) == IF a.cursor = Null /\ a.todo = <<>> THEN Resting
             ELSE [a EXCEPT !.pc = "take", !.frame = Null]

\* A frame of a block that is gone, that does not fit or that has come twice is
\* given back (which block fits is the matter of module JitterBuffer).
Rejected(p) ==
    \/ p.block <= base
    \/ p.block > base + Slots
    \/ store[Slot(p.block)].size > 0 /\ has_frame(store[Slot(p.block)], p.index)

add_packet ==
    /\ audio.pc = "idle"
    /\ queue # <<>>
    /\ queue' = Tail(queue)
    /\ LET p == Head(queue)
           k == Slot(p.block)
           s == IF store[k].size = 0 THEN [Empty EXCEPT !.size = num[p.block]] ELSE store[k]
       IN IF Rejected(p)
          THEN /\ audio' = Onward([Resting EXCEPT !.todo = <<p.frame>>])
               /\ UNCHANGED <<next, index, store, added>>
          ELSE /\ index' = [index EXCEPT ![p.frame] = p.index]
               /\ next' = Linked(s, p.index, p.frame)
               /\ store' = [store EXCEPT ![k] = Stored(s, p.index, p.frame)]
               /\ added' = [added EXCEPT ![k] = @ \union {p.index}]
               /\ UNCHANGED audio
    /\ UNCHANGED <<live, bin, num, base, net, packets>>

\* jitter_buffer::pop(), after the block was decoded or dropped: clear() walks
\* the list or the array.
pop ==
    /\ audio.pc = "idle"
    /\ base < MaxBlocks
    /\ base' = base + 1
    /\ LET s == store[Slot(base + 1)]
       IN /\ audio' = Onward(IF s.size > SmallLimit
                             THEN [Resting EXCEPT !.cursor = s.head]
                             ELSE [Resting EXCEPT
                                    !.todo = SelectSeq([i \in 1 .. SmallLimit |-> s.vec[i - 1]],
                                                       LAMBDA f : f # Null)])
          /\ store' = [store EXCEPT ![Slot(base + 1)] = Empty]
          /\ added' = [added EXCEPT ![Slot(base + 1)] = {}]
    /\ UNCHANGED <<live, bin, next, index, queue, num, net, packets>>

\* deallocate() of the next frame: its link has been read before it is linked to
\* the top of the free list ...
deallocate_load ==
    /\ audio.pc = "take"
    /\ \/ /\ audio.cursor # Null
          /\ audio' = [audio EXCEPT !.pc = "cas", !.frame = audio.cursor, !.cursor = next[@]]
          /\ next' = [next EXCEPT ![audio.cursor] = bin]
       \/ /\ audio.todo # <<>>
          /\ audio' = [audio EXCEPT !.pc = "cas", !.frame = Head(audio.todo), !.todo = Tail(@)]
          /\ next' = [next EXCEPT ![Head(audio.todo)] = bin]
    /\ UNCHANGED <<live, bin, index, queue, num, store, base, net, added, packets>>

\* A plausible bug: the top is set without a look whether it has changed.
deallocate_cas_blind ==
    /\ audio.pc = "cas"
    /\ bin' = audio.frame
    /\ audio' = Onward(audio)
    /\ UNCHANGED <<live, next, index, queue, num, store, base, net, added, packets>>

\* ... and becomes the top with compare_exchange_weak(frame->next, frame).
deallocate_cas ==
    /\ audio.pc = "cas"
    /\ \/ /\ bin = next[audio.frame]
          /\ bin' = audio.frame
          /\ audio' = Onward(audio)
          /\ UNCHANGED next
       \/ /\ next' = [next EXCEPT ![audio.frame] = bin]
          /\ UNCHANGED <<bin, audio>>
    /\ UNCHANGED <<live, index, queue, num, store, base, net, added, packets>>

-----------------------------------------------------------------------------
(* source_desc::update() and handle_start(), which lock out both threads:  *)
(* the jitter buffer is reset, the queue flushed and the memory released.  *)

FreeFrames == ToSet(Chain(bin))
QueuedFrames == {queue[i].frame : i \in DOMAIN queue}
FramesOf(k) == (ToSet(Chain(store[k].head)) \union
                {store[k].vec[i] : i \in DOMAIN store[k].vec}) \ {Null}

release_memory ==
    /\ net.pc = "idle" /\ audio.pc = "idle"
    /\ live' = live \ (FreeFrames \union QueuedFrames \union
                       UNION {FramesOf(k) : k \in 0 .. Slots - 1})
    /\ bin' = Null
    /\ queue' = <<>>
    /\ store' = [k \in 0 .. Slots - 1 |-> Empty]
    /\ added' = [k \in 0 .. Slots - 1 |-> {}]
    /\ UNCHANGED <<next, index, num, base, net, audio, packets>>

-----------------------------------------------------------------------------
Init ==
    /\ live = {} /\ bin = Null
    /\ next = [f \in Frames |-> Null]
    /\ index = [f \in Frames |-> 0]
    /\ queue = <<>>
    /\ num \in [1 .. MaxBlocks -> Counts]
    /\ store = [k \in 0 .. Slots - 1 |-> Empty]
    /\ base = 0
    /\ net = Idle /\ audio = Resting
    /\ added = [k \in 0 .. Slots - 1 |-> {}]
    /\ packets = 0

Next ==
    \/ \E b \in 1 .. MaxBlocks : \E i \in 0 .. num[b] - 1 : handle_data(b, i)
    \/ allocate_cas
    \/ add_packet \/ pop \/ deallocate_load \/ deallocate_cas
    \/ release_memory

Spec == Init /\ [][Next]_vars

-----------------------------------------------------------------------------
AudioFrames ==
    ToSet(Chain(audio.cursor)) \union ToSet(audio.todo) \union
    (IF audio.pc = "cas" THEN {audio.frame} ELSE {})

Owners == <<FreeFrames, QueuedFrames, AudioFrames>> \o
          [k \in 1 .. Slots |-> FramesOf(k - 1)]

\* Every frame obtained from the system is in exactly one place (the free list,
\* the hands of the audio thread, the packet queue or the storage of a block), so that
\* release_memory() leaks nothing ("leaked ... frames") and no frame is freed or
\* handed out twice, although allocate() and deallocate() run in two threads.
FramesOwned ==
    /\ UNION Range(Owners) = live
    /\ \A i, j \in DOMAIN Owners : i # j => Owners[i] \intersect Owners[j] = {}
    /\ Cardinality(QueuedFrames) = Len(queue)

\* The storage of a block holds the frames that were accepted, each once and in
\* order whatever the order they came in: has_frame() answers for exactly these,
\* and copy_frames() finds frame 0, 1, ... one after the other.
FramesInOrder ==
    \A k \in 0 .. Slots - 1 :
        LET s == store[k]
            chain == Chain(s.head)
        IN s.size > 0 =>
            /\ \A i \in 0 .. s.size - 1 : has_frame(s, i) <=> i \in added[k]
            /\ s.size > SmallLimit =>
                /\ \A i, j \in DOMAIN chain : i < j => index[chain[i]] < index[chain[j]]
                /\ {index[chain[i]] : i \in DOMAIN chain} = added[k]
                /\ s.tail = IF chain = <<>> THEN Null ELSE Last(chain)

\* The memory of received data is sound: every frame has one owner and every
\* block its frames.
FramesSound == FramesOwned /\ FramesInOrder
=============================================================================
