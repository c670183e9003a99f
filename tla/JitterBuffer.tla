---------------------------- MODULE JitterBuffer ----------------------------
(***************************************************************************)
(* The jitter buffer of a stream in AooSink (aoo/src/packet_buffer.cpp)    *)
(* and the audio thread that fills it from packets (source_desc::          *)
(* add_packet) and plays it (source_desc::try_decode_block).               *)
(*                                                                         *)
(* The source numbers its blocks; block m has the sequence number          *)
(* m % IntMax and, in a low-latency stream, the absolute sample position   *)
(* m (counted in blocks).  Its packets, one for each frame, may be lost,   *)
(* repeated, delayed and reordered.  The buffer is a ring of blocks with   *)
(* consecutive sequence numbers; a block that was skipped is held by a     *)
(* placeholder until its packets come or its turn to play has come.        *)
(***************************************************************************)
EXTENDS Integers, Sequences, FiniteSets

CONSTANTS
    Sizes,            \* possible sizes of the jitter buffer, in blocks
    Latencies,        \* possible values of latency_blocks_
    Profiles,         \* "none", or a low-latency profile: "wired", "wireless"
    NumFrames,        \* frames of a block that is not empty
    EmptyBlocks,      \* the blocks without data
    IntMax,           \* INT32_MAX: the sequence number wraps to 0 here
    SearchThreshold,  \* jitter_buffer::search_threshold
    MaxMissing,       \* missing blocks in a row that end low-latency playout
    None,             \* a null block
    First,            \* possible first blocks of the stream
    MaxBlocks,        \* bound on the blocks of the stream
    Window            \* bound on the delay of a packet, in blocks

ASSUME SizesAssumption ==
    /\ Sizes \subseteq Nat \ {0} /\ Latencies \subseteq Nat \ {0}
    /\ \A l \in Latencies, c \in Sizes : l <= c
ASSUME NumbersAssumption ==
    /\ NumFrames \in Nat \ {0} /\ IntMax \in Nat \ {0} /\ SearchThreshold \in Nat
    /\ MaxMissing \in Nat \ {0} /\ First \subseteq Nat /\ MaxBlocks \in Nat /\ Window \in Nat
ASSUME NoneAssumption == None \notin Nat

VARIABLES
    sent,          \* blocks the source has sent
    jb,            \* the jitter buffer
    reserved,      \* capacity() of its vector, at least its size
    profile, latency, stream_state, underrun,
    missing,       \* consecutive_missing_blocks_
    position       \* last_absolute_sample_position_, in blocks

vars == <<sent, jb, reserved, profile, latency, stream_state, underrun, missing, position>>

-----------------------------------------------------------------------------
(* received_block                                                          *)

Sentinel == -IntMax - 1     \* INT32_MIN

\* received_block::init(seq): a placeholder.
Placeholder(s) ==
    [sequence |-> s, pos |-> 0, num_frames |-> 0, frames |-> {}, received_frames |-> -1]

\* received_block::init(packet)
Block(d) ==
    [sequence |-> d.sequence, pos |-> d.pos, num_frames |-> d.num_frames, frames |-> {},
     received_frames |-> 0]

\* received_block::clear.  The sequence number stays in the code, but is not read again.
Cleared ==
    [sequence |-> Sentinel, pos |-> 0, num_frames |-> 0, frames |-> {}, received_frames |-> 0]

\* received_block::add_frame
add_frame(b, i) ==
    [b EXCEPT !.frames = @ \cup {i}, !.received_frames = @ + 1]

placeholder(b) == b.received_frames < 0

complete(b) == b.received_frames = b.num_frames

-----------------------------------------------------------------------------
(* jitter_buffer                                                           *)

\* Mutant: the ring wraps one slot too late.
SlotPast(c, i, k) == IF i + k <= c THEN i + k ELSE i + k - c

\* The place of the k-th block behind slot i, in a ring of c slots.
Slot(c, i, k) == IF i + k < c THEN i + k ELSE i + k - c

\* The number of steps from slot i to slot k.
Offset(c, i, k) == IF k >= i THEN k - i ELSE k - i + c

\* The k-th oldest block; front is At(r, 0).
At(r, k) == r.data[Slot(r.capacity, r.tail, k)]

back(r) == IF r.head = 0 THEN r.capacity - 1 ELSE r.head - 1

\* An empty ring of c slots, where block s was the last one (jitter_buffer::reset_head).
Fresh(c, s) ==
    [data |-> [k \in 0 .. c - 1 |-> Cleared], capacity |-> c, head |-> 0, tail |-> 0,
     size |-> 0, last_pushed |-> s, last_popped |-> Sentinel]

\* jitter_buffer::resize, with the reset in it
resize(c) == Fresh(c, Sentinel)

\* jitter_buffer::reset
reset(r) == resize(r.capacity)

\* Mutant: the older part of the ring is not searched once the ring has wrapped.
SearchedFront(r) ==
    IF r.head > r.tail THEN r.tail .. r.head - 1 ELSE 0 .. r.head - 1

\* The slots jitter_buffer::find looks at.
Searched(r) ==
    IF r.head > r.tail THEN r.tail .. r.head - 1
    ELSE (0 .. r.head - 1) \cup (r.tail .. r.capacity - 1)

Sorted(r, a, b) == \A i, j \in a .. b : i < j => r.data[i].sequence < r.data[j].sequence

\* jitter_buffer::find, the set of its possible results.  The binary search is exact if its
\* ranges are sorted; the second one ends at the capacity() of the vector instead of its
\* size, and what it reads there is not a block.
find(r, s) ==
    LET hits == {k \in Searched(r) : r.data[k].sequence = s}
        exact == /\ Sorted(r, r.tail, r.head - 1)
                 /\ r.head <= r.tail => /\ Sorted(r, 0, r.head - 1)
                                        /\ Sorted(r, r.tail, r.capacity - 1)
                                        /\ reserved = r.capacity
    IN IF r.size = 0 THEN {None}
       ELSE IF r.data[back(r)].sequence = s THEN {back(r)}
       ELSE IF hits = {} THEN {None}
       ELSE IF r.size < SearchThreshold \/ exact THEN hits
       ELSE hits \cup {None}

\* jitter_buffer::push, n times for a placeholder and then for block b.
push(r, n, b) ==
    [r EXCEPT !.data = [k \in 0 .. r.capacity - 1 |->
                           IF Offset(r.capacity, r.head, k) < n
                           THEN Placeholder(b.sequence - n + Offset(r.capacity, r.head, k))
                           ELSE IF Offset(r.capacity, r.head, k) = n THEN b
                           ELSE r.data[k]],
              !.head = Slot(r.capacity, r.head, n + 1),
              !.size = @ + n + 1,
              !.last_pushed = b.sequence]

\* Mutant: a slot keeps its block.
popDirty(r, n) ==
    IF n = 0 THEN r
    ELSE [r EXCEPT !.tail = Slot(r.capacity, r.tail, n), !.size = @ - n,
                   !.last_popped = At(r, n - 1).sequence]

\* jitter_buffer::pop, n times.
pop(r, n) ==
    IF n = 0 THEN r
    ELSE [r EXCEPT !.data = [k \in 0 .. r.capacity - 1 |->
                                IF Offset(r.capacity, r.tail, k) < n THEN Cleared ELSE r.data[k]],
                   !.tail = Slot(r.capacity, r.tail, n),
                   !.size = @ - n,
                   !.last_popped = At(r, n - 1).sequence]

\* Mutant: the head does not move.
advance_missing_tail(r) ==
    IF r.last_popped = Sentinel THEN r
    ELSE [r EXCEPT !.last_popped = IF @ = IntMax - 1 THEN 0 ELSE @ + 1]

\* jitter_buffer::advance_missing
advance_missing(r) ==
    LET next == IF r.last_popped = IntMax - 1 THEN 0 ELSE r.last_popped + 1 IN
    IF r.last_popped = Sentinel THEN r
    ELSE [r EXCEPT !.last_popped = next, !.last_pushed = next]

-----------------------------------------------------------------------------
Init ==
    /\ sent \in First
    /\ \E c \in Sizes :
          /\ jb = Fresh(c, (sent % IntMax) - 1)
          /\ reserved = c
    /\ profile \in Profiles /\ latency \in Latencies
    /\ stream_state = "buffering" /\ underrun = FALSE
    /\ missing = 0 /\ position = 0

\* The source sends the next block.
SendBlock ==
    /\ sent < MaxBlocks
    /\ sent' = sent + 1
    /\ UNCHANGED <<jb, reserved, profile, latency, stream_state, underrun, missing, position>>

\* Frame i of block m, if that block is still under way.
Packet(m, i) ==
    [sequence |-> m % IntMax, pos |-> m, index |-> i,
     num_frames |-> IF m \in EmptyBlocks THEN 0 ELSE NumFrames]

Arrives(m, i) ==
    /\ sent - Window <= m /\ m < sent
    /\ m \in EmptyBlocks => i = 0

\* The block of a packet with its frame.
Received(b, d) == IF d.num_frames > 0 THEN add_frame(b, d.index) ELSE b

\* add_packet for a new block: skipped blocks get a placeholder; if there is no room the
\* buffer starts over (handle_overrun).
add_block(r, d) ==
    LET b == Received(Block(d), d)
        numblocks == IF r.last_pushed = Sentinel THEN 1 ELSE d.sequence - r.last_pushed
    IN /\ d.sequence > r.last_pushed
       /\ \/ /\ numblocks <= r.capacity - r.size
             /\ jb' = push(r, numblocks - 1, b)
             /\ UNCHANGED stream_state
          \/ /\ numblocks > r.capacity - r.size
             /\ jb' = push(reset(r), 0, b)
             /\ stream_state' = "buffering"

\* Mutants: a repeated frame is counted again; a packet starts its block over.
add_to_block_again(r, k, d) ==
    LET b == r.data[k] IN
    /\ placeholder(b) \/ (b.num_frames > 0 /\ ~complete(b))
    /\ jb' = [r EXCEPT !.data[k] = Received(IF placeholder(b) THEN Block(d) ELSE b, d)]
    /\ UNCHANGED stream_state

add_to_block_over(r, k, d) ==
    LET b == r.data[k] IN
    /\ placeholder(b) \/ (b.num_frames > 0 /\ d.index \notin b.frames)
    /\ jb' = [r EXCEPT !.data[k] = Received(Block(d), d)]
    /\ UNCHANGED stream_state

\* add_packet for a block in slot k, unless it has the frame already.
add_to_block(r, k, d) ==
    LET b == r.data[k] IN
    /\ placeholder(b) \/ (b.num_frames > 0 /\ d.index \notin b.frames)
    /\ jb' = [r EXCEPT !.data[k] = Received(IF placeholder(b) THEN Block(d) ELSE b, d)]
    /\ UNCHANGED stream_state

\* Mutant: no block is too late.
ExpiredNever(m) == FALSE

\* A block that low-latency playout has passed.
Expired(m) == profile # "none" /\ m + 1 <= position

\* source_desc::add_packet.  An old packet is discarded, but one that is much too old is
\* taken for the first of the next round and empties the buffer.
add_packet(m, i) ==
    LET d == Packet(m, i)
        old == d.sequence <= jb.last_popped
        wrapped == jb.last_popped - d.sequence >= IntMax \div 2
        r == IF old THEN reset(jb) ELSE jb
    IN /\ ~underrun
       /\ Arrives(m, i)
       /\ ~Expired(m)
       /\ old => wrapped
       /\ \E k \in find(r, d.sequence) :
             IF k = None THEN add_block(r, d) ELSE add_to_block(r, k, d)
       /\ UNCHANGED <<sent, reserved, profile, latency, underrun, missing, position>>

\* source_desc::handle_underrun, when packets have come after an underrun.
handle_underrun ==
    /\ underrun
    /\ underrun' = FALSE
    /\ jb' = reset(jb)
    /\ stream_state' = "buffering"
    /\ UNCHANGED <<sent, reserved, profile, latency, missing, position>>

-----------------------------------------------------------------------------
(* source_desc::try_decode_block                                           *)

\* The complete blocks at the front of the buffer.
complete_blocks(r, from) ==
    Cardinality({k \in from .. r.size - 1 : \A i \in from .. k : complete(At(r, i))})

\* The playout position behind a block.
Behind(p, b) == IF b.pos + 1 > p THEN b.pos + 1 ELSE p

\* An incomplete block does not hold up a wired stream that has enough blocks behind it.
Stale(r, l) ==
    IF r.size > 0 /\ ~complete(At(r, 0)) /\ complete_blocks(r, 1) >= l THEN 1 ELSE 0

\* The number of complete blocks in front of the last l.
Backlog(r, l) == IF complete_blocks(r, 0) > l THEN complete_blocks(r, 0) - l ELSE 0

\* Drop n blocks.
Skip(r, p, n) ==
    [jb |-> pop(r, n), position |-> IF n = 0 THEN p ELSE Behind(p, At(r, n - 1))]

\* What a wired stream drops before it plays.
Trimmed(st, l) ==
    IF profile # "wired" THEN [jb |-> jb, position |-> position]
    ELSE LET s == IF st = "buffering" THEN Skip(jb, position, Stale(jb, l))
                  ELSE [jb |-> jb, position |-> position]
         IN IF st = "inactive" THEN s
            ELSE Skip(s.jb, s.position, Backlog(s.jb, l))

\* Buffering has not come to an end yet.
Wait(r, l) == r.size < l \/ (profile # "none" /\ complete_blocks(r, 0) < l)

\* Four missing blocks in a row: wait for a new start.
Reacquire(r) ==
    /\ jb' = reset(r)
    /\ stream_state' = "buffering"
    /\ missing' = 0

\* Mutant: the playout position stays.
play_silence_still(r, p) ==
    /\ position' = p
    /\ IF missing + 1 >= MaxMissing
       THEN Reacquire(r)
       ELSE /\ jb' = advance_missing(r)
            /\ stream_state' = "active"
            /\ missing' = missing + 1
    /\ UNCHANGED underrun

\* An empty low-latency buffer plays silence.
play_silence(r, p) ==
    /\ position' = p + 1
    /\ IF missing + 1 >= MaxMissing
       THEN Reacquire(r)
       ELSE /\ jb' = advance_missing(r)
            /\ stream_state' = "active"
            /\ missing' = missing + 1
    /\ UNCHANGED underrun

\* The oldest block is played, or silence if it is not complete.
play_block(r, p, st) ==
    LET b == At(r, 0) IN
    /\ IF profile # "none" /\ ~complete(b) /\ missing + 1 >= MaxMissing
       THEN Reacquire(r)
       ELSE /\ jb' = pop(r, 1)
            /\ stream_state' = st
            /\ missing' = IF profile = "none" THEN missing
                          ELSE IF complete(b) THEN 0 ELSE missing + 1
    /\ position' = IF profile = "none" THEN p
                   ELSE IF complete(b) THEN Behind(p, b) ELSE p + 1
    /\ UNCHANGED underrun

\* Nothing to play (on_underrun).
no_block(r, p) ==
    /\ jb' = r /\ position' = p
    /\ underrun' = TRUE
    /\ stream_state' = "inactive"
    /\ UNCHANGED missing

try_decode_block ==
    \E l \in IF profile = "none" THEN {latency} ELSE Latencies :
       LET st == IF l > latency /\ stream_state = "active" THEN "buffering" ELSE stream_state
           r == Trimmed(st, l).jb
           p == Trimmed(st, l).position
       IN /\ latency' = l
          /\ \/ /\ st = "buffering"
                /\ jb' = r /\ position' = p
                /\ stream_state' = st
                /\ UNCHANGED <<underrun, missing>>
             \/ st = "buffering" /\ no_block(jb, position)
             \/ /\ st = "buffering" => ~Wait(r, l)
                /\ r.size > 0
                /\ play_block(r, p, IF st = "buffering" THEN "active" ELSE st)
             \/ st = "active" /\ r.size = 0 /\ profile # "none" /\ play_silence(r, p)
             \/ /\ st # "buffering" /\ r.size = 0 /\ (st = "active" => profile = "none")
                /\ no_block(r, p)
          /\ UNCHANGED <<sent, reserved, profile>>

\* source_desc::update, when the user changes the latency or the size of the buffer.
update(c, l) ==
    /\ jb' = resize(c)
    /\ reserved' \in IF c <= reserved THEN {reserved} ELSE {c} \cup {x \in {2 * reserved} : x >= c}
    /\ latency' = l
    /\ stream_state' = "buffering" /\ underrun' = FALSE
    /\ UNCHANGED <<sent, profile, missing, position>>

Next ==
    \/ SendBlock
    \/ \E m \in 0 .. MaxBlocks, i \in 0 .. NumFrames - 1 : add_packet(m, i)
    \/ handle_underrun
    \/ try_decode_block
    \/ \E c \in Sizes, l \in Latencies : update(c, l)

Spec == Init /\ [][Next]_vars

-----------------------------------------------------------------------------
Blocks ==
    [sequence : 0 .. IntMax - 1 \cup {Sentinel}, pos : Nat, num_frames : {0, NumFrames},
     frames : SUBSET (0 .. NumFrames - 1), received_frames : -1 .. NumFrames]

Rings(c) ==
    [data : [0 .. c - 1 -> Blocks], capacity : {c}, head : 0 .. c - 1, tail : 0 .. c - 1,
     size : 0 .. c, last_pushed : -1 .. IntMax - 1 \cup {Sentinel},
     last_popped : 0 .. IntMax - 1 \cup {Sentinel}]

TypeOK ==
    /\ sent \in Nat
    /\ jb.capacity \in Sizes /\ jb \in Rings(jb.capacity)
    /\ reserved \in Nat /\ reserved >= jb.capacity
    /\ profile \in Profiles /\ latency \in Latencies
    /\ stream_state \in {"inactive", "buffering", "active"} /\ underrun \in BOOLEAN
    /\ missing \in 0 .. MaxMissing - 1 /\ position \in Nat

\* The blocks in the ring have consecutive sequence numbers, up to the last one pushed and
\* from the one behind the last one popped; push() asserts it: "(seq - last_pushed_) == 1".
Consecutive ==
    /\ jb.head = Slot(jb.capacity, jb.tail, jb.size)
    /\ \A k \in 0 .. jb.size - 1 : At(jb, k).sequence = jb.last_pushed - jb.size + 1 + k
    /\ jb.last_popped # Sentinel => jb.last_popped = jb.last_pushed - jb.size

\* A slot that holds no block holds no frames: received_block::init() asserts it, and
\* push() does not clear the slot.
CleanSlots ==
    \A k \in DOMAIN jb.data : Offset(jb.capacity, jb.tail, k) >= jb.size => jb.data[k] = Cleared

\* The counter of received frames agrees with the frames, however packets are repeated and
\* reordered, and all of them are frames of the block that the sequence number stands for.
\* So copy_frames() finds every frame of a complete block.
FramesCounted ==
    \A k \in 0 .. jb.size - 1 :
        LET b == At(jb, k) IN
        ~placeholder(b) => /\ b.received_frames = Cardinality(b.frames)
                           /\ b.frames \subseteq 0 .. b.num_frames - 1
                           /\ b.sequence = b.pos % IntMax
                           /\ b.num_frames = 0 <=> b.pos \in EmptyBlocks

\* find() finds every block in the buffer, in any position of the ring.
FindExact ==
    \A k \in 0 .. jb.size - 1 :
        find(jb, At(jb, k).sequence) = {Slot(jb.capacity, jb.tail, k)}

\* find() finds every block if the search is linear or the vector is exactly as large as
\* the buffer.
FindWithin ==
    jb.size < SearchThreshold \/ reserved = jb.capacity => FindExact

\* The ring is intact: the slots without a block are clean, so that the assertions of
\* received_block::init() hold when push() reuses them, the frames of the others are counted,
\* and find() finds them, wherever the ring has wrapped and however often it was resized.
RingSound == TypeOK /\ CleanSlots /\ FramesCounted /\ FindWithin

\* "Late data is not inserted behind the receiver's monotonic playout position"
\* (doc/low_latency_profiles.md): every block that is waiting is still to come.
NothingBehind ==
    profile # "none" =>
        \A k \in 0 .. jb.size - 1 : ~placeholder(At(jb, k)) => At(jb, k).pos >= position

\* Silence for missing blocks keeps the sequence number and the playout position together.
InSync ==
    profile # "none" /\ stream_state = "active" /\ sent <= IntMax =>
        position % IntMax = (jb.last_popped + 1) % IntMax

-----------------------------------------------------------------------------
(* The ring implements a queue of blocks.                                  *)

Queue(r) ==
    [k \in 1 .. r.size |-> [sequence |-> At(r, k - 1).sequence, frames |-> At(r, k - 1).frames]]

Q == INSTANCE BlockQueue WITH
        queue <- Queue(jb), capacity <- jb.capacity, newest <- jb.last_pushed,
        oldest <- jb.last_popped, Last <- IntMax - 1

\* Every operation on the ring is an operation on a queue of blocks with consecutive
\* sequence numbers: none is lost, repeated or moved when the ring wraps around, is full or
\* is resized.
ImplementsQueue == Q!Spec

=============================================================================
