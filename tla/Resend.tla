------------------------------- MODULE Resend -------------------------------
(***************************************************************************)
(* How a sink asks for missing data (aoo/src/sink.cpp).  The audio thread     *)
(* looks through the jitter buffer for blocks that are not complete            *)
(* (source_desc::check_missing_blocks) and queues requests: one for a whole    *)
(* block, or one for every group of frames with a bit for each missing frame.  *)
(* The send thread packs the queue into messages, in the binary or the OSC     *)
(* format (send_data_requests).                                              *)
(*                                                                           *)
(* The jitter buffer itself is the subject of JitterBuffer; here it is a        *)
(* window of blocks in a ring of slots.  A slot keeps the time of its last      *)
(* request when it is filled with another block.                             *)
(***************************************************************************)
EXTENDS Integers, Sequences, SequencesExt, FiniteSets

CONSTANTS Capacity,     \* slots of the jitter buffer
          NumFrames,    \* frames of a block
          Width,        \* bits of a request, 16 in the code
          MaxRequests,  \* requests that fit in a message (maxrequests)
          Interval,     \* kAooCtlSetResendInterval
          Limit,        \* kAooCtlSetResendLimit
          Profiles,     \* "none", or the profile of a low-latency stream
          RoundTrips,   \* round_trip_p95_, in blocks
          Margin,       \* blocks to spare with the wireless profile, 2 in the code
          MaxBlocks,    \* bound: blocks of the stream
          MaxPackets,   \* bound: packets that arrive
          MaxTime       \* bound: time

Frames == 0 .. NumFrames - 1
Whole == -1     \* the offset, or the frame, that stands for a whole block

VARIABLES profile, binary,
          now,        \* elapsed_time()
          first, size,\* the blocks first .. first + size - 1 are in the buffer
          slots,      \* [frames, received, timestamp]; received is -1 for a placeholder
          requests,   \* data_requests_: sequence of [sequence, offset, bits]
          wanted,     \* history: <<block, frame>> found missing and not yet asked for
          told,       \* history: the difference between what the last messages ask for and
                      \* what was wanted when they were sent
          packets,
          asked       \* history: the time of the last request for a block, 0 for none

vars == <<profile, binary, now, first, size, slots, requests, wanted, told, packets, asked>>

Init ==
    /\ profile \in Profiles /\ binary \in BOOLEAN
    /\ now = 0 /\ first = 1 /\ size = 0
    /\ slots = [k \in 0 .. Capacity - 1 |-> [frames |-> {}, received |-> 0, timestamp |-> 0]]
    /\ requests = <<>> /\ wanted = {} /\ told = {} /\ packets = 0
    /\ asked = [m \in 1 .. MaxBlocks |-> 0]

Slot(m) == m % Capacity
Block(m) == slots[Slot(m)]
complete(m) == Block(m).received = NumFrames

-----------------------------------------------------------------------------
(* Blocks come and go.                                                       *)

\* received_block::init(seq) and init(packet): only the first forgets the last request.
placeholder(b) == [frames |-> {}, received |-> -1, timestamp |-> 0]

init_anew(b) == [frames |-> {}, received |-> 0, timestamp |-> 0]
init(b) == [b EXCEPT !.frames = {}, !.received = 0]

add_frame(b, f) == [b EXCEPT !.frames = @ \cup {f}, !.received = @ + 1]

\* A frame of block m: the block is new, with placeholders for those before it, or it takes
\* the place of its placeholder, or it has other frames already.
receive(m, f) ==
    /\ packets < MaxPackets /\ packets' = packets + 1
    /\ m >= first /\ m < first + Capacity
    /\ m < first + size => f \notin Block(m).frames
    /\ LET last == first + size - 1
           b == IF m > last \/ Block(m).received < 0 THEN init(Block(m)) ELSE Block(m)
       IN  /\ slots' = [k \in DOMAIN slots |->
                IF k = Slot(m) THEN add_frame(b, f)
                ELSE IF \E i \in last + 1 .. m - 1 : k = Slot(i) THEN placeholder(slots[k])
                ELSE slots[k]]
           /\ size' = IF m > last THEN m - first + 1 ELSE size
    /\ UNCHANGED <<profile, binary, now, first, requests, wanted, told, asked>>

\* The oldest block is played, or skipped.
pop ==
    /\ size > 0 /\ size' = size - 1 /\ first' = first + 1
    /\ slots' = [slots EXCEPT ![Slot(first)] = [@ EXCEPT !.frames = {}, !.received = 0]]
    /\ UNCHANGED <<profile, binary, now, requests, wanted, told, packets, asked>>

-----------------------------------------------------------------------------
(* The audio thread.                                                         *)

\* received_block::update(): is it time to ask again?
update(b) == ~(b.timestamp > 0 /\ now' - b.timestamp < Interval)

\* With the wireless profile an answer must be able to come in time.
InTime(m, rtt) ==
    profile = "wireless" => rtt > 0 /\ m - first + 1 > rtt + Margin

\* The requests for a block: all of it, or the missing frames of each group.
Missing(m) == IF Block(m).received > 0 THEN Frames \ Block(m).frames ELSE {Whole}

Groups == {o \in Frames : o % Width = 0}

Request(m, o) ==
    [sequence |-> m, offset |-> o,
     bits |-> {i \in 0 .. Width - 1 : o + i \in Frames \ Block(m).frames}]

push_data_requests(m) ==
    IF Block(m).received > 0
    THEN LET all == [i \in 1 .. Cardinality(Groups) |-> Request(m, (i - 1) * Width)]
         IN  SelectSeq(all, LAMBDA r : r.bits # {})
    ELSE <<[sequence |-> m, offset |-> Whole, bits |-> {}]>>

\* check_missing_blocks(): the oldest blocks that are due, up to the limit; never the last.
Due(rtt) ==
    {m \in first .. first + size - 2 : ~complete(m) /\ InTime(m, rtt) /\ update(Block(m))}

Chosen(rtt) == {m \in Due(rtt) : Cardinality({k \in Due(rtt) : k < m}) < Limit}

check_missing_blocks(rtt) ==
    LET C == IF profile = "wired" THEN {} ELSE Chosen(rtt)
        order == SetToSortSeq(C, <)
    IN  /\ slots' = [k \in DOMAIN slots |->
            IF \E m \in C : k = Slot(m) THEN [slots[k] EXCEPT !.timestamp = now'] ELSE slots[k]]
        /\ requests' = requests \o FlattenSeq([i \in DOMAIN order |-> push_data_requests(order[i])])
        /\ wanted' = wanted \cup UNION {{<<m, f>> : f \in Missing(m)} : m \in C}
        /\ asked' = [m \in DOMAIN asked |-> IF m \in C THEN now' ELSE asked[m]]

process(rtt) ==
    /\ now < MaxTime /\ now' = now + 1
    /\ check_missing_blocks(rtt)
    /\ UNCHANGED <<profile, binary, first, size, told, packets>>

-----------------------------------------------------------------------------
(* The send thread.                                                          *)

\* What goes into messages: in the binary format a request as it is, in the OSC format a
\* pair for every frame.
Entries(r) ==
    IF binary \/ r.offset = Whole THEN <<r>>
    ELSE LET bits == SetToSortSeq(r.bits, <)
         IN  [i \in DOMAIN bits |-> [r EXCEPT !.bits = {bits[i]}]]

\* A message is sent when it is full; the last one when it has anything.
Pack_unsent(s) ==
    [n \in 1 .. (Len(s) \div MaxRequests) |->
        SubSeq(s, (n - 1) * MaxRequests + 1, n * MaxRequests)]
Pack(s) ==
    [n \in 1 .. ((Len(s) + MaxRequests - 1) \div MaxRequests) |->
        SubSeq(s, (n - 1) * MaxRequests + 1,
               IF n * MaxRequests <= Len(s) THEN n * MaxRequests ELSE Len(s))]

\* The frames the source reads from an entry.
Asks(r) ==
    IF r.offset = Whole THEN {<<r.sequence, Whole>>}
    ELSE {<<r.sequence, r.offset + i>> : i \in r.bits}

send_data_requests ==
    /\ requests # <<>> /\ requests' = <<>>
    /\ LET messages == Pack(FlattenSeq([i \in DOMAIN requests |-> Entries(requests[i])]))
           asks == UNION {UNION {Asks(e) : e \in ToSet(messages[n])} : n \in DOMAIN messages}
       IN  told' = (asks \ wanted) \cup (wanted \ asks)
    /\ wanted' = {}
    /\ UNCHANGED <<profile, binary, now, first, size, slots, packets, asked>>

Next ==
    \/ \E m \in 1 .. MaxBlocks, f \in Frames : receive(m, f)
    \/ pop
    \/ \E rtt \in RoundTrips : process(rtt)
    \/ send_data_requests

Spec == Init /\ [][Next]_vars

-----------------------------------------------------------------------------
(* The messages of send_data_requests() ask for the frames check_missing_blocks() found *)
(* missing, and no others: nothing is lost or invented between the bit sets, the queue   *)
(* and the messages, in either format and however the requests fall into messages.       *)
AsksForMissing == told = {}

(* Two requests for the same block are at least the resend interval apart, also when the *)
(* first packet of the block takes the place of its placeholder in between, and though   *)
(* slots are shared with blocks that came before.  (received_block::update() takes a     *)
(* request at time 0, the first call of process(), for none.)                            *)
Spaced ==
    \A m \in DOMAIN asked :
        asked[m] > 0 /\ asked'[m] # asked[m] => asked'[m] - asked[m] >= Interval

(* The property of the steps above, for all of them. *)
RequestsSpaced == [][Spaced]_vars
=============================================================================
