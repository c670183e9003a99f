--------------------------- MODULE AppleReceiver ---------------------------
(* The receiver of the Apple bridge (AOOAppleBridge.cpp).  The event thread  *)
(* handles the events of the AOO sink: it keeps the endpoint of the source   *)
(* that is listened to, checks the configuration that the source announces   *)
(* and publishes its channel map.  The audio thread takes a snapshot of the  *)
(* map without a lock and routes the channels of the sink by it.  The host   *)
(* and the adaptive thread set the latency.                                  *)
(*                                                                           *)
(* An atomic variable is read or written in a step of its own, in program    *)
(* order (the memory is taken to be sequentially consistent).                *)
EXTENDS Integers, Sequences, SequencesExt

CONSTANTS
    Sources,            \* endpoints
    Nobody,             \* no endpoint
    ChannelCount,       \* channels of the receiver
    ChannelMaps,        \* channel maps that a source may announce (as sequences)
    Latencies,          \* latencies that the host or the adaptive thread set
    ExpectedLatency,    \* expectedStreamConfiguration.targetLatencyFrames
    MaxEvents,          \* bound: events of the sink
    MaxCalls            \* bound: latency changes

VARIABLES
    revision, mapCount, map,            \* sourceChannelMapRevision, ...Count, sourceChannelMap
    endpoint,                           \* sourceEndpointFingerprint, Nobody for 0
    streamState, sourceChannelCount,    \* metrics
    roundTrip,                          \* source of the round-trip time that is shown
    wireless,                           \* activeTransportProfile
    targetLatency, sinkTarget,          \* targetLatencySeconds, target of the sink
    todo,                               \* event thread: rest of the handler
    audio,                              \* audio thread
    setters,                            \* host and adaptive thread: latency being set
    events, calls,                      \* counted for the bounds
    announced                           \* history: map of the last stream that was accepted

vars == <<revision, mapCount, map, endpoint, streamState, sourceChannelCount, roundTrip,
          wireless, targetLatency, sinkTarget, todo, audio, setters, events, calls, announced>>

channelMap == <<revision, mapCount, map, announced>>
status == <<endpoint, streamState, sourceChannelCount, roundTrip>>
latency == <<wireless, targetLatency, sinkTarget>>

Channels == 0 .. ChannelCount - 1
Setters == {"host", "adaptive"}
Silence == [c \in Channels |-> -1]

Idle == [pc |-> "idle", revision |-> 0, count |-> 0, map |-> <<>>, output |-> Silence,
         announced |-> <<>>]

Init ==
    /\ revision = 0 /\ mapCount = 0 /\ map = [c \in Channels |-> 0] /\ announced = <<>>
    /\ endpoint = Nobody /\ streamState = "inactive" /\ sourceChannelCount = 0
    /\ roundTrip = Nobody
    /\ wireless = TRUE /\ targetLatency = ExpectedLatency /\ sinkTarget = ExpectedLatency
    /\ todo = <<>> /\ audio = Idle
    /\ setters = [s \in Setters |-> 0]
    /\ events = 0 /\ calls = 0

-----------------------------------------------------------------------------
(* Event thread: a handler is a sequence of stores *)

Op(name, value) == [op |-> name, value |-> value]

\* No metadata is accepted and clears the map.  The other fields of the
\* configuration agree with what is expected of the source or not.
Compatible(m) ==
    /\ m.matches
    /\ Len(m.map) \in 1 .. ChannelCount
    /\ \A i, j \in DOMAIN m.map :
          m.map[i] \in Channels /\ (i # j => m.map[i] # m.map[j])

setReceiverSourceEndpoint(e) ==
    IF e = Nobody THEN <<Op("endpoint", Nobody)>>
    ELSE <<Op("endpoint", Nobody), Op("endpoint", e)>>

\* the order of the stores is what makes the snapshot work
publishChannelMap(m) ==
    <<Op("odd", m), Op("count", 0)>>
        \o [k \in 1 .. Len(m) |-> Op("channel", <<k - 1, m[k]>>)]
        \o <<Op("count", Len(m)), Op("even", m)>>

applyReceiverChannelMap(m) ==
    publishChannelMap(m.map) \o
    (IF m.map = <<>> THEN <<>>
     ELSE <<Op("profile", m.wireless), Op("latency", ExpectedLatency), Op("target", ExpectedLatency)>>)

\* found: AooSink_control(kAooCtlGetFormat) still knows the source.
StreamStart(e, m, found) ==
    setReceiverSourceEndpoint(e) \o
    (IF m.map = <<>> \/ Compatible(m)
     THEN applyReceiverChannelMap(m)
              \o (IF found THEN <<Op("format", ChannelCount)>> ELSE <<>>)
              \o <<Op("round trip", Nobody)>>
     ELSE <<Op("state", "inactive")>> \o setReceiverSourceEndpoint(Nobody))

\* Mutant: the stream of a removed source is still shown
SourceRemove_shown(e) ==
    setReceiverSourceEndpoint(Nobody)
        \o publishChannelMap(<<>>) \o <<Op("format", 0), Op("round trip", Nobody)>>

SourceRemove(e) ==
    <<Op("state", "inactive")>> \o setReceiverSourceEndpoint(Nobody)
        \o publishChannelMap(<<>>) \o <<Op("format", 0), Op("round trip", Nobody)>>

\* the events of the source that is not listened to are ignored
IfMatches(e, ops) == IF endpoint = e THEN ops ELSE <<>>

Metadata ==
    [map : {<<>>}, matches : {TRUE}, wireless : {TRUE}]
        \union [map : ChannelMaps, matches : {TRUE}, wireless : BOOLEAN]
        \union [map : {<<0>>}, matches : {FALSE}, wireless : {TRUE}]

handleReceiverEvent ==
    /\ todo = <<>>
    /\ events < MaxEvents
    /\ events' = events + 1
    /\ \E e \in Sources :
         \/ \E m \in Metadata, found \in BOOLEAN : todo' = StreamStart(e, m, found)
         \/ \E s \in {"active", "buffering", "inactive"} :      \* StreamState, StreamStop
               todo' = IfMatches(e, <<Op("state", s)>>)
         \/ todo' = IfMatches(e, SourceRemove(e))
         \/ todo' = IfMatches(e, <<Op("round trip", e)>>)       \* SourcePing
         \/ \E n \in 1 .. ChannelCount :                        \* FormatChange
               todo' = IF endpoint \in {Nobody, e} THEN <<Op("format", n)>> ELSE <<>>
    /\ UNCHANGED <<channelMap, status, latency, audio, setters, calls>>

Do(name) == todo # <<>> /\ Head(todo).op = name /\ todo' = Tail(todo)

StoreMap ==
    /\ \/ /\ Do("odd") \/ Do("even")
          /\ revision' = revision + 1
          /\ announced' = IF Head(todo).op = "even" THEN Head(todo).value ELSE announced
          /\ UNCHANGED <<mapCount, map>>
       \/ Do("count") /\ mapCount' = Head(todo).value /\ UNCHANGED <<revision, map, announced>>
       \/ /\ Do("channel")
          /\ map' = [map EXCEPT ![Head(todo).value[1]] = Head(todo).value[2]]
          /\ UNCHANGED <<revision, mapCount, announced>>
    /\ UNCHANGED <<status, latency, audio, setters, events, calls>>

StoreStatus ==
    /\ \/ /\ Do("endpoint")
          /\ endpoint' = Head(todo).value
          /\ UNCHANGED <<streamState, sourceChannelCount, roundTrip>>
       \/ /\ Do("state")
          /\ streamState' = Head(todo).value
          /\ UNCHANGED <<endpoint, sourceChannelCount, roundTrip>>
       \/ /\ Do("format")
          /\ sourceChannelCount' = Head(todo).value
          /\ UNCHANGED <<endpoint, streamState, roundTrip>>
       \/ /\ Do("round trip")
          /\ roundTrip' = Head(todo).value
          /\ UNCHANGED <<endpoint, streamState, sourceChannelCount>>
    /\ UNCHANGED <<channelMap, latency, audio, setters, events, calls>>

StoreLatency ==
    /\ \/ Do("profile") /\ wireless' = Head(todo).value /\ UNCHANGED <<targetLatency, sinkTarget>>
       \/ Do("latency") /\ targetLatency' = Head(todo).value /\ UNCHANGED <<wireless, sinkTarget>>
       \/ Do("target") /\ sinkTarget' = Head(todo).value /\ UNCHANGED <<wireless, targetLatency>>
    /\ UNCHANGED <<channelMap, status, audio, setters, events, calls>>

-----------------------------------------------------------------------------
(* Audio thread: AOOAppleReceiverProcessStereoAtTime, one chunk *)

AudioOnly == UNCHANGED <<channelMap, status, latency, todo, setters, events, calls>>

Chunk ==
    /\ audio.pc = "idle"
    /\ audio' = [Idle EXCEPT !.pc = IF revision % 2 = 0 THEN "count" ELSE "after",
                             !.revision = revision]
    /\ AudioOnly

ReadCount ==
    /\ audio.pc = "count"
    /\ audio' = [audio EXCEPT !.count = mapCount, !.pc = IF mapCount = 0 THEN "after" ELSE "channel"]
    /\ AudioOnly

ReadChannel ==
    /\ audio.pc = "channel"
    /\ LET k == Len(audio.map) IN
       audio' = [audio EXCEPT !.map = Append(@, map[k]),
                              !.pc = IF k + 1 = audio.count THEN "after" ELSE "channel"]
    /\ AudioOnly

\* Mutant: it is enough that no map is being written now
Stable_now == revision % 2 = 0

Stable == audio.revision = revision /\ revision % 2 = 0

ReadRevision ==
    /\ audio.pc = "after"
    /\ audio' = [audio EXCEPT !.pc = IF Stable THEN "route" ELSE "idle", !.announced = announced]
    /\ AudioOnly

\* without a map the channels of the source go to the first ones of the receiver
Route ==
    /\ audio.pc = "route"
    /\ audio' = [audio EXCEPT !.pc = "routed", !.output =
          IF audio.map = <<>>
          THEN [c \in Channels |-> IF c < sourceChannelCount THEN c ELSE -1]
          ELSE [c \in Channels |-> IF \E s \in 1 .. audio.count : audio.map[s] = c
                                   THEN SelectLastInSeq(audio.map, LAMBDA d : d = c) - 1
                                   ELSE -1]]
    /\ AudioOnly

ChunkDone ==
    /\ audio.pc = "routed"
    /\ audio' = Idle
    /\ AudioOnly

-----------------------------------------------------------------------------
(* AOOAppleReceiverSetLatency and the adaptive thread: the target of the     *)
(* sink first, then the variable                                             *)

SetLatency(s, t) ==
    /\ setters[s] = 0
    /\ calls < MaxCalls
    /\ wireless
    /\ t # targetLatency
    /\ sinkTarget' = t
    /\ setters' = [setters EXCEPT ![s] = t]
    /\ calls' = calls + 1
    /\ UNCHANGED <<channelMap, status, wireless, targetLatency, todo, audio, events>>

LatencySet(s) ==
    /\ setters[s] # 0
    /\ targetLatency' = setters[s]
    /\ setters' = [setters EXCEPT ![s] = 0]
    /\ UNCHANGED <<channelMap, status, wireless, sinkTarget, todo, audio, events, calls>>

-----------------------------------------------------------------------------

EventStore == StoreMap \/ StoreStatus \/ StoreLatency
AudioStep == Chunk \/ ReadCount \/ ReadChannel \/ ReadRevision \/ Route \/ ChunkDone

Next ==
    \/ handleReceiverEvent \/ EventStore
    \/ AudioStep
    \/ \E s \in Setters : LatencySet(s) \/ \E t \in Latencies : SetLatency(s, t)

Spec == Init /\ [][Next]_vars

-----------------------------------------------------------------------------

\* AOOAppleReceiverProcessStereoAtTime: the audio thread never routes by a mixture
\* of two channel maps.  A chunk that is routed by a map uses the whole map of the
\* stream that was accepted last when the snapshot was taken, so that every channel
\* of the source is heard in its place, and in that place only.
MapSnapshot ==
    audio.pc \in {"route", "routed"} =>
        /\ audio.map = audio.announced
        /\ audio.pc = "routed" /\ audio.map # <<>> =>
              \A c \in Channels :
                 IF audio.output[c] = -1 THEN c \notin {audio.announced[s] : s \in DOMAIN audio.announced}
                 ELSE audio.announced[audio.output[c] + 1] = c

\* handleReceiverEvent: between two events, the status is about one source.  The
\* round-trip time was measured with the source that is listened to, and after a source
\* was removed or refused no stream is shown as running.
StatusOfSource ==
    todo = <<>> =>
        /\ endpoint # Nobody => roundTrip \in {Nobody, endpoint}
        /\ endpoint = Nobody => streamState = "inactive"

\* The audio thread and the status of a receiver each show one consistent source.
OneSourceShown == MapSnapshot /\ StatusOfSource
=============================================================================
