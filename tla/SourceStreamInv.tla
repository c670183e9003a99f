-------------------------- MODULE SourceStreamInv ---------------------------
(***************************************************************************)
(* The inductive invariant of SourceStream: its types are kept by every    *)
(* step, and the rest of it by the steps that leave the sinks alone; and   *)
(* what a step has to show that changes one sink or several.               *)
(***************************************************************************)
EXTENDS SourceStream, SequenceTheorems, TLAPS

\* A leaf that names no prover is tried with each of these in turn.
USE SMT, Zenon, SMTT(30)

StreamType == [st : {"stop", "start", "run", "idle"}, md : {0, 1}]
SinkType == [added : BOOLEAN, id : Int, invite_token : Int, uninvite_token : Int,
             need : BOOLEAN, data_requests : Seq(Int)]
EventType == [type : {"invite", "uninvite"}, sink : Sinks, token : Int]
BlockType == [seq : Int, format : Int, block : Int]
AudioType == [pc : {"idle", "stop", "start", "run", "new_stream"}, full : StreamType,
              todo : SUBSET Sinks, sink : Sinks \cup {Nobody}]
SenderType == [pc : {"idle", "dispatch", "start", "collect", "xruns", "empty", "data", "resend"},
               cached : SUBSET [sink : Sinks, id : Int], count : Int]

UserTypes == stream \in StreamType /\ metadata \in Int /\ live \in Int
DataTypes == /\ encoder \in BOOLEAN /\ format \in Int /\ sequence \in Nat \cup {Invalid}
             /\ audio_queue \in Seq(Int) /\ history \in Seq(BlockType)
             /\ xruns \in Int /\ blocks \in Int
SinkTypes == /\ sinks \in [Sinks -> SinkType] /\ events \in SUBSET EventType
             /\ next_id \in Nat /\ next_id > 0 /\ need_start \in BOOLEAN
ThreadTypes == audio \in AudioType /\ sender \in SenderType

Types == UserTypes /\ DataTypes /\ SinkTypes /\ ThreadTypes

\* kAooIdInvalid is below every id and token that is given out.
LEMMA InvalidIsNoId == Invalid \in Int /\ \A n \in Nat : n # Invalid /\ Invalid < n
BY DEF Invalid

-----------------------------------------------------------------------------
(* The inductive invariant                                                 *)

\* The sinks that make_new_stream has yet to give a new stream id, and the active others.
Restarting == IF audio.pc = "new_stream" THEN audio.todo \cup {audio.sink} ELSE {}
Current == Active \ Restarting

\* The messages of a stream with audio.
Audible(m) == m.id # Invalid /\ (m.type = "start" \/ (m.type = "data" /\ m.block # 0))
Unused(s, id) == \A m \in sent : Audible(m) /\ m.sink = s => m.id # id

\* The audio thread handles the state it has loaded.
Metadata ==
    /\ MetadataOwned
    /\ audio.pc \in {"start", "stop"} => audio.full.st = audio.pc

\* While /start messages are collected nobody makes a new stream.
Locks == sender.pc = "collect" => audio.pc # "new_stream" /\ sequence # Invalid

\* The history is of the current stream.
History ==
    /\ \A i \in 1 .. Len(history) : /\ history[i].seq >= 0 /\ history[i].seq < sequence
                                    /\ history[i].format = format
    /\ \A i, j \in 1 .. Len(history) : history[i].seq = history[j].seq => i = j

\* Stream ids are new, and the token of an invitation is not used before it is accepted.
SinkIds ==
    \A s \in Sinks : /\ sinks[s].id < next_id /\ sinks[s].invite_token < next_id
                     /\ ~sinks[s].added => sinks[s].invite_token = Invalid
EventIds ==
    \A e \in events : /\ e.token < next_id
                      /\ e.type = "invite" =>
                            /\ e.token \in Nat /\ e.token # sinks[e.sink].id
                            /\ Unused(e.sink, e.token)
MessageIds == \A m \in sent : Audible(m) => m.id \in Int /\ m.id < next_id

Ids == SinkIds /\ EventIds /\ MessageIds

\* What a sink was sent under its stream id agrees with the stream.
Agrees(m) ==
    /\ m.format = format
    /\ m.type = "data" =>
          /\ m.seq \in Int /\ m.seq < sequence
          /\ \A i \in 1 .. Len(history) :
                history[i].seq = m.seq /\ history[i].block # 0 => history[i].block = m.block

Streams ==
    sequence # Invalid =>
        \A s \in Current : \A m \in sent :
            Audible(m) /\ m.sink = s /\ m.id = sinks[s].id => Agrees(m)

\* Two messages are of one stream.
Alike(m, n) ==
    Audible(m) /\ Audible(n) /\ m.sink = n.sink /\ m.id = n.id =>
        /\ m.format = n.format
        /\ m.type = "data" /\ n.type = "data" /\ m.seq = n.seq => m.block = n.block

Consistent == \A m, n \in sent : Alike(m, n)

\* A sink of the running stream has been announced or is going to be.
Flagged == need_start \/ notifying # {} \/ sender.pc = "collect"
Started(s, id) == \E m \in sent : m.type = "start" /\ m.sink = s /\ m.id = id

Announced ==
    stream.st = "run" =>
        \A s \in Current :
            Started(s, sinks[s].id) \/ (sinks[s].need /\ (audio.pc # "new_stream" => Flagged))

IInv == /\ Types /\ Metadata /\ Locks /\ History /\ Ids
        /\ Streams /\ Consistent /\ Announced

-----------------------------------------------------------------------------
(* Types                                                                   *)

LEMMA EmptySinks ==
    /\ NoSink \in SinkType /\ NoSink.id = Invalid /\ NoSink.added = FALSE
    /\ NoSink.invite_token = Invalid
    /\ \A id \in Int, need \in BOOLEAN :
          /\ NewSink(id, need) \in SinkType /\ NewSink(id, need).id = id
          /\ NewSink(id, need).need = need /\ NewSink(id, need).added
          /\ NewSink(id, need).invite_token = Invalid
<1>1. Invalid \in Int /\ <<>> \in Seq(Int)
  BY DEF Invalid
<1> QED  BY <1>1 DEF NoSink, NewSink, SinkType

LEMMA InitTypes == Init => Types
<1> SUFFICES ASSUME Init
             PROVE  Types
  OBVIOUS
<1>1. UserTypes
  BY DEF Init, UserTypes, StreamType
<1>2. DataTypes
  BY DEF Init, DataTypes, Invalid
<1>3. SinkTypes
  <2> DEFINE one == 1  no == FALSE
  <2>0. one \in Int /\ no \in BOOLEAN
    OBVIOUS
  <2>1. NoSink \in SinkType /\ NewSink(one, no) \in SinkType
    <3> HIDE DEF one, no
    <3> QED  BY <2>0, EmptySinks
  <2>2. sinks \in [Sinks -> SinkType]
    BY <2>1 DEF Init
  <2>3. events \in SUBSET EventType /\ need_start \in BOOLEAN
    BY DEF Init
  <2>4. next_id \in Nat /\ next_id > 0
    BY DEF Init
  <2> QED  BY <2>2, <2>3, <2>4 DEF SinkTypes
<1>4. ThreadTypes
  BY DEF Init, ThreadTypes, AudioIdle, SenderIdle, AudioType, SenderType, Run, StreamType
<1> QED  BY <1>1, <1>2, <1>3, <1>4 DEF Types

\* What a step leaves alone keeps its type.
LEMMA TypesKept ==
    /\ UserTypes /\ UNCHANGED user_vars => UserTypes'
    /\ DataTypes /\ UNCHANGED <<data_vars, blocks>> => DataTypes'
    /\ SinkTypes /\ UNCHANGED <<sinks, events, next_id, need_start>> => SinkTypes'
    /\ ThreadTypes /\ UNCHANGED <<audio, sender>> => ThreadTypes'
  BY DEF UserTypes, DataTypes, SinkTypes, ThreadTypes, user_vars, data_vars

\* The new record of a sink.
Put(s, x) == x \in SinkType /\ sinks' = [sinks EXCEPT ![s] = x]

LEMMA PutTypes ==
    ASSUME SinkTypes, NEW s \in Sinks, NEW x, Put(s, x)
    PROVE  /\ sinks' \in [Sinks -> SinkType] /\ sinks'[s] = x
           /\ \A u \in Sinks \ {s} : sinks'[u] = sinks[u]
  BY DEF SinkTypes, Put

LEMMA addSinkPuts ==
    ASSUME SinkTypes, NEW s \in Sinks, NEW active \in BOOLEAN, addSink(s, active)
    PROVE  \E x : /\ Put(s, x) /\ x.added /\ x.invite_token = Invalid
                  /\ x.id = IF active THEN next_id ELSE Invalid
                  /\ IsRunning /\ active => x.need
<1> DEFINE start == IsRunning /\ active  id == IF active THEN next_id ELSE Invalid
           x == NewSink(id, start)
<1>1. start \in BOOLEAN /\ id \in Int
  BY DEF SinkTypes, Invalid, IsRunning
<1>2. sinks' = [sinks EXCEPT ![s] = x]
  BY DEF addSink
<1>3. start <=> IsRunning /\ active
  OBVIOUS
<1> HIDE DEF start
<1>4. /\ x \in SinkType /\ x.id = id /\ x.need = start /\ x.added
      /\ x.invite_token = Invalid
  <2> HIDE DEF id
  <2> QED  BY <1>1, EmptySinks
<1> HIDE DEF x
<1>5. IsRunning /\ active => x.need
  BY <1>3, <1>4
<1> QED  BY <1>2, <1>4, <1>5 DEF Put

LEMMA activatePuts ==
    ASSUME SinkTypes, NEW s \in Sinks, activate(s)
    PROVE  \E x : /\ Put(s, x) /\ x.added = sinks[s].added /\ x.id = next_id
                  /\ IsRunning => x.need
                  /\ x.invite_token = sinks[s].invite_token
<1> DEFINE need == sinks[s].need \/ IsRunning
           x == [sinks[s] EXCEPT !.id = next_id, !.need = need]
<1>1. need \in BOOLEAN /\ (IsRunning => need)
  OBVIOUS
<1>2. sinks' = [sinks EXCEPT ![s] = x]
  BY DEF activate
<1>3. sinks[s] \in SinkType /\ next_id \in Int
  BY DEF SinkTypes
<1> HIDE DEF need
<1>4. /\ x \in SinkType /\ x.id = next_id /\ x.need = need /\ x.added = sinks[s].added
      /\ x.invite_token = sinks[s].invite_token
  BY <1>1, <1>3 DEF SinkType
<1> HIDE DEF x
<1>5. IsRunning => x.need
  BY <1>1, <1>4
<1> QED  BY <1>2, <1>4, <1>5 DEF Put

\* A sink that is deactivated, by the user or because its uninvitation was accepted.
LEMMA DeactivatePuts ==
    ASSUME SinkTypes, NEW s \in Sinks, sinks' = [sinks EXCEPT ![s].id = Invalid]
    PROVE  \E x : /\ Put(s, x) /\ x.added = sinks[s].added /\ x.id = Invalid
                  /\ x.invite_token = sinks[s].invite_token
<1> DEFINE x == [sinks[s] EXCEPT !.id = Invalid]
<1>1. sinks' = [sinks EXCEPT ![s] = x]
  OBVIOUS
<1>2. sinks[s] \in SinkType /\ Invalid \in Int
  BY DEF SinkTypes, Invalid
<1>3. /\ x \in SinkType /\ x.id = Invalid /\ x.added = sinks[s].added
      /\ x.invite_token = sinks[s].invite_token
  BY <1>2 DEF SinkType
<1> QED  BY <1>1, <1>3 DEF Put

LEMMA handleInvitePuts ==
    ASSUME SinkTypes, NEW e \in events, NEW accept \in BOOLEAN, handleInvite(e, accept),
           sinks[e.sink].added, accept
    PROVE  \E x : /\ Put(e.sink, x) /\ x.added = sinks[e.sink].added /\ x.id = e.token
                  /\ IsRunning => x.need
                  /\ x.invite_token = sinks[e.sink].invite_token
<1> DEFINE s == e.sink
           need == sinks[s].need \/ (sinks[e.sink].added /\ accept /\ IsRunning)
           x == [sinks[s] EXCEPT !.id = e.token, !.need = need]
<1>1. need \in BOOLEAN /\ (IsRunning => need)
  OBVIOUS
<1>2. sinks' = [sinks EXCEPT ![s] = x]
  BY DEF handleInvite
<1>3. s \in Sinks /\ e.token \in Int
  BY DEF SinkTypes, EventType
<1> HIDE DEF need
<1>4. /\ x \in SinkType /\ x.id = e.token /\ x.need = need /\ x.added = sinks[s].added
      /\ x.invite_token = sinks[s].invite_token
  BY <1>1, <1>3 DEF SinkTypes, SinkType
<1> HIDE DEF x
<1>5. IsRunning => x.need
  BY <1>1, <1>4
<1> QED  BY <1>2, <1>4, <1>5 DEF Put

LEMMA handle_start_requestPuts ==
    ASSUME SinkTypes, NEW s \in Sinks, handle_start_request(s)
    PROVE  \E x : /\ Put(s, x) /\ x.added = sinks[s].added /\ x.id = sinks[s].id /\ x.need
                  /\ x.invite_token = sinks[s].invite_token
<1> DEFINE x == [sinks[s] EXCEPT !.need = TRUE]
<1>1. sinks' = [sinks EXCEPT ![s] = x] /\ sinks[s] \in SinkType
  BY DEF handle_start_request, SinkTypes
<1>2. /\ x \in SinkType /\ x.added = sinks[s].added /\ x.id = sinks[s].id /\ x.need
      /\ x.invite_token = sinks[s].invite_token
  BY <1>1 DEF SinkType
<1> QED  BY <1>1, <1>2 DEF Put

\* The requests for data of a sink change.
LEMMA RequestsPut ==
    ASSUME SinkTypes, NEW s \in Sinks, NEW q \in Seq(Int),
           sinks' = [sinks EXCEPT ![s].data_requests = q]
    PROVE  \E x : /\ Put(s, x) /\ x.added = sinks[s].added /\ x.id = sinks[s].id
                  /\ x.need = sinks[s].need /\ x.invite_token = sinks[s].invite_token
<1> DEFINE x == [sinks[s] EXCEPT !.data_requests = q]
<1>1. sinks' = [sinks EXCEPT ![s] = x] /\ sinks[s] \in SinkType
  BY DEF SinkTypes
<1>2. /\ x \in SinkType /\ x.added = sinks[s].added /\ x.id = sinks[s].id
      /\ x.need = sinks[s].need /\ x.invite_token = sinks[s].invite_token
  BY <1>1 DEF SinkType
<1> QED  BY <1>1, <1>2 DEF Put

LEMMA handle_invitePuts ==
    ASSUME SinkTypes, NEW s \in Sinks, NEW token \in Int, handle_invite(s, token)
    PROVE  \E x : /\ Put(s, x) /\ x.added /\ x.invite_token = token
                  /\ sinks[s].added => x.id = sinks[s].id /\ x.need = sinks[s].need
                  /\ ~sinks[s].added => x.id = Invalid
<1> DEFINE old == IF sinks[s].added THEN sinks[s] ELSE NewSink(Invalid, FALSE)
           x == [old EXCEPT !.invite_token = token]
<1>1. sinks' = [sinks EXCEPT ![s] = x]
  BY DEF handle_invite
<1>2. Invalid \in Int /\ sinks[s] \in SinkType
  BY DEF Invalid, SinkTypes
<1>3. /\ NewSink(Invalid, FALSE) \in SinkType /\ NewSink(Invalid, FALSE).id = Invalid
      /\ NewSink(Invalid, FALSE).added
  BY <1>2, EmptySinks
<1>4. /\ old \in SinkType /\ old.added
      /\ sinks[s].added => old = sinks[s]
      /\ ~sinks[s].added => old.id = Invalid
  BY <1>2, <1>3
<1> HIDE DEF old
<1>5. /\ x \in SinkType /\ x.added = old.added /\ x.id = old.id /\ x.need = old.need
      /\ x.invite_token = token
  BY <1>4 DEF SinkType
<1> HIDE DEF x
<1> QED  BY <1>1, <1>4, <1>5 DEF Put

LEMMA handle_uninvitePuts ==
    ASSUME SinkTypes, NEW s \in Sinks, NEW token \in Int,
           sinks' = [sinks EXCEPT ![s].uninvite_token = token]
    PROVE  \E x : /\ Put(s, x) /\ x.added = sinks[s].added /\ x.id = sinks[s].id
                  /\ x.need = sinks[s].need /\ x.invite_token = sinks[s].invite_token
<1> DEFINE x == [sinks[s] EXCEPT !.uninvite_token = token]
<1>1. sinks' = [sinks EXCEPT ![s] = x] /\ sinks[s] \in SinkType
  BY DEF SinkTypes
<1>2. /\ x \in SinkType /\ x.added = sinks[s].added /\ x.id = sinks[s].id
      /\ x.need = sinks[s].need /\ x.invite_token = sinks[s].invite_token
  BY <1>1 DEF SinkType
<1> QED  BY <1>1, <1>2 DEF Put

LEMMA start_sink_idPuts ==
    ASSUME SinkTypes, audio.sink \in Sinks, start_sink_id
    PROVE  \E x : /\ Put(audio.sink, x) /\ x.added = sinks[audio.sink].added /\ x.id = next_id
                  /\ x.need /\ x.invite_token = sinks[audio.sink].invite_token
<1> DEFINE s == audio.sink  x == [sinks[s] EXCEPT !.id = next_id, !.need = TRUE]
<1>1. sinks' = [sinks EXCEPT ![s] = x]
  BY DEF start_sink_id
<1>2. sinks[s] \in SinkType /\ next_id \in Int
  BY DEF SinkTypes
<1>3. /\ x \in SinkType /\ x.added = sinks[s].added /\ x.id = next_id /\ x.need
      /\ x.invite_token = sinks[s].invite_token
  BY <1>2 DEF SinkType
<1> QED  BY <1>1, <1>3 DEF Put

LEMMA UserKeepsTypes == Types /\ User => Types'
<1> SUFFICES ASSUME Types, User
             PROVE  Types'
  OBVIOUS
<1>0. UserTypes /\ DataTypes /\ SinkTypes /\ ThreadTypes
  BY DEF Types
<1>1. ASSUME NEW md \in {0, 1}, startStream(md)
      PROVE  Types'
  <2>1. UNCHANGED <<data_vars, blocks, sinks, events, next_id, need_start, audio, sender>>
    BY <1>1 DEF startStream, Call, user_vars, data_vars, sink_vars, thread_vars
  <2>2. UserTypes'
    BY <1>0, <1>1 DEF UserTypes, startStream, Freed, StreamType
  <2> QED  BY <1>0, <2>1, <2>2, TypesKept DEF Types
<1>2. CASE stopStream
  <2>1. UNCHANGED <<data_vars, blocks, sinks, events, next_id, need_start, audio, sender>>
    BY <1>2 DEF stopStream, Call, user_vars, data_vars, sink_vars, thread_vars
  <2>2. UserTypes'
    BY <1>0, <1>2 DEF UserTypes, stopStream, Freed, StreamType
  <2> QED  BY <1>0, <2>1, <2>2, TypesKept DEF Types
<1>3. CASE set_format
  <2>1. UNCHANGED <<sinks, events, next_id, need_start, audio, sender>>
    BY <1>3 DEF set_format, Call, user_vars, data_vars, sink_vars, thread_vars
  <2>2. UserTypes'
    BY <1>0, <1>3 DEF UserTypes, set_format, restart_stream, StreamType, Run
  <2>3. DataTypes'
    BY <1>0, <1>3 DEF DataTypes, set_format, update_buffers, Call, Invalid
  <2> QED  BY <1>0, <2>1, <2>2, <2>3, TypesKept DEF Types
<1>4. CASE set_format_rejected
  <2>1. UNCHANGED <<user_vars, sinks, events, next_id, need_start, audio, sender>>
    BY <1>4 DEF set_format_rejected, Call, user_vars, data_vars, sink_vars, thread_vars
  <2>2. DataTypes'
    BY <1>0, <1>4 DEF DataTypes, set_format_rejected, Call
  <2> QED  BY <1>0, <2>1, <2>2, TypesKept DEF Types
<1>5. CASE setup
  <2>1. UNCHANGED <<sinks, events, next_id, need_start, audio, sender>>
    BY <1>5 DEF setup, Call, user_vars, data_vars, sink_vars, thread_vars
  <2>2. UserTypes'
    BY <1>0, <1>5 DEF UserTypes, setup, restart_stream, StreamType, Run
  <2>3. DataTypes'
    <3>1. <<>> \in Seq(Int) /\ <<>> \in Seq(BlockType)
      OBVIOUS
    <3>2. encoder \in BOOLEAN
      BY <1>0 DEF DataTypes
    <3> QED  BY <1>0, <1>5, <3>1, <3>2 DEF DataTypes, setup, update_buffers, Call
  <2> QED  BY <1>0, <2>1, <2>2, <2>3, TypesKept DEF Types
<1>6. CASE set_id
  <2>1. UNCHANGED <<data_vars, blocks, sinks, events, next_id, need_start, audio, sender>>
    BY <1>6 DEF set_id, Call, user_vars, data_vars, sink_vars, thread_vars
  <2>2. UserTypes'
    BY <1>0, <1>6 DEF UserTypes, set_id, restart_stream, StreamType, Run
  <2> QED  BY <1>0, <2>1, <2>2, TypesKept DEF Types
<1>7. CASE reset_buffers
  <2>1. UNCHANGED <<user_vars, sinks, events, next_id, need_start, audio, sender>>
    BY <1>7 DEF reset_buffers, Call, user_vars, data_vars, sink_vars, thread_vars
  <2>2. DataTypes'
    <3>1. <<>> \in Seq(Int) /\ <<>> \in Seq(BlockType)
      OBVIOUS
    <3> QED  BY <1>0, <1>7, <3>1 DEF DataTypes, reset_buffers, Call
  <2> QED  BY <1>0, <2>1, <2>2, TypesKept DEF Types
<1>8. CASE removeAll
  <2>1. UNCHANGED <<user_vars, data_vars, blocks>>
    BY <1>8 DEF removeAll, Call, user_vars, data_vars, sink_vars, thread_vars
  <2>2. SinkTypes'
    BY <1>0, <1>8, EmptySinks DEF SinkTypes, removeAll, sink_vars
  <2>3. ThreadTypes'
    BY <1>0, <1>8 DEF ThreadTypes, removeAll, Erased, AudioType
  <2> QED  BY <1>0, <2>1, <2>2, <2>3, TypesKept DEF Types
<1>9. ASSUME NEW s \in Sinks, NEW active \in BOOLEAN, addSink(s, active)
      PROVE  Types'
  <2>1. UNCHANGED <<user_vars, data_vars, blocks, audio, sender>>
    BY <1>9 DEF addSink, Call, user_vars, data_vars, sink_vars, thread_vars
  <2>2. SinkTypes'
    <3>1. \E x : Put(s, x)
      BY <1>0, <1>9, addSinkPuts
    <3>2. events' = events /\ need_start' = need_start /\ next_id' \in Nat /\ next_id' > 0
      BY <1>0, <1>9 DEF addSink, SinkTypes
    <3> QED  BY <1>0, <3>1, <3>2, PutTypes DEF SinkTypes
  <2> QED  BY <1>0, <2>1, <2>2, TypesKept DEF Types
<1>10. ASSUME NEW s \in Sinks, removeSink(s)
      PROVE  Types'
  <2>1. UNCHANGED <<user_vars, data_vars, blocks>>
    BY <1>10 DEF removeSink, Call, user_vars, data_vars, sink_vars, thread_vars
  <2>2. SinkTypes'
    BY <1>0, <1>10, EmptySinks DEF SinkTypes, removeSink, sink_vars
  <2>3. ThreadTypes'
    BY <1>0, <1>10 DEF ThreadTypes, removeSink, Erased, AudioType
  <2> QED  BY <1>0, <2>1, <2>2, <2>3, TypesKept DEF Types
<1>11. ASSUME NEW s \in Sinks, activate(s)
      PROVE  Types'
  <2>1. UNCHANGED <<user_vars, data_vars, blocks, audio, sender>>
    BY <1>11 DEF activate, Call, user_vars, data_vars, sink_vars, thread_vars
  <2>2. SinkTypes'
    <3>1. \E x : Put(s, x)
      BY <1>0, <1>11, activatePuts
    <3>2. events' = events /\ need_start' = need_start /\ next_id' \in Nat /\ next_id' > 0
      BY <1>0, <1>11 DEF activate, SinkTypes
    <3> QED  BY <1>0, <3>1, <3>2, PutTypes DEF SinkTypes
  <2> QED  BY <1>0, <2>1, <2>2, TypesKept DEF Types
<1>12. ASSUME NEW s \in Sinks, deactivate(s)
      PROVE  Types'
  <2>1. UNCHANGED <<user_vars, data_vars, blocks, audio, sender>>
    BY <1>12 DEF deactivate, Call, user_vars, data_vars, sink_vars, thread_vars
  <2>2. SinkTypes'
    <3>1. \E x : Put(s, x)
      BY <1>0, <1>12, DeactivatePuts DEF deactivate
    <3> QED  BY <1>0, <1>12, <3>1, PutTypes DEF SinkTypes, deactivate
  <2> QED  BY <1>0, <2>1, <2>2, TypesKept DEF Types
<1>13. ASSUME NEW e \in events, NEW accept \in BOOLEAN, handleInvite(e, accept)
      PROVE  Types'
  <2>1. UNCHANGED <<user_vars, data_vars, blocks, audio, sender>>
    BY <1>13 DEF handleInvite, Call, user_vars, data_vars, sink_vars, thread_vars
  <2>2. SinkTypes'
    <3>1. /\ events' \in SUBSET EventType /\ need_start' = need_start /\ next_id' = next_id
          /\ e.sink \in Sinks
      BY <1>0, <1>13 DEF handleInvite, SinkTypes, EventType
    <3>2. CASE sinks[e.sink].added /\ accept
      <4>1. \E x : Put(e.sink, x)
        BY <1>0, <1>13, <3>2, handleInvitePuts
      <4> QED  BY <1>0, <3>1, <4>1, PutTypes DEF SinkTypes
    <3>3. CASE ~(sinks[e.sink].added /\ accept)
      <4>1. sinks' = sinks
        BY <1>13, <3>3 DEF handleInvite
      <4> QED  BY <1>0, <3>1, <4>1 DEF SinkTypes
    <3> QED  BY <3>2, <3>3
  <2> QED  BY <1>0, <2>1, <2>2, TypesKept DEF Types
<1>14. ASSUME NEW e \in events, NEW accept \in BOOLEAN, handleUninvite(e, accept)
      PROVE  Types'
  <2>1. UNCHANGED <<user_vars, data_vars, blocks, audio, sender>>
    BY <1>14 DEF handleUninvite, Call, user_vars, data_vars, sink_vars, thread_vars
  <2>2. SinkTypes'
    <3>1. /\ events' \in SUBSET EventType /\ need_start' = need_start /\ next_id' = next_id
          /\ e.sink \in Sinks
      BY <1>0, <1>14 DEF handleUninvite, SinkTypes, EventType
    <3>2. CASE sinks[e.sink].added /\ accept
      <4>1. \E x : Put(e.sink, x)
        BY <1>0, <1>14, <3>1, <3>2, DeactivatePuts DEF handleUninvite
      <4> QED  BY <1>0, <3>1, <4>1, PutTypes DEF SinkTypes
    <3>3. CASE ~(sinks[e.sink].added /\ accept)
      <4>1. sinks' = sinks
        BY <1>14, <3>3 DEF handleUninvite
      <4> QED  BY <1>0, <3>1, <4>1 DEF SinkTypes
    <3> QED  BY <3>2, <3>3
  <2> QED  BY <1>0, <2>1, <2>2, TypesKept DEF Types
<1> QED  BY <1>1, <1>2, <1>3, <1>4, <1>5, <1>6, <1>7, <1>8, <1>9, <1>10, <1>11, <1>12, <1>13, <1>14 DEF User

LEMMA NetworkKeepsTypes == Types /\ Network => Types'
<1> SUFFICES ASSUME Types, Network
             PROVE  Types'
  OBVIOUS
<1>0. UserTypes /\ DataTypes /\ SinkTypes /\ ThreadTypes
  BY DEF Types
<1>1. ASSUME NEW s \in Sinks, handle_start_request(s)
      PROVE  Types'
  <2>1. UNCHANGED <<user_vars, data_vars, blocks, audio, sender>>
    BY <1>1 DEF handle_start_request, Receive, user_vars, data_vars, thread_vars
  <2>2. SinkTypes'
    <3>1. \E x : Put(s, x)
      BY <1>0, <1>1, handle_start_requestPuts
    <3> QED  BY <1>0, <1>1, <3>1, PutTypes DEF SinkTypes, handle_start_request
  <2> QED  BY <1>0, <2>1, <2>2, TypesKept DEF Types
<1>2. ASSUME NEW s \in Sinks, handle_stop_request(s)
      PROVE  Types'
  <2>1. UNCHANGED <<user_vars, data_vars, blocks, sinks, events, next_id, need_start, audio, sender>>
    BY <1>2 DEF handle_stop_request, Receive, user_vars, data_vars, thread_vars
  <2> QED  BY <1>0, <2>1, TypesKept DEF Types
<1>3. ASSUME NEW s \in Sinks, handle_ping(s)
      PROVE  Types'
  <2>1. UNCHANGED <<user_vars, data_vars, blocks, sinks, events, next_id, need_start, audio, sender>>
    BY <1>3 DEF handle_ping, Receive, user_vars, data_vars, thread_vars
  <2> QED  BY <1>0, <2>1, TypesKept DEF Types
<1>4. ASSUME NEW s \in Sinks, NEW id \in Int, handle_uninvite(s, id)
      PROVE  Types'
  <2>1. UNCHANGED <<user_vars, data_vars, blocks, audio, sender>>
    BY <1>4 DEF handle_uninvite, Receive, user_vars, data_vars, thread_vars
  <2>2. SinkTypes'
    <3>1. need_start' = need_start /\ next_id' = next_id
      BY <1>4 DEF handle_uninvite
    <3>2. [type |-> "uninvite", sink |-> s, token |-> id] \in EventType
      BY <1>4 DEF EventType
    <3>3. events' \in SUBSET EventType
      BY <1>0, <1>4, <3>2 DEF handle_uninvite, SinkTypes
    <3>4. CASE sinks' = sinks
      BY <1>0, <3>1, <3>3, <3>4 DEF SinkTypes
    <3>5. CASE sinks' = [sinks EXCEPT ![s].uninvite_token = id]
      <4>1. \E x : Put(s, x)
        BY <1>0, <1>4, <3>5, handle_uninvitePuts
      <4> QED  BY <1>0, <3>1, <3>3, <4>1, PutTypes DEF SinkTypes
    <3> QED  BY <1>4, <3>4, <3>5 DEF handle_uninvite
  <2> QED  BY <1>0, <2>1, <2>2, TypesKept DEF Types
<1>5. ASSUME NEW s \in Sinks, NEW id \in Int, NEW seq \in Int, handle_data_request(s, id, seq)
      PROVE  Types'
  <2>1. UNCHANGED <<user_vars, data_vars, blocks, audio, sender>>
    BY <1>5 DEF handle_data_request, Receive, user_vars, data_vars, thread_vars
  <2>2. SinkTypes'
    <3> DEFINE q == Append(sinks[s].data_requests, seq)
    <3>1. q \in Seq(Int)
      BY <1>0, <1>5 DEF SinkTypes, SinkType
    <3>2. sinks' = [sinks EXCEPT ![s].data_requests = q]
      BY <1>5 DEF handle_data_request
    <3> HIDE DEF q
    <3>3. \E x : Put(s, x)
      BY <1>0, <3>1, <3>2, RequestsPut
    <3> QED  BY <1>0, <1>5, <3>3, PutTypes DEF SinkTypes, handle_data_request
  <2> QED  BY <1>0, <2>1, <2>2, TypesKept DEF Types
<1>6. ASSUME NEW s \in Sinks, NEW token \in Int, handle_invite(s, token)
      PROVE  Types'
  <2>1. UNCHANGED <<user_vars, data_vars, blocks, audio, sender>>
    BY <1>6 DEF handle_invite, Receive, user_vars, data_vars, thread_vars
  <2>2. SinkTypes'
    <3>1. \E x : Put(s, x)
      BY <1>0, <1>6, handle_invitePuts
    <3>2. need_start' = need_start /\ next_id' \in Nat /\ next_id' > 0
      BY <1>0, <1>6 DEF handle_invite, SinkTypes
    <3>3. [type |-> "invite", sink |-> s, token |-> token] \in EventType
      BY <1>6 DEF EventType
    <3>4. events' \in SUBSET EventType
      BY <1>0, <1>6, <3>3 DEF handle_invite, SinkTypes
    <3> QED  BY <1>0, <3>1, <3>2, <3>4, PutTypes DEF SinkTypes
  <2> QED  BY <1>0, <2>1, <2>2, TypesKept DEF Types
<1>7. /\ 1 .. next_id - 1 \in SUBSET Int /\ 0 .. sequence \in SUBSET Int
      /\ \A s \in Sinks : {sinks[s].invite_token, next_id} \in SUBSET Int
  BY <1>0 DEF SinkTypes, SinkType, DataTypes, Invalid
<1> QED  BY <1>1, <1>2, <1>3, <1>4, <1>5, <1>6, <1>7 DEF Network

LEMMA AudioKeepsTypes == Types /\ Audio => Types'
<1> SUFFICES ASSUME Types, Audio
             PROVE  Types'
  OBVIOUS
<1>0. UserTypes /\ DataTypes /\ SinkTypes /\ ThreadTypes
  BY DEF Types
<1>1. CASE process
  <2>1. UNCHANGED <<user_vars, data_vars, blocks, sinks, events, next_id, need_start>>
    BY <1>1 DEF process, user_vars, data_vars, sink_vars, bound_vars
  <2>2. ThreadTypes'
    BY <1>0, <1>1 DEF ThreadTypes, process, AudioIdle, AudioType, StreamType, Run, Present, UserTypes
  <2> QED  BY <1>0, <2>1, <2>2, TypesKept DEF Types
<1>2. CASE process_stopped
  <2>1. UNCHANGED <<data_vars, blocks, sinks, events, next_id, need_start>>
    BY <1>2 DEF process_stopped, user_vars, data_vars, sink_vars, bound_vars
  <2>2. UserTypes'
    BY <1>0, <1>2 DEF UserTypes, process_stopped, StreamType
  <2>3. ThreadTypes'
    BY <1>0, <1>2 DEF ThreadTypes, process_stopped, AudioIdle, AudioType, StreamType, Run
  <2> QED  BY <1>0, <2>1, <2>2, <2>3, TypesKept DEF Types
<1>3. CASE process_start_fails
  <2>1. UNCHANGED <<user_vars, data_vars, blocks, sinks, events, next_id, need_start>>
    BY <1>3 DEF process_start_fails, user_vars, data_vars, sink_vars, bound_vars
  <2>2. ThreadTypes'
    BY <1>0, <1>3 DEF ThreadTypes, process_start_fails, AudioIdle, AudioType, StreamType, Run
  <2> QED  BY <1>0, <2>1, <2>2, TypesKept DEF Types
<1>4. CASE process_start
  <2>1. UNCHANGED <<sinks, events, next_id, need_start>>
    BY <1>4 DEF process_start, user_vars, data_vars, sink_vars, bound_vars
  <2>2. UserTypes'
    BY <1>0, <1>4 DEF UserTypes, process_start, ThreadTypes, AudioIdle, AudioType, StreamType, Run
  <2>3. DataTypes'
    BY <1>0, <1>4 DEF DataTypes, process_start
  <2>4. ThreadTypes'
    BY <1>0, <1>4 DEF ThreadTypes, process_start, AudioIdle, AudioType, StreamType, Run, Present
  <2> QED  BY <1>0, <2>1, <2>2, <2>3, <2>4, TypesKept DEF Types
<1>5. CASE start_sink_id
  <2>1. UNCHANGED <<user_vars, data_vars, blocks>>
    BY <1>5 DEF start_sink_id, user_vars, data_vars, sink_vars, bound_vars
  <2>2. SinkTypes'
    <3>1. audio.sink \in Sinks
      BY <1>0, <1>5 DEF start_sink_id, ThreadTypes, AudioType
    <3>2. \E x : Put(audio.sink, x)
      BY <1>0, <1>5, <3>1, start_sink_idPuts
    <3>3. events' = events /\ need_start' = need_start /\ next_id' \in Nat /\ next_id' > 0
      BY <1>0, <1>5 DEF start_sink_id, SinkTypes
    <3> QED  BY <1>0, <3>1, <3>2, <3>3, PutTypes DEF SinkTypes
  <2>3. ThreadTypes'
    BY <1>0, <1>5 DEF ThreadTypes, start_sink_id, AudioIdle, AudioType, StreamType, Run
  <2> QED  BY <1>0, <2>1, <2>2, <2>3, TypesKept DEF Types
<1>6. CASE process_started
  <2>1. UNCHANGED <<user_vars, data_vars, blocks>>
    BY <1>6 DEF process_started, user_vars, data_vars, sink_vars, bound_vars
  <2>2. SinkTypes'
    <3>1. UNCHANGED <<sinks, events, next_id>> /\ need_start' \in BOOLEAN
      BY <1>6 DEF process_started, bound_vars
    <3> QED  BY <1>0, <3>1 DEF SinkTypes
  <2>3. ThreadTypes'
    BY <1>0, <1>6 DEF ThreadTypes, process_started, AudioIdle, AudioType, StreamType, Run
  <2> QED  BY <1>0, <2>1, <2>2, <2>3, TypesKept DEF Types
<1>7. CASE process_block
  <2>1. UNCHANGED <<user_vars, sinks, events, next_id, need_start>>
    BY <1>7 DEF process_block, user_vars, data_vars, sink_vars, bound_vars
  <2>2. DataTypes'
    BY <1>0, <1>7 DEF DataTypes, process_block
  <2>3. ThreadTypes'
    BY <1>0, <1>7 DEF ThreadTypes, process_block, AudioIdle, AudioType, StreamType, Run
  <2> QED  BY <1>0, <2>1, <2>2, <2>3, TypesKept DEF Types
<1>8. CASE process_no_encoder
  <2>1. UNCHANGED <<user_vars, data_vars, blocks, sinks, events, next_id, need_start>>
    BY <1>8 DEF process_no_encoder, user_vars, data_vars, sink_vars, bound_vars
  <2>2. ThreadTypes'
    BY <1>0, <1>8 DEF ThreadTypes, process_no_encoder, AudioIdle, AudioType, StreamType, Run
  <2> QED  BY <1>0, <2>1, <2>2, TypesKept DEF Types
<1>9. CASE process_xrun
  <2>1. UNCHANGED <<user_vars, sinks, events, next_id, need_start>>
    BY <1>9 DEF process_xrun, user_vars, data_vars, sink_vars, bound_vars
  <2>2. DataTypes'
    BY <1>0, <1>9 DEF DataTypes, process_xrun
  <2>3. ThreadTypes'
    BY <1>0, <1>9 DEF ThreadTypes, process_xrun, AudioIdle, AudioType, StreamType, Run
  <2> QED  BY <1>0, <2>1, <2>2, <2>3, TypesKept DEF Types
<1>10. ASSUME NEW s \in Sinks, process_stop_sink(s)
      PROVE  Types'
  <2>1. UNCHANGED <<user_vars, data_vars, blocks, sinks, events, next_id, need_start>>
    BY <1>10 DEF process_stop_sink, user_vars, data_vars, sink_vars, bound_vars
  <2>2. ThreadTypes'
    BY <1>0, <1>10 DEF ThreadTypes, process_stop_sink, AudioIdle, AudioType, StreamType, Run
  <2> QED  BY <1>0, <2>1, <2>2, TypesKept DEF Types
<1>11. ASSUME NEW s \in Sinks, start_sink(s)
      PROVE  Types'
  <2>1. UNCHANGED <<user_vars, data_vars, blocks>>
    BY <1>11 DEF start_sink, user_vars, data_vars, sink_vars, bound_vars
  <2>2. SinkTypes'
    <3>1. <<>> \in Seq(Int)
      OBVIOUS
    <3>2. \E x : Put(s, x)
      BY <1>0, <1>11, <3>1, RequestsPut DEF start_sink
    <3>3. UNCHANGED <<events, next_id, need_start>>
      BY <1>11 DEF start_sink, bound_vars
    <3> QED  BY <1>0, <3>2, <3>3, PutTypes DEF SinkTypes
  <2>3. ThreadTypes'
    BY <1>0, <1>11 DEF ThreadTypes, start_sink, AudioIdle, AudioType, StreamType, Run
  <2> QED  BY <1>0, <2>1, <2>2, <2>3, TypesKept DEF Types
<1> QED  BY <1>1, <1>2, <1>3, <1>4, <1>5, <1>6, <1>7, <1>8, <1>9, <1>10, <1>11 DEF Audio

\* A thread that goes on with the next part of send.
LEMMA GoToTypes ==
    ASSUME ThreadTypes, UNCHANGED audio,
           NEW pc \in {"idle", "dispatch", "start", "collect", "xruns", "empty", "data", "resend"},
           GoTo(pc)
    PROVE  ThreadTypes' /\ sender'.pc = pc
  BY DEF ThreadTypes, GoTo, SenderIdle, SenderType

LEMMA CachedTypes ==
    ASSUME SinkTypes, NEW S \in SUBSET Sinks
    PROVE  Cached(S) \in SUBSET [sink : Sinks, id : Int]
  BY DEF SinkTypes, SinkType, Cached

\* The next block: what the history and the sequence become.
LEMMA BlockTypes ==
    ASSUME DataTypes, NEW block \in Int, NEW cached, SendBlock(block, cached), sequence # Invalid
    PROVE  sequence' \in Nat /\ sequence' = sequence + 1 /\ history' \in Seq(BlockType)
<1> DEFINE b == [seq |-> sequence, format |-> format, block |-> block]
<1>1. sequence \in Nat /\ b \in BlockType
  BY DEF DataTypes, BlockType, Invalid
<1>2. history' = Push(b)
  BY DEF SendBlock
<1> HIDE DEF b
<1>3. Push(b) \in Seq(BlockType)
  <2>1. history \in Seq(BlockType) /\ Append(history, b) \in Seq(BlockType)
    BY <1>1 DEF DataTypes
  <2>2. HistorySize # 0 /\ ~(Len(history) < HistorySize) => history # <<>>
    BY <2>1, SinksAssumption
  <2>3. history # <<>> => Append(Tail(history), b) \in Seq(BlockType)
    BY <1>1, <2>1
  <2> QED  BY <2>1, <2>2, <2>3 DEF Push
<1> QED  BY <1>1, <1>2, <1>3 DEF SendBlock

LEMMA SendKeepsTypes == Types /\ Send => Types'
<1> SUFFICES ASSUME Types, Send
             PROVE  Types'
  OBVIOUS
<1>0. UserTypes /\ DataTypes /\ SinkTypes /\ ThreadTypes
  BY DEF Types
<1>1. CASE send
  <2>1. UNCHANGED <<user_vars, data_vars, blocks, sinks, events, next_id, need_start>>
    BY <1>1 DEF send, send_vars, user_vars, data_vars, sink_vars, bound_vars
  <2>2. ThreadTypes'
    <3>1. UNCHANGED audio
      BY <1>1 DEF send, send_vars
    <3> QED  BY <1>0, <1>1, <3>1, TypesKept, GoToTypes DEF send
  <2> QED  BY <1>0, <2>1, <2>2, TypesKept DEF Types
<1>2. CASE dispatch_requests
  <2>1. UNCHANGED <<user_vars, data_vars, blocks, sinks, events, next_id, need_start>>
    BY <1>2 DEF dispatch_requests, send_vars, user_vars, data_vars, sink_vars, bound_vars
  <2>2. ThreadTypes'
    <3>1. UNCHANGED audio
      BY <1>2 DEF dispatch_requests, send_vars
    <3> QED  BY <1>0, <1>2, <3>1, TypesKept, GoToTypes DEF dispatch_requests
  <2> QED  BY <1>0, <2>1, <2>2, TypesKept DEF Types
<1>3. CASE send_start_not
  <2>1. UNCHANGED <<user_vars, data_vars, blocks, sinks, events, next_id, need_start>>
    BY <1>3 DEF send_start_not, send_vars, user_vars, data_vars, sink_vars, bound_vars
  <2>2. ThreadTypes'
    BY <1>0, <1>3, GoToTypes DEF send_start_not, send_vars
  <2> QED  BY <1>0, <2>1, <2>2, TypesKept DEF Types
<1>4. CASE send_start
  <2>1. UNCHANGED <<user_vars, data_vars, blocks>>
    BY <1>4 DEF send_start, send_vars, user_vars, data_vars, sink_vars, bound_vars
  <2>2. SinkTypes'
    <3>1. UNCHANGED <<sinks, events, next_id>> /\ need_start' \in BOOLEAN
      BY <1>4 DEF send_start, send_vars, bound_vars
    <3> QED  BY <1>0, <3>1 DEF SinkTypes
  <2>3. ThreadTypes'
    BY <1>0, <1>4, GoToTypes DEF send_start, send_vars
  <2> QED  BY <1>0, <2>1, <2>2, <2>3, TypesKept DEF Types
<1>5. CASE send_start_msg
  <2>1. UNCHANGED <<user_vars, data_vars, blocks>>
    BY <1>5 DEF send_start_msg, send_vars, user_vars, data_vars, sink_vars, bound_vars
  <2>2. SinkTypes'
    <3>1. UNCHANGED <<events, next_id, need_start>>
      BY <1>5 DEF send_start_msg, send_vars, bound_vars
    <3>2. ASSUME NEW s \in Sinks
          PROVE  [sinks[s] EXCEPT !.need = FALSE] \in SinkType
      BY <1>0 DEF SinkTypes, SinkType
    <3>3. sinks' \in [Sinks -> SinkType]
      BY <1>5, <3>2 DEF send_start_msg
    <3> QED  BY <1>0, <3>1, <3>3 DEF SinkTypes
  <2>3. ThreadTypes'
    BY <1>0, <1>5, GoToTypes DEF send_start_msg, send_vars
  <2> QED  BY <1>0, <2>1, <2>2, <2>3, TypesKept DEF Types
<1>6. CASE send_xruns
  <2>1. UNCHANGED <<user_vars, sinks, events, next_id, need_start>>
    BY <1>6 DEF send_xruns, send_vars, user_vars, data_vars, sink_vars, bound_vars
  <2>2. DataTypes'
    <3>1. UNCHANGED <<encoder, format, audio_queue, blocks>> /\ xruns' \in Int
      BY <1>0, <1>6 DEF send_xruns, send_vars, bound_vars, DataTypes
    <3>2. CASE UNCHANGED <<sequence, history>>
      BY <1>0, <3>1, <3>2 DEF DataTypes
    <3>3. CASE SendBlock(0, Cached(Active)) /\ sequence # Invalid
      <4>1. sequence' \in Nat /\ history' \in Seq(BlockType)
        BY <1>0, <3>3, BlockTypes
      <4> QED  BY <1>0, <3>1, <4>1 DEF DataTypes
    <3> QED  BY <1>6, <3>2, <3>3 DEF send_xruns
  <2>3. ThreadTypes'
    <3>1. UNCHANGED audio
      BY <1>6 DEF send_xruns, send_vars
    <3>2. CASE GoTo("data")
      BY <1>0, <3>1, <3>2, GoToTypes
    <3>3. CASE sender' = [pc |-> "empty", cached |-> Cached(Active), count |-> xruns - 1]
      <4>1. Cached(Active) \in SUBSET [sink : Sinks, id : Int] /\ xruns - 1 \in Int
        BY <1>0, CachedTypes DEF Active, Present, DataTypes
      <4> QED  BY <1>0, <3>1, <3>3, <4>1 DEF ThreadTypes, SenderType
    <3> QED  BY <1>6, <3>2, <3>3 DEF send_xruns
  <2> QED  BY <1>0, <2>1, <2>2, <2>3, TypesKept DEF Types
<1>7. CASE send_empty_block
  <2>1. UNCHANGED <<user_vars, sinks, events, next_id, need_start>>
    BY <1>7 DEF send_empty_block, send_vars, user_vars, data_vars, sink_vars, bound_vars
  <2>2. DataTypes'
    <3>1. UNCHANGED <<encoder, format, audio_queue, xruns, blocks>>
      BY <1>7 DEF send_empty_block, send_vars, bound_vars
    <3>2. CASE UNCHANGED <<sequence, history>>
      BY <1>0, <3>1, <3>2 DEF DataTypes
    <3>3. CASE SendBlock(0, sender.cached) /\ sequence # Invalid
      <4>1. sequence' \in Nat /\ history' \in Seq(BlockType)
        BY <1>0, <3>3, BlockTypes
      <4> QED  BY <1>0, <3>1, <4>1 DEF DataTypes
    <3> QED  BY <1>7, <3>2, <3>3 DEF send_empty_block
  <2>3. ThreadTypes'
    <3>1. UNCHANGED audio
      BY <1>7 DEF send_empty_block, send_vars
    <3>2. CASE GoTo("data")
      BY <1>0, <3>1, <3>2, GoToTypes
    <3>3. CASE sender' = [sender EXCEPT !.count = @ - 1]
      BY <1>0, <3>1, <3>3 DEF ThreadTypes, SenderType
    <3> QED  BY <1>7, <3>2, <3>3 DEF send_empty_block
  <2> QED  BY <1>0, <2>1, <2>2, <2>3, TypesKept DEF Types
<1>8. CASE send_data_done
  <2>1. UNCHANGED <<user_vars, data_vars, blocks, sinks, events, next_id, need_start>>
    BY <1>8 DEF send_data_done, send_vars, user_vars, data_vars, sink_vars, bound_vars
  <2>2. ThreadTypes'
    BY <1>0, <1>8, GoToTypes DEF send_data_done, send_vars
  <2> QED  BY <1>0, <2>1, <2>2, TypesKept DEF Types
<1>9. CASE send_data
  <2>1. UNCHANGED <<user_vars, sinks, events, next_id, need_start, audio, sender>>
    BY <1>9 DEF send_data, send_vars, user_vars, data_vars, sink_vars, bound_vars
  <2>2. DataTypes'
    <3>1. UNCHANGED <<encoder, format, xruns, blocks>> /\ sequence # Invalid
      BY <1>9 DEF send_data, send_vars, bound_vars
    <3>2. audio_queue' \in Seq(Int) /\ Head(audio_queue) \in Int
      BY <1>0, <1>9 DEF send_data, DataTypes
    <3>3. CASE UNCHANGED <<sequence, history>>
      BY <1>0, <3>1, <3>2, <3>3 DEF DataTypes
    <3>4. CASE SendBlock(Head(audio_queue), Cached(Active))
      <4>1. sequence' \in Nat /\ history' \in Seq(BlockType)
        BY <1>0, <3>1, <3>2, <3>4, BlockTypes
      <4> QED  BY <1>0, <3>1, <3>2, <4>1 DEF DataTypes
    <3> QED  BY <1>9, <3>3, <3>4 DEF send_data
  <2> QED  BY <1>0, <2>1, <2>2, TypesKept DEF Types
<1>10. CASE send_data_fails
  <2>1. UNCHANGED <<user_vars, sinks, events, next_id, need_start>>
    BY <1>10 DEF send_data_fails, send_vars, user_vars, data_vars, sink_vars, bound_vars
  <2>2. DataTypes'
    <3>1. UNCHANGED <<encoder, format, sequence, history, xruns, blocks>>
      BY <1>10 DEF send_data_fails, send_vars, bound_vars
    <3>2. audio_queue' \in Seq(Int)
      BY <1>0, <1>10 DEF send_data_fails, DataTypes
    <3> QED  BY <1>0, <3>1, <3>2 DEF DataTypes
  <2>3. ThreadTypes'
    BY <1>0, <1>10, GoToTypes DEF send_data_fails, send_vars
  <2> QED  BY <1>0, <2>1, <2>2, <2>3, TypesKept DEF Types
<1>11. CASE send_end
  <2>1. UNCHANGED <<user_vars, data_vars, blocks, sinks, events, next_id, need_start>>
    BY <1>11 DEF send_end, send_vars, user_vars, data_vars, sink_vars, bound_vars
  <2>2. ThreadTypes'
    BY <1>0, <1>11, GoToTypes DEF send_end, send_vars
  <2> QED  BY <1>0, <2>1, <2>2, TypesKept DEF Types
<1>12. ASSUME NEW s \in Sinks, resend_data(s)
      PROVE  Types'
  <2>1. UNCHANGED <<user_vars, data_vars, blocks, audio, sender>>
    BY <1>12 DEF resend_data, send_vars, user_vars, data_vars, sink_vars, bound_vars
  <2>2. SinkTypes'
    <3> DEFINE q == Tail(sinks[s].data_requests)
    <3>1. UNCHANGED <<events, next_id, need_start>>
      BY <1>12 DEF resend_data, send_vars, bound_vars
    <3>2. q \in Seq(Int) /\ sinks' = [sinks EXCEPT ![s].data_requests = q]
      BY <1>0, <1>12 DEF resend_data, SinkTypes, SinkType
    <3> HIDE DEF q
    <3>3. \E x : Put(s, x)
      BY <1>0, <1>12, <3>2, RequestsPut
    <3> QED  BY <1>0, <3>1, <3>3, PutTypes DEF SinkTypes
  <2> QED  BY <1>0, <2>1, <2>2, TypesKept DEF Types
<1> QED  BY <1>1, <1>2, <1>3, <1>4, <1>5, <1>6, <1>7, <1>8, <1>9, <1>10, <1>11, <1>12 DEF Send

LEMMA NotifyKeepsTypes ==
    ASSUME Types, NEW t \in notifying, SetNeedStart(t)
    PROVE  Types'
<1>1. /\ UNCHANGED <<user_vars, data_vars, blocks, sinks, events, next_id, audio, sender>>
      /\ need_start' \in BOOLEAN
  BY DEF SetNeedStart, bound_vars
<1>2. UserTypes' /\ DataTypes' /\ ThreadTypes'
  BY <1>1, TypesKept DEF Types
<1>3. SinkTypes'
  BY <1>1 DEF Types, SinkTypes
<1> QED  BY <1>2, <1>3 DEF Types

LEMMA StepTypes == Types /\ [Next]_vars => Types'
<1>1. Types /\ UNCHANGED vars => Types'
  BY TypesKept DEF Types, vars, user_vars, data_vars, sink_vars, bound_vars, thread_vars
<1> QED  BY <1>1, UserKeepsTypes, NetworkKeepsTypes, AudioKeepsTypes, SendKeepsTypes,
            NotifyKeepsTypes DEF Next

-----------------------------------------------------------------------------
(* Steps that keep the streams                                             *)

\* The threads go on, but a new stream is neither begun nor finished.
ThreadsKept ==
    /\ audio'.pc = "new_stream" => /\ audio.pc = "new_stream"
                                   /\ audio'.todo = audio.todo /\ audio'.sink = audio.sink
    /\ audio.pc = "new_stream" => audio'.pc = "new_stream"
    /\ sender'.pc = "collect" => \/ sender.pc = "collect"
                                 \/ audio.pc # "new_stream" /\ sequence # Invalid

\* No sink, stream or message changes.
LEMMA Still ==
    ASSUME IInv, Types', Metadata', ThreadsKept,
           UNCHANGED <<format, sequence, history, sinks, events, next_id, sent>>,
           stream'.st = "run" => stream.st = "run",
           Flagged => Flagged'
    PROVE  IInv'
<1>1. Locks'
  BY DEF IInv, Locks, ThreadsKept
<1>2. History' /\ Consistent'
  BY DEF IInv, History, Consistent
<1>3. Ids'
  BY DEF IInv, Ids, SinkIds, EventIds, MessageIds, Unused
<1>4. Current' = Current
  BY DEF Current, Active, Present, IsActive, Restarting, ThreadsKept
<1>5. Streams'
  BY <1>4 DEF IInv, Streams, Agrees
<1>6. Announced'
  BY <1>4 DEF IInv, Announced, Started, ThreadsKept
<1> QED  BY <1>1, <1>2, <1>3, <1>5, <1>6 DEF IInv

\* The history is emptied, and the stream may have become invalid.
LEMMA Emptied ==
    ASSUME IInv, Types', Metadata',
           UNCHANGED <<sinks, events, next_id, need_start, notifying, audio, sender, sent>>,
           history' = <<>>,
           \/ UNCHANGED <<format, sequence>>
           \/ sequence' = Invalid /\ CanWrite,
           stream'.st = "run" => stream.st = "run"
    PROVE  IInv'
<1>1. Locks'
  BY DEF IInv, Locks, CanWrite
<1>2. Len(history') = 0
  OBVIOUS
<1>3. History' /\ Consistent'
  BY SMTT(30), Zenon, <1>2 DEF IInv, History, Consistent
<1>4. Ids'
  BY DEF IInv, Ids, SinkIds, EventIds, MessageIds, Unused
<1>5. Current' = Current
  BY DEF Current, Active, Present, IsActive, Restarting
<1>6. Streams'
  <2>1. CASE sequence' = Invalid
    BY <2>1 DEF Streams
  <2>2. CASE UNCHANGED <<format, sequence>>
    BY <1>2, <1>5, <2>2 DEF IInv, Streams, Agrees
  <2> QED  BY <2>1, <2>2
<1>7. Announced'
  BY <1>5 DEF IInv, Announced, Started, Flagged
<1> QED  BY <1>1, <1>3, <1>4, <1>6, <1>7 DEF IInv

\* What the metadata is when nobody touches it.
LEMMA MetadataKept ==
    ASSUME Metadata, UNCHANGED <<user_vars, audio>>
    PROVE  Metadata'
  BY DEF Metadata, MetadataOwned, Freed, user_vars

\* The calls that change the stream state and the buffers.
StreamCalls ==
    \/ \E md \in {0, 1} : startStream(md)
    \/ stopStream \/ set_format \/ set_format_rejected \/ setup \/ set_id \/ reset_buffers

LEMMA StreamCallsStep ==
    ASSUME IInv, Types', StreamCalls
    PROVE  IInv'
<1>1. Metadata /\ stream \in StreamType /\ metadata \in Int /\ live \in Int
  BY DEF IInv, Types, UserTypes
<1>2. UNCHANGED <<sinks, events, next_id, need_start, notifying, audio, sender, sent, metadata>>
  BY DEF StreamCalls, startStream, stopStream, set_format, set_format_rejected, setup, set_id,
         reset_buffers, user_vars, sink_vars, thread_vars
<1>3. stream'.st = "run" => stream.st = "run"
  BY <1>1 DEF StreamCalls, startStream, stopStream, set_format, set_format_rejected, setup,
              set_id, reset_buffers, restart_stream, Run, user_vars
<1>4. ASSUME restart_stream, UNCHANGED live
      PROVE  Metadata'
  <2>1. Freed(stream') = Freed(stream)
    BY <1>1, <1>4 DEF restart_stream, Freed, Run
  <2> QED  BY <1>1, <1>2, <1>4, <2>1 DEF Metadata, MetadataOwned
<1>5. ThreadsKept /\ (Flagged => Flagged')
  BY <1>2 DEF ThreadsKept, Flagged
<1>6. ASSUME NEW md \in {0, 1}, startStream(md)
      PROVE  IInv'
  <2>1. UNCHANGED <<format, sequence, history>>
    BY <1>6 DEF startStream, data_vars
  <2>2. Metadata'
    <3>1. stream' = [st |-> "start", md |-> md] /\ live' = live + md - Freed(stream)
      BY <1>6 DEF startStream
    <3>2. Freed(stream') = md /\ Freed(stream) \in Int /\ md \in Int
      BY <1>1, <3>1 DEF Freed, StreamType
    <3>3. live' = metadata' + Freed(stream')
      BY <1>1, <1>2, <3>1, <3>2 DEF Metadata, MetadataOwned
    <3> QED  BY <1>1, <1>2, <3>3 DEF Metadata, MetadataOwned
  <2> QED  BY <1>2, <1>3, <1>5, <2>1, <2>2, Still
<1>7. CASE stopStream
  <2>1. UNCHANGED <<format, sequence, history>>
    BY <1>7 DEF stopStream, data_vars
  <2>2. Metadata'
    <3>1. stream' = [st |-> "stop", md |-> 0] /\ live' = live - Freed(stream)
      BY <1>7 DEF stopStream
    <3>2. Freed(stream') = 0 /\ Freed(stream) \in Int
      BY <1>1, <3>1 DEF Freed, StreamType
    <3>3. live' = metadata' + Freed(stream')
      BY <1>1, <1>2, <3>1, <3>2 DEF Metadata, MetadataOwned
    <3> QED  BY <1>1, <1>2, <3>3 DEF Metadata, MetadataOwned
  <2> QED  BY <1>2, <1>3, <1>5, <2>1, <2>2, Still
<1>8. CASE set_format
  <2>1. history' = <<>> /\ sequence' = Invalid /\ CanWrite /\ restart_stream /\ UNCHANGED live
    BY <1>8 DEF set_format, update_buffers
  <2> QED  BY <1>2, <1>3, <1>4, <2>1, Emptied
<1>9. CASE set_format_rejected
  <2>1. UNCHANGED <<format, sequence, history, user_vars>>
    BY <1>9 DEF set_format_rejected
  <2> QED  BY <1>1, <1>2, <1>3, <1>5, <2>1, MetadataKept, Still
<1>10. CASE setup
  <2>1. CanWrite /\ restart_stream /\ UNCHANGED <<live, format>>
    BY <1>10 DEF setup
  <2>2. CASE encoder
    <3>1. history' = <<>> /\ sequence' = Invalid
      BY <1>10, <2>2 DEF setup, update_buffers
    <3> QED  BY <1>2, <1>3, <1>4, <2>1, <3>1, Emptied
  <2>3. CASE ~encoder
    <3>1. UNCHANGED <<sequence, history>>
      BY <1>10, <2>3 DEF setup
    <3> QED  BY <1>2, <1>3, <1>4, <1>5, <2>1, <3>1, Still
  <2> QED  BY <2>2, <2>3
<1>11. CASE set_id
  <2>1. restart_stream /\ UNCHANGED <<live, format, sequence, history>>
    BY <1>11 DEF set_id, data_vars
  <2> QED  BY <1>2, <1>3, <1>4, <1>5, <2>1, Still
<1>12. CASE reset_buffers
  <2>1. UNCHANGED <<format, sequence, user_vars>> /\ (history' = history \/ history' = <<>>)
    BY <1>12 DEF reset_buffers
  <2> QED  BY <1>1, <1>2, <1>3, <1>5, <2>1, MetadataKept, Still, Emptied
<1> QED  BY <1>6, <1>7, <1>8, <1>9, <1>10, <1>11, <1>12 DEF StreamCalls

\* The steps of the audio thread outside of make_new_stream.
AudioSteps ==
    \/ process \/ process_stopped \/ process_start_fails
    \/ process_block \/ process_no_encoder \/ process_xrun
    \/ \E s \in Sinks : process_stop_sink(s)

LEMMA AudioStepsStep ==
    ASSUME IInv, Types', AudioSteps
    PROVE  IInv'
<1>1. Metadata /\ stream \in StreamType /\ audio \in AudioType
  BY DEF IInv, Types, UserTypes, ThreadTypes
<1>2. UNCHANGED <<format, sequence, history, sinks, events, next_id, need_start, notifying,
                  sender, sent, metadata, live>>
  BY DEF AudioSteps, process, process_stopped, process_start_fails, process_block,
         process_no_encoder, process_xrun, process_stop_sink, user_vars, data_vars, sink_vars,
         bound_vars
<1>3. audio.pc # "new_stream" /\ audio'.pc # "new_stream"
  <2>1. audio.pc # "new_stream"
    BY DEF AudioSteps, process, process_stopped, process_start_fails, process_block,
           process_no_encoder, process_xrun, process_stop_sink
  <2>2. CASE process
    BY <1>1, <2>1, <2>2 DEF process, AudioIdle, StreamType
  <2>3. CASE \E s \in Sinks : process_stop_sink(s)
    BY <1>1, <2>1, <2>3 DEF process_stop_sink, AudioType
  <2>4. CASE audio' = AudioIdle
    BY <2>1, <2>4 DEF AudioIdle
  <2> QED  BY <2>1, <2>2, <2>3, <2>4 DEF AudioSteps, process_stopped, process_start_fails,
              process_block, process_no_encoder, process_xrun
<1>4. ThreadsKept /\ (Flagged => Flagged')
  BY <1>2, <1>3 DEF ThreadsKept, Flagged
<1>5. stream' = stream \/ (audio.pc = "stop" /\ stream = audio.full /\ stream' = [st |-> "idle", md |-> 0])
  BY DEF AudioSteps, process, process_stopped, process_start_fails, process_block,
         process_no_encoder, process_xrun, process_stop_sink, user_vars
<1>6. Freed(stream') = Freed(stream) /\ (stream'.st = "run" => stream.st = "run")
  BY <1>1, <1>5 DEF Freed, Metadata
<1>7. audio'.pc \in {"start", "stop"} => audio'.full.st = audio'.pc
  <2>1. CASE process
    BY <1>1, <2>1 DEF process, AudioIdle
  <2>2. CASE \E s \in Sinks : process_stop_sink(s)
    BY <1>1, <2>2 DEF process_stop_sink, AudioType, Metadata
  <2>3. CASE audio' = AudioIdle
    BY <2>3 DEF AudioIdle
  <2> QED  BY <2>1, <2>2, <2>3 DEF AudioSteps, process_stopped, process_start_fails,
              process_block, process_no_encoder, process_xrun
<1>8. Metadata'
  BY <1>1, <1>2, <1>6, <1>7 DEF Metadata, MetadataOwned
<1> QED  BY <1>2, <1>4, <1>6, <1>8, Still

\* The steps of the send thread that send nothing, the messages that are only answered,
\* and the flag of the source.
OtherSteps ==
    \/ send \/ dispatch_requests \/ send_start_not \/ send_start \/ send_data_done
    \/ send_data_fails \/ send_end
    \/ \E s \in Sinks : handle_stop_request(s) \/ handle_ping(s)
    \/ \E t \in notifying : SetNeedStart(t)

LEMMA OtherStepsStep ==
    ASSUME IInv, Types', OtherSteps
    PROVE  IInv'
<1>1. sender \in SenderType /\ Metadata
  BY DEF IInv, Types, ThreadTypes
<1>2. UNCHANGED <<user_vars, format, sequence, history, sinks, events, next_id, audio, sent>>
  BY DEF OtherSteps, send, dispatch_requests, send_start_not, send_start, send_data_done,
         send_data_fails, send_end, handle_stop_request, handle_ping, SetNeedStart, send_vars,
         data_vars, bound_vars, thread_vars
<1>3. Metadata'
  BY <1>1, <1>2, MetadataKept
<1>4. /\ sender' = sender \/ sender.pc # "collect"
      /\ sender'.pc = "collect" => sender' = sender \/ (audio.pc # "new_stream" /\ sequence # Invalid)
  <2>1. CASE send_start
    BY <2>1 DEF send_start, At, CanRead
  <2>2. CASE ~send_start
    BY <2>2 DEF OtherSteps, send, dispatch_requests, send_start_not, send_data_done,
           send_data_fails, send_end, handle_stop_request, handle_ping, SetNeedStart,
           At, GoTo, SenderIdle, thread_vars
  <2> QED  BY <2>1, <2>2
<1>5. ThreadsKept
  BY <1>2, <1>4 DEF ThreadsKept
<1>6. ASSUME Flagged
      PROVE  Flagged'
  <2>1. CASE send_start
    BY <2>1 DEF send_start, GoTo, SenderIdle, Flagged
  <2>2. CASE \E t \in notifying : SetNeedStart(t)
    BY <2>2 DEF SetNeedStart, Flagged
  <2>3. CASE UNCHANGED <<need_start, notifying>>
    BY <1>4, <1>6, <2>3 DEF Flagged
  <2>4. send_start \/ (\E t \in notifying : SetNeedStart(t)) \/ UNCHANGED <<need_start, notifying>>
    BY DEF OtherSteps, send, dispatch_requests, send_start_not, send_data_done,
           send_data_fails, send_end, handle_stop_request, handle_ping, send_vars, thread_vars
  <2> QED  BY <2>1, <2>2, <2>3, <2>4
<1>7. stream' = stream
  BY <1>2 DEF user_vars
<1> QED  BY <1>2, <1>3, <1>5, <1>6, <1>7, Still

-----------------------------------------------------------------------------
(* Steps that change a sink                                                *)

\* What may become of a sink: it goes on with its stream, its next stream id has not been
\* used and its flag is set if the stream runs, or it is not current.
SinkGoesOn(s) ==
    s \in Current' =>
        \/ /\ s \in Current /\ sinks'[s].id = sinks[s].id
           /\ sinks[s].need => sinks'[s].need
        \/ /\ Unused(s, sinks'[s].id)
           /\ stream.st = "run" => sinks'[s].need /\ (audio'.pc # "new_stream" => Flagged')

LEMMA SinksGoOn ==
    ASSUME IInv, Types', Metadata', Ids',
           UNCHANGED <<stream, format, sequence, history, sender, sent>>,
           audio'.pc = audio.pc, Flagged => Flagged',
           \A s \in Sinks : SinkGoesOn(s)
    PROVE  IInv'
<1>1. Locks' /\ History' /\ Consistent'
  BY DEF IInv, Locks, History, Consistent
<1>2. Current' \in SUBSET Sinks
  BY DEF Current, Active, Present
<1>3. Streams'
  <2> SUFFICES ASSUME sequence # Invalid, NEW s \in Current', NEW m \in sent,
                      Audible(m), m.sink = s, m.id = sinks'[s].id
               PROVE  Agrees(m)'
    BY DEF Streams
  <2>1. s \in Current /\ sinks'[s].id = sinks[s].id
    BY <1>2 DEF SinkGoesOn, Unused
  <2>2. Agrees(m)
    BY <2>1 DEF IInv, Streams
  <2> QED  BY <2>2 DEF Agrees
<1>4. Announced'
  <2> SUFFICES ASSUME stream.st = "run", NEW s \in Current'
               PROVE  \/ Started(s, sinks'[s].id)
                      \/ sinks'[s].need /\ (audio.pc # "new_stream" => Flagged')
    BY DEF Announced, Started
  <2>1. CASE s \in Current /\ sinks'[s].id = sinks[s].id /\ (sinks[s].need => sinks'[s].need)
    BY <2>1 DEF IInv, Announced
  <2>2. CASE sinks'[s].need /\ (audio'.pc # "new_stream" => Flagged')
    BY <2>2
  <2> QED  BY <1>2, <2>1, <2>2 DEF SinkGoesOn
<1> QED  BY <1>1, <1>3, <1>4 DEF IInv

\* One sink changes, and no new invitation is pending: what remains to be shown of its id.
LEMMA OneSinkIds ==
    ASSUME IInv, NEW s \in Sinks, NEW x, Put(s, x), UNCHANGED sent,
           events' \in SUBSET events, next_id' \in Nat, next_id <= next_id',
           x.id < next_id', x.invite_token < next_id', ~x.added => x.invite_token = Invalid,
           \A e \in events' : e.type = "invite" /\ e.sink = s => e.token # x.id
    PROVE  Ids'
<1>1. /\ sinks' \in [Sinks -> SinkType] /\ sinks'[s] = x
      /\ \A u \in Sinks \ {s} : sinks'[u] = sinks[u]
  BY PutTypes DEF IInv, Types
<1>2. /\ SinkIds /\ EventIds /\ MessageIds /\ next_id \in Nat
      /\ \A u \in Sinks : sinks[u] \in SinkType
  BY DEF IInv, Ids, Types, SinkTypes
<1>3. events \in SUBSET EventType
  BY DEF IInv, Types, SinkTypes
<1>4. ASSUME NEW u \in Sinks
      PROVE  /\ sinks'[u].id < next_id' /\ sinks'[u].invite_token < next_id'
             /\ ~sinks'[u].added => sinks'[u].invite_token = Invalid
  <2>1. CASE u = s
    BY <1>1, <2>1
  <2>2. CASE u # s
    <3>1. /\ sinks'[u] = sinks[u] /\ sinks[u].id \in Int /\ sinks[u].invite_token \in Int
          /\ sinks[u].id < next_id /\ sinks[u].invite_token < next_id
          /\ ~sinks[u].added => sinks[u].invite_token = Invalid
      BY <1>1, <1>2, <2>2 DEF SinkIds, SinkType
    <3>2. sinks[u].id < next_id' /\ sinks[u].invite_token < next_id'
      BY SMTT(30), Zenon, <1>2, <3>1
    <3> QED  BY <3>1, <3>2
  <2> QED  BY <2>1, <2>2
<1>5. ASSUME NEW e \in events'
      PROVE  /\ e.token < next_id'
             /\ e.type = "invite" =>
                   /\ e.token \in Nat /\ e.token # sinks'[e.sink].id
                   /\ Unused(e.sink, e.token)'
  <2>1. e \in events /\ e.sink \in Sinks /\ e.token \in Int
    BY <1>3 DEF EventType
  <2>2. e.token < next_id'
    <3>1. e.token < next_id
      BY <1>2, <2>1 DEF EventIds
    <3> QED  BY <1>2, <2>1, <3>1
  <2>3. ASSUME e.type = "invite"
        PROVE  e.token \in Nat /\ e.token # sinks'[e.sink].id /\ Unused(e.sink, e.token)'
    <3>1. e.token \in Nat /\ e.token # sinks[e.sink].id /\ Unused(e.sink, e.token)
      BY <1>2, <2>1, <2>3 DEF EventIds
    <3>2. e.token # sinks'[e.sink].id
      BY <1>1, <2>1, <2>3, <3>1
    <3>3. Unused(e.sink, e.token)'
      BY <3>1 DEF Unused
    <3> QED  BY <3>1, <3>2, <3>3
  <2> QED  BY <2>2, <2>3
<1>6. \A m \in sent' : Audible(m) => m.id \in Int /\ m.id < next_id'
  <2> SUFFICES ASSUME NEW m \in sent, Audible(m)
               PROVE  m.id \in Int /\ m.id < next_id'
    OBVIOUS
  <2>1. m.id \in Int /\ m.id < next_id
    BY <1>2 DEF MessageIds
  <2> QED  BY <1>2, <2>1
<1> QED  BY <1>4, <1>5, <1>6 DEF Ids, SinkIds, EventIds, MessageIds

\* The step of a thread that changes sink s only.
SinkStep(s) ==
    /\ UNCHANGED <<user_vars, format, sequence, history, sender, sent>>
    /\ audio'.pc = audio.pc /\ audio'.full = audio.full
    /\ \A u \in Sinks \ {s} : u \in Restarting' <=> u \in Restarting
    /\ events' \in SUBSET events
    /\ next_id' \in Nat /\ next_id <= next_id'
    /\ Flagged => Flagged'

\* The tokens of a sink that stays or is new.
TokenKept(s, x) ==
    \/ x.added = sinks[s].added /\ x.invite_token = sinks[s].invite_token
    \/ x.invite_token = Invalid

LEMMA OneSink ==
    ASSUME IInv, Types', NEW s \in Sinks, NEW x, Put(s, x), SinkStep(s), TokenKept(s, x),
           x.id < next_id', \A e \in events' : e.type = "invite" /\ e.sink = s => e.token # x.id,
           SinkGoesOn(s)
    PROVE  IInv'
<1>1. /\ sinks' \in [Sinks -> SinkType] /\ sinks'[s] = x
      /\ \A u \in Sinks \ {s} : sinks'[u] = sinks[u]
  BY PutTypes DEF IInv, Types
<1>2. next_id' \in Nat /\ next_id <= next_id' /\ next_id \in Nat /\ next_id > 0
  BY DEF SinkStep, IInv, Types, SinkTypes
<1>3. x.invite_token < next_id' /\ (~x.added => x.invite_token = Invalid)
  <2>1. CASE x.added = sinks[s].added /\ x.invite_token = sinks[s].invite_token
    <3>1. /\ sinks[s].invite_token < next_id
          /\ ~sinks[s].added => sinks[s].invite_token = Invalid
      BY DEF IInv, Ids, SinkIds
    <3>2. x.invite_token \in Int
      BY DEF Put, SinkType
    <3>3. x.invite_token < next_id'
      BY <1>2, <2>1, <3>1, <3>2
    <3> QED  BY <2>1, <3>1, <3>3
  <2>2. CASE x.invite_token = Invalid
    BY <1>2, <2>2 DEF Invalid
  <2> QED  BY <2>1, <2>2 DEF TokenKept
<1>4. Ids'
  BY <1>2, <1>3, OneSinkIds DEF SinkStep
<1>5. Metadata'
  BY DEF IInv, Metadata, MetadataOwned, Freed, SinkStep, user_vars
<1>6. ASSUME NEW u \in Sinks
      PROVE  SinkGoesOn(u)
  <2>1. CASE u = s
    BY <2>1
  <2>2. CASE u # s
    <3>1. sinks'[u] = sinks[u] /\ (u \in Restarting' <=> u \in Restarting)
      BY <1>1, <2>2 DEF SinkStep
    <3>2. u \in Current' => u \in Current
      BY <3>1 DEF Current, Active, Present, IsActive
    <3> QED  BY <3>1, <3>2 DEF SinkGoesOn
  <2> QED  BY <2>1, <2>2
<1>7. UNCHANGED <<stream, format, sequence, history, sender, sent>>
  BY DEF SinkStep, user_vars
<1> QED  BY <1>4, <1>5, <1>6, <1>7, SinksGoOn DEF SinkStep

\* The sink keeps its stream id, or has none.
LEMMA SinkKept ==
    ASSUME IInv, Types', NEW s \in Sinks, NEW x, Put(s, x), SinkStep(s), TokenKept(s, x),
           \/ x.id = Invalid
           \/ s \in Restarting' /\ x.id = sinks[s].id
           \/ /\ x.id = sinks[s].id /\ x.added = sinks[s].added
              /\ sinks[s].need => x.need
              /\ s \in Restarting => s \in Restarting'
    PROVE  IInv'
<1>1. sinks'[s] = x
  BY PutTypes DEF IInv, Types
<1>2. SinkGoesOn(s)
  <2>1. CASE x.id = Invalid
    BY <1>1, <2>1 DEF SinkGoesOn, Current, Active, Present, IsActive
  <2>2. CASE s \in Restarting'
    BY <2>2 DEF SinkGoesOn, Current
  <2>3. CASE /\ x.id = sinks[s].id /\ x.added = sinks[s].added
             /\ sinks[s].need => x.need
             /\ s \in Restarting => s \in Restarting'
    <3>1. s \in Current' => s \in Current
      BY <1>1, <2>3 DEF Current, Active, Present, IsActive
    <3> QED  BY <1>1, <2>3, <3>1 DEF SinkGoesOn
  <2> QED  BY <2>1, <2>2, <2>3
<1>3. next_id' \in Nat /\ next_id <= next_id' /\ next_id \in Nat
  BY DEF SinkStep, IInv, Types, SinkTypes
<1>4. x.id < next_id'
  <2>1. CASE x.id = Invalid
    BY <1>3, <2>1, InvalidIsNoId
  <2>2. CASE x.id = sinks[s].id
    <3>1. sinks[s].id < next_id /\ sinks[s].id \in Int
      BY DEF IInv, Ids, SinkIds, Types, SinkTypes, SinkType
    <3> QED  BY <1>3, <2>2, <3>1
  <2> QED  BY <2>1, <2>2
<1>5. \A e \in events' : e.type = "invite" /\ e.sink = s => e.token # x.id
  <2> SUFFICES ASSUME NEW e \in events', e.type = "invite", e.sink = s
               PROVE  e.token # x.id
    OBVIOUS
  <2>1. e \in events /\ EventIds
    BY DEF SinkStep, IInv, Ids
  <2>2. e.token \in Nat /\ e.token # sinks[s].id
    BY <2>1 DEF EventIds
  <2>3. e.token # Invalid
    BY <2>2, InvalidIsNoId
  <2> QED  BY <2>2, <2>3
<1> QED  BY <1>2, <1>4, <1>5, OneSink

\* The sink gets a stream id that has not been used.
LEMMA SinkRestarted ==
    ASSUME IInv, Types', NEW s \in Sinks, NEW x, Put(s, x), SinkStep(s), TokenKept(s, x),
           x.id < next_id', Unused(s, x.id),
           \A e \in events' : e.type = "invite" /\ e.sink = s => e.token # x.id,
           stream.st = "run" => x.need /\ (audio.pc # "new_stream" => Flagged')
    PROVE  IInv'
<1>1. sinks'[s] = x
  BY PutTypes DEF IInv, Types
<1>2. SinkGoesOn(s)
  BY <1>1 DEF SinkGoesOn, SinkStep
<1> QED  BY <1>2, OneSink

\* The next stream id has not been used.
LEMMA NextIdUnused ==
    ASSUME IInv, NEW s \in Sinks
    PROVE  /\ Unused(s, next_id)
           /\ \A e \in events : e.token # next_id
<1>1. next_id \in Nat /\ EventIds /\ MessageIds /\ \A e \in events : e.token \in Int
  BY DEF IInv, Ids, Types, SinkTypes, EventType
<1>2. ASSUME NEW m \in sent, Audible(m)
      PROVE  m.id # next_id
  <2>1. m.id \in Int /\ m.id < next_id
    BY <1>1, <1>2 DEF MessageIds
  <2> QED  BY <1>1, <2>1
<1>3. ASSUME NEW e \in events
      PROVE  e.token # next_id
  <2>1. e.token \in Int /\ e.token < next_id
    BY <1>1 DEF EventIds
  <2> QED  BY <1>1, <2>1
<1> QED  BY <1>2, <1>3 DEF Unused
=============================================================================
