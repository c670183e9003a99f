-------------------------- MODULE SinkStreamProofs --------------------------
(***************************************************************************)
(* Proofs about SinkStream, for any number of streams, formats, blocks and *)
(* packets.  The inductive invariant IInv adds to the properties what the  *)
(* threads know between two of their steps.                                *)
(***************************************************************************)
EXTENDS SinkStream, SequenceTheorems, TLAPS

\* The network thread: between the two halves of a handler the message it works on
\* stays what it was, and the room it saw in the packet queue is still there.
NetworkInv ==
    /\ network.pc = "start" => /\ network.id \in Created
                               /\ network.format = stream_format[network.id]
    /\ network.pc = "data" => network.id \in Ids /\ Len(packet_queue) < MaxQueue

\* The send thread: whatever token it is about to send was drawn by inviteSource.
TokenInv ==
    /\ state = "invite" \/ sending = "invite" => invite_token \in tokens
    /\ \A k \in DOMAIN requestqueue :
          requestqueue[k].type = "invite" => requestqueue[k].token \in tokens

\* The audio thread only works on a stream that has a decoder, which no other thread
\* takes away from it, and only a stream with an id has one.
DecoderInv ==
    /\ processing => decoder # Invalid
    /\ decoder # Invalid => stream_id \in Ids

IInv == TypeOK /\ NetworkInv /\ TokenInv /\ DecoderInv /\ OnlyCurrentStream /\ DecoderFits

-----------------------------------------------------------------------------
LEMMA InitInv == Init => IInv
<1> SUFFICES ASSUME Init PROVE IInv
  OBVIOUS
<1>1. TypeOK
  <2>1. /\ packet_queue \in Seq(Ids) /\ Len(packet_queue) = 0
        /\ jitter \in Seq(Ids) /\ Len(jitter) = 0
        /\ requestqueue \in Seq([type : {"invite", "uninvite"}, token : Ids \cup {Invalid}])
    BY EmptySeq DEF Init
  <2>2. network \in [pc : {"idle", "start", "started", "data"}, id : Ids \cup {Invalid},
                     format : Formats \cup {Invalid}]
    BY DEF Init, Idle
  <2>3. late \in 0 .. MaxLate /\ missing \in 0 .. MaxMissing - 1
    BY BufferAssumption DEF Init, MaxMissing
  <2>4. stream_format \in [Ids -> Formats \cup {Invalid}]
    BY DEF Init
  <2>5. 0 <= MaxQueue /\ 0 <= Capacity
    BY BufferAssumption
  <2> QED  BY <2>1, <2>2, <2>3, <2>4, <2>5 DEF Init, TypeOK
<1>2. NetworkInv /\ TokenInv /\ DecoderInv /\ OnlyCurrentStream /\ DecoderFits
  BY DEF Init, NetworkInv, TokenInv, DecoderInv, OnlyCurrentStream, DecoderFits, Idle
<1> QED  BY <1>1, <1>2 DEF IInv

-----------------------------------------------------------------------------
\* Every step keeps the invariant.
LEMMA NextInv == IInv /\ [Next]_vars => IInv'
<1> SUFFICES ASSUME IInv, [Next]_vars PROVE IInv'
  OBVIOUS
<1> USE InvalidAssumption, BufferAssumption, FormatsAssumption
<1> USE DEF IInv, source, audio, ids, queues
<1>e. /\ <<>> \in Seq(Ids) /\ Len(<<>>) = 0 /\ DOMAIN <<>> = {}
  BY EmptySeq
<1>n. Idle \in [pc : {"idle", "start", "started", "data"}, id : Ids \cup {Invalid},
                format : Formats \cup {Invalid}]
  BY DEF Idle
<1>1. CASE \E s \in Ids, f \in Formats : SourceStart(s, f)
  BY <1>1 DEF SourceStart, TypeOK, NetworkInv, TokenInv, DecoderInv, OnlyCurrentStream, DecoderFits, Created, Idle, MaxMissing
<1>2. CASE SourceStop
  BY <1>2 DEF SourceStop, TypeOK, NetworkInv, TokenInv, DecoderInv, OnlyCurrentStream, DecoderFits, Created, Idle, MaxMissing
<1>3. CASE \E s \in Ids : handle_start(s)
  BY <1>3 DEF handle_start, Arrives, TypeOK, NetworkInv, TokenInv, DecoderInv, OnlyCurrentStream, DecoderFits, Created, Idle, MaxMissing
<1>4. CASE \E s \in Ids : handle_stop(s)
  BY <1>4 DEF handle_stop, StopArrives, TypeOK, NetworkInv, TokenInv, DecoderInv, OnlyCurrentStream, DecoderFits, Created, Idle, MaxMissing
<1>5. CASE \E s \in Ids : handle_decline(s)
  BY <1>5 DEF handle_decline, TypeOK, NetworkInv, TokenInv, DecoderInv, OnlyCurrentStream, DecoderFits, Created, Idle, MaxMissing
<1>6. CASE \E s \in Ids : handle_data(s)
  <2> PICK s \in Ids : handle_data(s)
    BY <1>6
  <2>1. network' = network \/ network' = [Idle EXCEPT !.pc = "data", !.id = s]
    BY DEF handle_data, handle_data_uninvite, handle_data_current
  <2>2. TypeOK'
    <3>1. late' \in 0 .. MaxLate
      BY DEF handle_data, Arrives, TypeOK
    <3>2. network' \in [pc : {"idle", "start", "started", "data"}, id : Ids \cup {Invalid},
                        format : Formats \cup {Invalid}]
      BY <1>n, <2>1 DEF TypeOK
    <3> QED  BY <3>1, <3>2 DEF handle_data, Arrives, handle_data_uninvite, handle_data_current,
                               TypeOK
  <2>3. NetworkInv' /\ TokenInv' /\ DecoderInv' /\ OnlyCurrentStream' /\ DecoderFits'
    BY DEF handle_data, Arrives, handle_data_uninvite, handle_data_current, TypeOK, NetworkInv, TokenInv, DecoderInv, OnlyCurrentStream, DecoderFits, Created, Idle, MaxMissing
  <2> QED  BY <2>2, <2>3
<1>7. CASE handle_start_update
  <2>1. TypeOK'
    <3>1. missing' \in 0 .. MaxMissing - 1 /\ 0 <= Capacity /\ 0 <= MaxQueue
      BY <1>7 DEF handle_start_update, MaxMissing
    <3>2. network' \in [pc : {"idle", "start", "started", "data"}, id : Ids \cup {Invalid},
                        format : Formats \cup {Invalid}]
      BY <1>7, <1>n DEF handle_start_update, TypeOK
    <3>3. /\ packet_queue' \in Seq(Ids) /\ Len(packet_queue') <= MaxQueue
          /\ jitter' \in Seq(Ids) /\ Len(jitter') <= Capacity
      BY <1>7, <1>e, <3>1 DEF handle_start_update, TypeOK
    <3>4. stopped' \in BOOLEAN /\ underrun' \in BOOLEAN /\ did_update' \in BOOLEAN
      BY <1>7 DEF handle_start_update, TypeOK
    <3>5. /\ stream_id' \in Ids \cup {Invalid}
          /\ format_id' \in Formats \cup {Invalid} /\ decoder' \in Formats \cup {Invalid}
          /\ UNCHANGED stream_state
      BY <1>7 DEF handle_start_update, TypeOK
    <3> QED  BY <1>7, <3>1, <3>2, <3>3, <3>4, <3>5 DEF handle_start_update, TypeOK
  <2>2. NetworkInv' /\ TokenInv' /\ DecoderInv' /\ OnlyCurrentStream' /\ DecoderFits'
    BY <1>7 DEF handle_start_update, TypeOK, NetworkInv, TokenInv, DecoderInv, OnlyCurrentStream, DecoderFits, Created, Idle, MaxMissing
  <2> QED  BY <2>1, <2>2
<1>8. CASE handle_start_store
  BY <1>8 DEF handle_start_store, TypeOK, NetworkInv, TokenInv, DecoderInv, OnlyCurrentStream, DecoderFits, Created, Idle, MaxMissing
<1>9. CASE handle_data_push
  BY <1>9 DEF handle_data_push, TypeOK, NetworkInv, TokenInv, DecoderInv, OnlyCurrentStream, DecoderFits, Created, Idle, MaxMissing
<1>10. CASE reset
  <2>1. TypeOK'
    <3>1. 0 <= Capacity /\ 0 <= MaxQueue
      OBVIOUS
    <3>2. stopped' \in BOOLEAN /\ underrun' \in BOOLEAN /\ did_update' \in BOOLEAN
      BY <1>10 DEF reset
    <3>3. /\ packet_queue' \in Seq(Ids) /\ Len(packet_queue') <= MaxQueue
          /\ jitter' \in Seq(Ids) /\ Len(jitter') <= Capacity
      BY <1>10, <1>e, <3>1 DEF reset, TypeOK
    <3> QED  BY <1>10, <3>2, <3>3 DEF reset, TypeOK
  <2>2. NetworkInv' /\ TokenInv' /\ DecoderInv' /\ OnlyCurrentStream' /\ DecoderFits'
    BY <1>10 DEF reset, TypeOK, NetworkInv, TokenInv, DecoderInv, OnlyCurrentStream, DecoderFits, Created, Idle, MaxMissing
  <2> QED  BY <2>1, <2>2
<1>11. CASE \E t \in Ids : inviteSource(t)
  BY <1>11 DEF inviteSource, TypeOK, NetworkInv, TokenInv, DecoderInv, OnlyCurrentStream, DecoderFits, Created, Idle, MaxMissing
<1>12. CASE uninviteSource
  BY <1>12 DEF uninviteSource, TypeOK, NetworkInv, TokenInv, DecoderInv, OnlyCurrentStream, DecoderFits, Created, Idle, MaxMissing
<1>13. CASE uninvite
  BY <1>13 DEF uninvite, TypeOK, NetworkInv, TokenInv, DecoderInv, OnlyCurrentStream, DecoderFits, Created, Idle, MaxMissing
<1>14. CASE invite
  BY <1>14 DEF invite, TypeOK, NetworkInv, TokenInv, DecoderInv, OnlyCurrentStream, DecoderFits, Created, Idle, MaxMissing
<1>15. CASE invite_store
  BY <1>15 DEF invite_store, TypeOK, NetworkInv, TokenInv, DecoderInv, OnlyCurrentStream, DecoderFits, Created, Idle, MaxMissing
<1>16. CASE send_invitation
  BY <1>16 DEF send_invitation, TypeOK, NetworkInv, TokenInv, DecoderInv, OnlyCurrentStream, DecoderFits, Created, Idle, MaxMissing
<1>17. CASE invite_timeout
  BY <1>17 DEF invite_timeout, TypeOK, NetworkInv, TokenInv, DecoderInv, OnlyCurrentStream, DecoderFits, Created, Idle, MaxMissing
<1>18. CASE invite_timeout_store
  BY <1>18 DEF invite_timeout_store, TypeOK, NetworkInv, TokenInv, DecoderInv, OnlyCurrentStream, DecoderFits, Created, Idle, MaxMissing
<1>19. CASE send
  BY <1>19 DEF send, TypeOK, NetworkInv, TokenInv, DecoderInv, OnlyCurrentStream, DecoderFits, Created, Idle, MaxMissing
<1>20. CASE process
  <2>2. TypeOK'
    <3>1. jitter' \in Seq(Ids) /\ Len(jitter') <= Capacity
      BY <1>20, <1>e DEF process, TypeOK
    <3>2. underrun' \in BOOLEAN
      BY <1>20 DEF process, TypeOK
    <3>3. /\ state' \in {"run", "uninvite"}
          /\ stream_state' \in {"active", "inactive", "buffering"}
          /\ stopped' \in BOOLEAN /\ did_update' \in BOOLEAN /\ processing' \in BOOLEAN
      BY <1>20 DEF process, TypeOK
    <3> QED  BY <1>20, <3>1, <3>2, <3>3 DEF process, TypeOK
  <2>3. NetworkInv' /\ TokenInv' /\ DecoderInv' /\ OnlyCurrentStream' /\ DecoderFits'
    BY <1>20 DEF process, NetworkInv, TokenInv, DecoderInv, OnlyCurrentStream, DecoderFits,
                 Created
  <2> QED  BY <2>2, <2>3
<1>21. CASE process_inactive
  BY <1>21 DEF process_inactive, TypeOK, NetworkInv, TokenInv, DecoderInv, OnlyCurrentStream, DecoderFits, Created, Idle, MaxMissing
<1>22. CASE add_packet
  <2>1. TypeOK'
    <3>1. packet_queue' \in Seq(Ids) /\ Len(packet_queue') <= MaxQueue
      BY <1>22, HeadTailProperties DEF add_packet, TypeOK
    <3>2. jitter' \in Seq(Ids) /\ Len(jitter') <= Capacity
      <4>1. Head(packet_queue) \in Ids
        BY <1>22, HeadTailProperties DEF add_packet, TypeOK
      <4>2. CASE UNCHANGED jitter
        BY <4>2 DEF TypeOK
      <4>3. CASE Len(jitter) < Capacity /\ jitter' = Append(jitter, Head(packet_queue))
        BY <4>1, <4>3, AppendProperties DEF TypeOK
      <4>4. CASE jitter' = <<Head(packet_queue)>>
        BY <4>1, <4>4
      <4> QED  BY <1>22, <4>2, <4>3, <4>4 DEF add_packet
    <3> QED  BY <1>22, <3>1, <3>2 DEF add_packet, TypeOK
  <2>2. NetworkInv' /\ TokenInv' /\ DecoderInv' /\ DecoderFits'
    BY <1>22 DEF add_packet, TypeOK, NetworkInv, TokenInv, DecoderInv, DecoderFits, Created
  <2>3. OnlyCurrentStream'
    <3>1. CASE UNCHANGED jitter
      BY <1>22, <3>1 DEF add_packet, OnlyCurrentStream
    <3>2. CASE jitter' = Append(jitter, stream_id)
      BY <1>22, <3>2, DecoderInv, AppendProperties DEF add_packet, OnlyCurrentStream, TypeOK, DecoderInv
    <3>3. CASE jitter' = <<stream_id>>
      BY <1>22, <3>3 DEF add_packet, OnlyCurrentStream
    <3> QED  BY <1>22, <3>1, <3>2, <3>3 DEF add_packet
  <2> QED  BY <2>1, <2>2, <2>3
<1>23. CASE process_blocks
  <2>0. /\ processing /\ processing' = FALSE
        /\ UNCHANGED <<source, invite_token, ids, stopped, did_update, packet_queue,
                       requestqueue, network, sending, invitation>>
    BY <1>23 DEF process_blocks
  <2>b. stopped' \in BOOLEAN /\ did_update' \in BOOLEAN /\ processing' \in BOOLEAN
    BY <2>0 DEF TypeOK
  <2>n. NetworkInv' /\ DecoderInv' /\ DecoderFits'
    BY <2>0 DEF NetworkInv, DecoderInv, DecoderFits, Created
  <2>1. CASE wait_for_blocks
    <3>1. TypeOK' /\ TokenInv' /\ OnlyCurrentStream'
      BY <2>0, <2>1, <2>b DEF wait_for_blocks, TypeOK, TokenInv, OnlyCurrentStream
    <3> QED  BY <2>n, <3>1
  <2>2. CASE play_block
    <3>1. jitter' \in Seq(Ids) /\ Len(jitter') <= Capacity
      BY <2>2, HeadTailProperties DEF play_block, TypeOK
    <3>2. OnlyCurrentStream'
      <4>1. /\ Len(jitter) \in Nat \ {0}
            /\ \A k \in DOMAIN Tail(jitter) : k + 1 \in DOMAIN jitter /\ Tail(jitter)[k] = jitter[k + 1]
        BY <2>2, HeadTailProperties DEF play_block, TypeOK
      <4> QED  BY <2>0, <2>2, <4>1 DEF play_block, OnlyCurrentStream
    <3>3. missing' \in 0 .. MaxMissing - 1
      BY <2>2 DEF play_block, MaxMissing
    <3>4. TypeOK'
      <4>1. stream_state' \in {"active", "inactive", "buffering"} /\ underrun' \in BOOLEAN
        BY <2>2 DEF play_block, TypeOK
      <4> QED  BY <2>0, <2>2, <2>b, <3>1, <3>3, <4>1 DEF play_block, TypeOK
    <3>5. TokenInv'
      BY <2>0, <2>2 DEF play_block, TokenInv
    <3> QED  BY <2>n, <3>2, <3>4, <3>5
  <2>3. CASE play_silence
    <3>1. missing' \in 0 .. MaxMissing - 1
      BY <2>3 DEF play_silence, TypeOK, MaxMissing
    <3>2. stream_state' \in {"active", "inactive", "buffering"} /\ underrun' \in BOOLEAN
      BY <2>3 DEF play_silence, TypeOK
    <3>3. TypeOK' /\ TokenInv' /\ OnlyCurrentStream'
      BY <2>0, <2>3, <2>b, <3>1, <3>2 DEF play_silence, TypeOK, TokenInv, OnlyCurrentStream
    <3> QED  BY <2>n, <3>3
  <2>4. CASE on_underrun
    <3>2. request_queue' \subseteq Ids
      BY <2>0, <2>4 DEF on_underrun, TypeOK, DecoderInv
    <3>3. /\ state' = state \/ state' = "idle"
          /\ stream_state' \in {"active", "inactive", "buffering"} /\ underrun' \in BOOLEAN
          /\ UNCHANGED <<missing, jitter>>
      BY <2>4 DEF on_underrun
    <3>4. TypeOK'
      BY <2>0, <2>b, <3>2, <3>3 DEF TypeOK
    <3>5. TokenInv' /\ OnlyCurrentStream'
      BY <2>0, <3>3 DEF TokenInv, OnlyCurrentStream
    <3> QED  BY <2>n, <3>4, <3>5
  <2> QED  BY <1>23, <2>1, <2>2, <2>3, <2>4 DEF process_blocks
<1>24. CASE remove_source
  <2>1. TypeOK'
    <3>1. missing' \in 0 .. MaxMissing - 1 /\ 0 <= Capacity /\ 0 <= MaxQueue
      BY <1>24 DEF remove_source, MaxMissing
    <3> QED  BY <1>24, <1>e, <1>n, <3>1 DEF remove_source, TypeOK
  <2>2. NetworkInv' /\ TokenInv' /\ DecoderInv' /\ OnlyCurrentStream' /\ DecoderFits'
    BY <1>24 DEF remove_source, TypeOK, NetworkInv, TokenInv, DecoderInv, OnlyCurrentStream, DecoderFits, Created, Idle, MaxMissing
  <2> QED  BY <2>1, <2>2
<1>25. CASE UNCHANGED vars
  BY <1>25 DEF vars, TypeOK, NetworkInv, TokenInv, DecoderInv, OnlyCurrentStream, DecoderFits, Created, Idle, MaxMissing
<1> QED  BY <1>1, <1>2, <1>3, <1>4, <1>5, <1>6, <1>7, <1>8, <1>9, <1>10, <1>11, <1>12, <1>13, <1>14, <1>15, <1>16, <1>17, <1>18, <1>19, <1>20, <1>21, <1>22, <1>23, <1>24, <1>25 DEF Next

-----------------------------------------------------------------------------
\* All of it holds in every state.
THEOREM Invariance == Spec => []IInv
  BY InitInv, NextInv, PTL DEF Spec

\* Type correctness: in particular the packet queue, the jitter buffer and the count of
\* missing blocks stay within their bounds, and stop requests name real streams.
THEOREM TypeCorrect == Spec => []TypeOK
  BY Invariance, PTL DEF IInv

\* However many streams follow each other, and however the threads interleave, the jitter
\* buffer of a stream holds no block of another one (update, add_packet).
THEOREM StreamIsolation == Spec => []OnlyCurrentStream
  BY Invariance, PTL DEF IInv

\* The decoder is always the one for the format of the current stream (handle_start).
THEOREM DecoderIsCurrent == Spec => []DecoderFits
  BY Invariance, PTL DEF IInv

\* Late /data and /stop messages never revive an idle stream (handle_data, handle_stop).
THEOREM IdleIsStable == Spec => IdleStays
<1>1. [Next]_vars => [state = "idle" => state' \in {"idle", "start", "invite"}]_vars
  <2> SUFFICES ASSUME Next, state = "idle"
               PROVE  state' \in {"idle", "start", "invite"}
    OBVIOUS
  <2>1. CASE \/ \E s \in Ids, f \in Formats : SourceStart(s, f)
             \/ SourceStop
             \/ \E t \in Ids : inviteSource(t)
             \/ uninviteSource \/ uninvite \/ invite \/ invite_store
    BY <2>1 DEF SourceStart, SourceStop, inviteSource, uninviteSource, uninvite, invite,
                invite_store, source
  <2>2. CASE \E s \in Ids : handle_start(s) \/ handle_stop(s) \/ handle_decline(s) \/ handle_data(s)
    BY <2>2 DEF handle_start, handle_stop, handle_decline, handle_data, handle_data_uninvite,
                handle_data_current
  <2>3. CASE handle_start_update \/ handle_start_store \/ handle_data_push \/ reset
    BY <2>3 DEF handle_start_update, handle_start_store, handle_data_push, reset
  <2>4. CASE send_invitation \/ invite_timeout \/ invite_timeout_store \/ send
    BY <2>4 DEF send_invitation, invite_timeout, invite_timeout_store, send
  <2>5. CASE process \/ process_inactive \/ add_packet \/ process_blocks \/ remove_source
    BY <2>5 DEF process, process_inactive, add_packet, process_blocks, wait_for_blocks,
                play_block, play_silence, on_underrun, remove_source
  <2> QED  BY <2>1, <2>2, <2>3, <2>4, <2>5 DEF Next
<1> QED  BY <1>1, PTL DEF Spec, IdleStays

=============================================================================
