------------------------- MODULE SourceStreamProofs -------------------------
(***************************************************************************)
(* What a sink gets under a stream id is one stream, and no active sink is *)
(* left without a /start message, for any number of sinks, calls,          *)
(* messages, blocks and streams.                                           *)
(***************************************************************************)
EXTENDS SourceStreamInv

\* A leaf that names no prover is tried with each of these in turn.
USE SMT, Zenon, SMTT(30)

(* Steps that change a sink                                                *)

LEMMA addSinkStep ==
    ASSUME IInv, Types', NEW s \in Sinks, NEW active \in BOOLEAN, addSink(s, active)
    PROVE  IInv'
<1>1. SinkTypes /\ next_id \in Nat
  BY DEF IInv, Types, SinkTypes
<1>2. PICK x : /\ Put(s, x) /\ x.added /\ x.invite_token = Invalid
               /\ x.id = IF active THEN next_id ELSE Invalid
               /\ IsRunning /\ active => x.need
  BY <1>1, addSinkPuts
<1>3. /\ UNCHANGED <<user_vars, format, sequence, history, sender, sent, audio, events>>
      /\ next_id' = IF active THEN next_id + 1 ELSE next_id
      /\ need_start' = need_start /\ NotifyIf(IsRunning /\ active, "user")
  BY DEF addSink, data_vars
<1>4. (Flagged => Flagged') /\ (IsRunning /\ active => Flagged')
  BY <1>3 DEF Flagged, NotifyIf
<1>5. SinkStep(s) /\ TokenKept(s, x)
  BY <1>1, <1>2, <1>3, <1>4 DEF SinkStep, TokenKept, Restarting
<1>6. CASE active
  <2>1. x.id = next_id /\ next_id < next_id'
    BY <1>1, <1>2, <1>3, <1>6
  <2> QED  BY <1>2, <1>3, <1>4, <1>5, <1>6, <2>1, NextIdUnused, SinkRestarted DEF IsRunning
<1>7. CASE ~active
  BY <1>2, <1>5, <1>7, SinkKept
<1> QED  BY <1>6, <1>7

LEMMA removeSinkStep ==
    ASSUME IInv, Types', NEW s \in Sinks, removeSink(s)
    PROVE  IInv'
<1>1. /\ UNCHANGED <<user_vars, format, sequence, history, sender, sent, events, next_id>>
      /\ UNCHANGED <<need_start, notifying>>
      /\ Put(s, NoSink) /\ Erased({s})
  BY EmptySinks DEF removeSink, data_vars, Put
<1>2. audio \in AudioType /\ next_id \in Nat
  BY DEF IInv, Types, ThreadTypes, SinkTypes
<1>3. /\ audio'.pc = audio.pc /\ audio'.full = audio.full
      /\ audio'.todo = audio.todo \ {s}
      /\ audio'.sink = IF audio.sink \in {s} THEN Nobody ELSE audio.sink
  BY <1>1, <1>2 DEF Erased, AudioType
<1>4. \A u \in Sinks \ {s} : u \in Restarting' <=> u \in Restarting
  BY <1>3, SinksAssumption DEF Restarting
<1>5. SinkStep(s)
  BY SMTT(30), Zenon, <1>1, <1>2, <1>3, <1>4 DEF SinkStep, Flagged
<1>6. NoSink.id = Invalid /\ TokenKept(s, NoSink)
  BY EmptySinks DEF TokenKept
<1> QED  BY <1>1, <1>5, <1>6, SinkKept

LEMMA activateStep ==
    ASSUME IInv, Types', NEW s \in Sinks, activate(s)
    PROVE  IInv'
<1>1. SinkTypes /\ next_id \in Nat
  BY DEF IInv, Types, SinkTypes
<1>2. PICK x : /\ Put(s, x) /\ x.added = sinks[s].added /\ x.id = next_id
               /\ IsRunning => x.need
               /\ x.invite_token = sinks[s].invite_token
  BY <1>1, activatePuts
<1>3. /\ UNCHANGED <<user_vars, format, sequence, history, sender, sent, audio, events>>
      /\ next_id' = next_id + 1
      /\ need_start' = need_start /\ NotifyIf(IsRunning, "user")
  BY DEF activate, data_vars
<1>4. (Flagged => Flagged') /\ (IsRunning => Flagged')
  BY <1>3 DEF Flagged, NotifyIf
<1>5. SinkStep(s) /\ TokenKept(s, x)
  BY <1>1, <1>2, <1>3, <1>4 DEF SinkStep, TokenKept, Restarting
<1>6. x.id = next_id /\ next_id < next_id'
  BY SMTT(30), Zenon, <1>1, <1>2, <1>3
<1> QED  BY <1>2, <1>3, <1>4, <1>5, <1>6, NextIdUnused, SinkRestarted DEF IsRunning

LEMMA deactivateStep ==
    ASSUME IInv, Types', NEW s \in Sinks, deactivate(s)
    PROVE  IInv'
<1>1. SinkTypes /\ next_id \in Nat
  BY DEF IInv, Types, SinkTypes
<1>2. PICK x : /\ Put(s, x) /\ x.added = sinks[s].added /\ x.id = Invalid
               /\ x.invite_token = sinks[s].invite_token
  BY <1>1, DeactivatePuts DEF deactivate
<1>3. UNCHANGED <<user_vars, format, sequence, history, sender, sent, audio, events, next_id,
                  need_start, notifying>>
  BY DEF deactivate, data_vars, thread_vars
<1>4. SinkStep(s) /\ TokenKept(s, x)
  BY SMTT(30), Zenon, <1>1, <1>2, <1>3 DEF SinkStep, TokenKept, Restarting, Flagged
<1> QED  BY <1>2, <1>4, SinkKept

\* No sink changes, and the pending invitations become fewer.
LEMMA Answered ==
    ASSUME IInv, Types', events' \in SUBSET events,
           UNCHANGED <<user_vars, format, sequence, history, sinks, sender, sent, audio, next_id,
                       need_start, notifying>>
    PROVE  IInv'
<1>1. Ids'
  BY DEF IInv, Ids, SinkIds, EventIds, MessageIds, Unused
<1>2. Metadata' /\ stream' = stream
  BY MetadataKept DEF IInv, user_vars
<1>3. Flagged => Flagged'
  BY DEF Flagged
<1>4. \A s \in Sinks : SinkGoesOn(s)
  BY DEF SinkGoesOn, Current, Active, Present, IsActive, Restarting
<1> QED  BY <1>1, <1>2, <1>3, <1>4, SinksGoOn

LEMMA handleInviteStep ==
    ASSUME IInv, Types', NEW e \in events, NEW accept \in BOOLEAN, handleInvite(e, accept)
    PROVE  IInv'
<1>1. SinkTypes /\ next_id \in Nat /\ e \in EventType /\ events \in SUBSET EventType
  BY DEF IInv, Types, SinkTypes
<1>2. /\ UNCHANGED <<user_vars, format, sequence, history, sender, sent, audio, next_id, need_start>>
      /\ events' = events \ {e} /\ e.type = "invite"
  BY DEF handleInvite, data_vars
<1>3. CASE sinks[e.sink].added /\ accept
  <2>1. PICK x : /\ Put(e.sink, x) /\ x.added = sinks[e.sink].added /\ x.id = e.token
                 /\ IsRunning => x.need
                 /\ x.invite_token = sinks[e.sink].invite_token
    BY <1>1, <1>3, handleInvitePuts
  <2>2. (Flagged => Flagged') /\ (IsRunning => Flagged')
    BY <1>2, <1>3 DEF Flagged, NotifyIf, handleInvite
  <2>3. SinkStep(e.sink) /\ TokenKept(e.sink, x)
    BY SMTT(30), Zenon, <1>1, <1>2, <2>1, <2>2 DEF SinkStep, TokenKept, Restarting
  <2>4. e.token < next_id' /\ Unused(e.sink, e.token) /\ e.sink \in Sinks
    BY <1>1, <1>2 DEF IInv, Ids, EventIds, EventType
  <2>5. ASSUME NEW f \in events', f.type = "invite", f.sink = e.sink
        PROVE  f.token # e.token
    <3>1. f \in EventType /\ f # e
      BY <1>1, <1>2
    <3> QED  BY <1>1, <1>2, <2>5, <3>1 DEF EventType
  <2> QED  BY SMTT(30), Zenon, <2>1, <2>2, <2>3, <2>4, <2>5, SinkRestarted DEF IsRunning
<1>4. CASE ~(sinks[e.sink].added /\ accept)
  <2>1. sinks' = sinks /\ notifying' = notifying
    BY <1>4 DEF handleInvite, NotifyIf
  <2> QED  BY <1>2, <2>1, Answered
<1> QED  BY <1>3, <1>4

LEMMA handleUninviteStep ==
    ASSUME IInv, Types', NEW e \in events, NEW accept \in BOOLEAN, handleUninvite(e, accept)
    PROVE  IInv'
<1>1. SinkTypes /\ next_id \in Nat /\ e \in EventType /\ e.sink \in Sinks
  BY DEF IInv, Types, SinkTypes, EventType
<1>2. /\ UNCHANGED <<user_vars, format, sequence, history, sender, sent, audio, next_id, need_start,
                     notifying>>
      /\ events' = events \ {e}
  BY DEF handleUninvite, data_vars, thread_vars
<1>3. CASE sinks[e.sink].added /\ accept
  <2>1. PICK x : /\ Put(e.sink, x) /\ x.added = sinks[e.sink].added /\ x.id = Invalid
                 /\ x.invite_token = sinks[e.sink].invite_token
    BY <1>1, <1>3, DeactivatePuts DEF handleUninvite
  <2>2. SinkStep(e.sink) /\ TokenKept(e.sink, x)
    BY SMTT(30), Zenon, <1>1, <1>2, <2>1 DEF SinkStep, TokenKept, Restarting, Flagged
  <2> QED  BY <1>1, <2>1, <2>2, SinkKept
<1>4. CASE ~(sinks[e.sink].added /\ accept)
  <2>1. sinks' = sinks
    BY <1>4 DEF handleUninvite
  <2> QED  BY <1>2, <2>1, Answered
<1> QED  BY <1>3, <1>4

LEMMA removeAllStep ==
    ASSUME IInv, Types', removeAll
    PROVE  IInv'
<1>1. /\ UNCHANGED <<user_vars, format, sequence, history, sender, sent, events, next_id>>
      /\ UNCHANGED <<need_start, notifying>>
      /\ sinks' = [s \in Sinks |-> NoSink] /\ Erased(Sinks)
  BY DEF removeAll, data_vars
<1>2. audio \in AudioType /\ next_id \in Nat /\ events \in SUBSET EventType
  BY DEF IInv, Types, ThreadTypes, SinkTypes
<1>3. audio'.pc = audio.pc /\ audio'.full = audio.full
  BY <1>1, <1>2 DEF Erased, AudioType
<1>4. Metadata' /\ stream' = stream /\ (Flagged => Flagged')
  BY <1>1, <1>3 DEF IInv, Metadata, MetadataOwned, Freed, user_vars, Flagged
<1>5. \A s \in Sinks : sinks'[s].id = Invalid /\ sinks'[s].invite_token = Invalid
  BY <1>1, EmptySinks
<1>6. \A s \in Sinks : SinkGoesOn(s)
  BY <1>5 DEF SinkGoesOn, Current, Active, Present, IsActive
<1>7. SinkIds' /\ MessageIds'
  <2>1. Invalid < next_id
    BY <1>2 DEF Invalid
  <2>2. SinkIds'
    BY <1>1, <1>5, <2>1 DEF SinkIds
  <2>3. MessageIds'
    BY <1>1 DEF IInv, Ids, MessageIds
  <2> QED  BY <2>2, <2>3
<1>8. EventIds'
  <2> SUFFICES ASSUME NEW e \in events
               PROVE  /\ e.token < next_id
                      /\ e.type = "invite" =>
                            /\ e.token \in Nat /\ e.token # sinks'[e.sink].id
                            /\ Unused(e.sink, e.token)'
    BY <1>1 DEF EventIds
  <2>1. /\ e.token < next_id
        /\ e.type = "invite" => e.token \in Nat /\ Unused(e.sink, e.token)
    BY DEF IInv, Ids, EventIds
  <2>2. e.sink \in Sinks
    BY <1>2 DEF EventType
  <2>3. e.token \in Nat => e.token # sinks'[e.sink].id
    BY <1>5, <2>2 DEF Invalid
  <2>4. Unused(e.sink, e.token) => Unused(e.sink, e.token)'
    BY <1>1 DEF Unused
  <2> QED  BY <2>1, <2>3, <2>4
<1>9. Ids'
  BY <1>7, <1>8 DEF Ids
<1> QED  BY <1>1, <1>3, <1>4, <1>6, <1>9, SinksGoOn

LEMMA handle_start_requestStep ==
    ASSUME IInv, Types', NEW s \in Sinks, handle_start_request(s)
    PROVE  IInv'
<1>1. SinkTypes /\ next_id \in Nat
  BY DEF IInv, Types, SinkTypes
<1>2. PICK x : /\ Put(s, x) /\ x.added = sinks[s].added /\ x.id = sinks[s].id /\ x.need
               /\ x.invite_token = sinks[s].invite_token
  BY <1>1, handle_start_requestPuts
<1>3. /\ UNCHANGED <<user_vars, format, sequence, history, sender, sent, audio, events, next_id>>
      /\ NotifyIf(TRUE, "network")
  BY DEF handle_start_request, data_vars
<1>4. Flagged => Flagged'
  BY <1>3 DEF Flagged, NotifyIf
<1>5. SinkStep(s) /\ TokenKept(s, x) /\ (s \in Restarting => s \in Restarting')
  BY SMTT(30), Zenon, <1>1, <1>2, <1>3, <1>4 DEF SinkStep, TokenKept, Restarting
<1> QED  BY <1>2, <1>5, SinkKept

\* Only what a sink asks for changes.
LEMMA AskedStep ==
    ASSUME IInv, Types', NEW s \in Sinks, NEW x, Put(s, x),
           x.added = sinks[s].added, x.id = sinks[s].id,
           x.need = sinks[s].need, x.invite_token = sinks[s].invite_token,
           UNCHANGED <<user_vars, format, sequence, history, sender, sent, audio, events, next_id,
                       need_start, notifying>>
    PROVE  IInv'
<1>1. next_id \in Nat
  BY DEF IInv, Types, SinkTypes
<1>2. Restarting' = Restarting /\ (Flagged' <=> Flagged)
  BY DEF Restarting, Flagged
<1>3. SinkStep(s)
  BY <1>1, <1>2 DEF SinkStep
<1>4. TokenKept(s, x)
  BY DEF TokenKept
<1> QED  BY <1>2, <1>3, <1>4, SinkKept

LEMMA handle_data_requestStep ==
    ASSUME IInv, Types', NEW s \in Sinks, NEW id \in Int, NEW seq \in Int,
           handle_data_request(s, id, seq)
    PROVE  IInv'
<1> DEFINE q == Append(sinks[s].data_requests, seq)
<1>1. SinkTypes /\ q \in Seq(Int) /\ sinks' = [sinks EXCEPT ![s].data_requests = q]
  BY DEF IInv, Types, SinkTypes, SinkType, handle_data_request
<1> HIDE DEF q
<1>2. PICK x : /\ Put(s, x) /\ x.added = sinks[s].added /\ x.id = sinks[s].id
               /\ x.need = sinks[s].need /\ x.invite_token = sinks[s].invite_token
  BY <1>1, RequestsPut
<1>3. UNCHANGED <<user_vars, format, sequence, history, sender, sent, audio, events, next_id,
                  need_start, notifying>>
  BY DEF handle_data_request, data_vars, thread_vars
<1> QED  BY <1>2, <1>3, AskedStep

\* An invitation for a token that the sink has not been invited with: the next id.
LEMMA handle_inviteStep ==
    ASSUME IInv, Types', NEW s \in Sinks,
           NEW token \in {sinks[s].invite_token, next_id} \ {Invalid}, handle_invite(s, token)
    PROVE  IInv'
<1>1. /\ SinkTypes /\ next_id \in Nat /\ next_id > 0 /\ events \in SUBSET EventType
      /\ SinkIds /\ EventIds /\ MessageIds
  BY DEF IInv, Ids, Types, SinkTypes
<1>2. /\ sinks[s].invite_token \in Int /\ sinks[s].invite_token < next_id /\ sinks[s].id \in Int
      /\ sinks[s].id < next_id
      /\ ~sinks[s].added => sinks[s].invite_token = Invalid
  BY <1>1 DEF SinkIds, SinkTypes, SinkType
<1>3. token \in Int
  BY <1>1, <1>2
<1>4. PICK x : /\ Put(s, x) /\ x.added /\ x.invite_token = token
               /\ sinks[s].added => x.id = sinks[s].id /\ x.need = sinks[s].need
               /\ ~sinks[s].added => x.id = Invalid
  BY <1>1, <1>3, handle_invitePuts
<1>5. /\ UNCHANGED <<user_vars, format, sequence, history, sender, sent, audio, need_start, notifying>>
      /\ next_id' = IF token = next_id THEN next_id + 1 ELSE next_id
  BY DEF handle_invite, data_vars, thread_vars
<1>6. /\ sinks'[s] = x /\ sinks' \in [Sinks -> SinkType]
      /\ \A u \in Sinks \ {s} : sinks'[u] = sinks[u]
  BY <1>1, <1>4, PutTypes
<1>7. next_id' \in Nat /\ next_id <= next_id' /\ token < next_id'
  BY <1>1, <1>2, <1>5
<1>8. \A u \in Sinks : SinkGoesOn(u)
  <2> SUFFICES ASSUME NEW u \in Sinks, u \in Current'
               PROVE  /\ u \in Current /\ sinks'[u].id = sinks[u].id
                      /\ sinks[u].need => sinks'[u].need
    BY DEF SinkGoesOn
  <2>1. /\ sinks[u].added => sinks'[u].id = sinks[u].id /\ sinks'[u].need = sinks[u].need
        /\ ~sinks[u].added => sinks'[u].id = Invalid \/ ~sinks'[u].added
    BY <1>4, <1>6
  <2>2. sinks[u].added /\ sinks'[u].id # Invalid /\ u \notin Restarting
    BY <1>5, <2>1 DEF Current, Active, Present, IsActive, Restarting
  <2> QED  BY <2>1, <2>2 DEF Current, Active, Present, IsActive
<1>9. SinkIds'
  <2> SUFFICES ASSUME NEW u \in Sinks
               PROVE  /\ sinks'[u].id < next_id' /\ sinks'[u].invite_token < next_id'
                      /\ ~sinks'[u].added => sinks'[u].invite_token = Invalid
    BY DEF SinkIds
  <2>1. CASE u = s
    <3>1. x.id < next_id'
      BY SMTT(30), Zenon, <1>1, <1>2, <1>4, <1>7, InvalidIsNoId
    <3> QED  BY <1>4, <1>6, <1>7, <2>1, <3>1
  <2>2. CASE u # s
    <3>1. /\ sinks[u].invite_token \in Int /\ sinks[u].invite_token < next_id
          /\ sinks[u].id \in Int /\ sinks[u].id < next_id
          /\ ~sinks[u].added => sinks[u].invite_token = Invalid
      BY <1>1 DEF SinkIds, SinkTypes, SinkType
    <3>2. sinks[u].invite_token < next_id' /\ sinks[u].id < next_id'
      BY <1>1, <1>7, <3>1
    <3> QED  BY <1>6, <2>2, <3>1, <3>2
  <2> QED  BY <2>1, <2>2
<1>10. MessageIds'
  <2> SUFFICES ASSUME NEW m \in sent, Audible(m)
               PROVE  m.id \in Int /\ m.id < next_id'
    BY <1>5 DEF MessageIds
  <2>1. m.id \in Int /\ m.id < next_id
    BY <1>1 DEF MessageIds
  <2> QED  BY <1>1, <1>7, <2>1
<1>11. EventIds'
  <2> SUFFICES ASSUME NEW e \in events'
               PROVE  /\ e.token < next_id'
                      /\ e.type = "invite" =>
                            /\ e.token \in Nat /\ e.token # sinks'[e.sink].id
                            /\ Unused(e.sink, e.token)'
    BY DEF EventIds
  <2>1. CASE e \in events
    <3>1. e.token \in Int /\ e.sink \in Sinks
      BY <1>1, <2>1 DEF EventType
    <3>2. e.token < next_id
      BY <1>1, <2>1 DEF EventIds
    <3>3. e.token < next_id'
      BY SMTT(30), Zenon, <1>1, <1>7, <3>1, <3>2
    <3>4. ASSUME e.type = "invite"
          PROVE  e.token \in Nat /\ e.token # sinks'[e.sink].id /\ Unused(e.sink, e.token)'
      <4>1. e.token \in Nat /\ e.token # sinks[e.sink].id /\ Unused(e.sink, e.token)
        BY <1>1, <2>1, <3>4 DEF EventIds
      <4>2. sinks'[e.sink].id = sinks[e.sink].id \/ sinks'[e.sink].id = Invalid
        BY <1>4, <1>6, <3>1
      <4>3. e.token # sinks'[e.sink].id
        BY <4>1, <4>2, InvalidIsNoId
      <4>4. Unused(e.sink, e.token)'
        BY <1>5, <4>1 DEF Unused
      <4> QED  BY <4>1, <4>3, <4>4
    <3> QED  BY <3>3, <3>4
  <2>2. CASE e \notin events
    <3> DEFINE old == IF sinks[s].added THEN sinks[s] ELSE NewSink(Invalid, FALSE)
    <3>1. /\ e = [type |-> "invite", sink |-> s, token |-> token]
          /\ token # old.invite_token
      BY <2>2 DEF handle_invite
    <3>2. token = next_id
      <4>1. Invalid \in Int /\ FALSE \in BOOLEAN
        BY DEF Invalid
      <4>2. NewSink(Invalid, FALSE).invite_token = Invalid
        BY <4>1, EmptySinks
      <4>3. old.invite_token = sinks[s].invite_token
        BY <1>2, <4>2
      <4> QED  BY <3>1, <4>3
    <3>3. e.sink = s /\ e.token = next_id
      BY <3>1, <3>2
    <3>4. x.id # next_id
      BY SMTT(30), Zenon, <1>1, <1>2, <1>4, InvalidIsNoId
    <3>5. next_id < next_id'
      BY <1>7, <3>2
    <3> HIDE DEF old
    <3>6. Unused(e.sink, e.token)'
      BY <1>5, <3>3, NextIdUnused DEF Unused
    <3> QED  BY <1>1, <1>6, <3>3, <3>4, <3>5, <3>6
  <2> QED  BY <2>1, <2>2
<1>12. Ids'
  BY <1>9, <1>10, <1>11 DEF Ids
<1>13. Metadata' /\ stream' = stream /\ (Flagged => Flagged') /\ audio'.pc = audio.pc
  BY <1>5, MetadataKept DEF IInv, user_vars, Flagged
<1> QED  BY <1>5, <1>8, <1>12, <1>13, SinksGoOn

LEMMA handle_uninviteStep ==
    ASSUME IInv, Types', NEW s \in Sinks, NEW token \in Int, handle_uninvite(s, token)
    PROVE  IInv'
<1>1. /\ SinkTypes /\ events \in SUBSET EventType /\ next_id \in Nat
      /\ \A u \in Sinks : sinks[u] \in SinkType
  BY DEF IInv, Types, SinkTypes
<1>2. UNCHANGED <<user_vars, format, sequence, history, sender, sent, audio, next_id, need_start,
                  notifying>>
  BY DEF handle_uninvite, data_vars, thread_vars
<1>3. \A u \in Sinks : /\ sinks'[u].added = sinks[u].added /\ sinks'[u].id = sinks[u].id
                       /\ sinks'[u].need = sinks[u].need
                       /\ sinks'[u].invite_token = sinks[u].invite_token
  <2>1. CASE sinks' = sinks
    BY <2>1
  <2>2. CASE sinks' = [sinks EXCEPT ![s].uninvite_token = token]
    <3>1. PICK x : /\ Put(s, x) /\ x.added = sinks[s].added /\ x.id = sinks[s].id
                   /\ x.need = sinks[s].need /\ x.invite_token = sinks[s].invite_token
      BY <1>1, <2>2, handle_uninvitePuts
    <3>2. sinks'[s] = x /\ \A u \in Sinks \ {s} : sinks'[u] = sinks[u]
      BY <1>1, <3>1, PutTypes
    <3> QED  BY <3>1, <3>2
  <2> QED  BY <2>1, <2>2 DEF handle_uninvite
<1>4. \A u \in Sinks : SinkGoesOn(u)
  BY <1>2, <1>3 DEF SinkGoesOn, Current, Active, Present, IsActive, Restarting
<1>5. SinkIds' /\ MessageIds'
  BY <1>2, <1>3 DEF IInv, Ids, SinkIds, MessageIds
<1>6. EventIds'
  <2> SUFFICES ASSUME NEW e \in events'
               PROVE  /\ e.token < next_id
                      /\ e.type = "invite" =>
                            /\ e.token \in Nat /\ e.token # sinks'[e.sink].id
                            /\ Unused(e.sink, e.token)'
    BY <1>2 DEF EventIds
  <2>1. CASE e \in events
    <3>1. e.sink \in Sinks
      BY <1>1, <2>1 DEF EventType
    <3>2. Unused(e.sink, e.token) => Unused(e.sink, e.token)'
      BY <1>2 DEF Unused
    <3> QED  BY <1>3, <2>1, <3>1, <3>2 DEF IInv, Ids, EventIds
  <2>2. CASE e \notin events
    <3>1. /\ e = [type |-> "uninvite", sink |-> s, token |-> token]
          /\ sinks[s].id = token
      BY <2>2 DEF handle_uninvite
    <3>2. sinks[s].id < next_id
      BY DEF IInv, Ids, SinkIds
    <3> QED  BY <3>1, <3>2
  <2> QED  BY <2>1, <2>2
<1>7. Ids'
  BY <1>5, <1>6 DEF Ids
<1>8. Metadata' /\ stream' = stream /\ (Flagged => Flagged') /\ audio'.pc = audio.pc
  BY <1>2, MetadataKept DEF IInv, user_vars, Flagged
<1> QED  BY <1>2, <1>4, <1>7, <1>8, SinksGoOn

-----------------------------------------------------------------------------
(* make_new_stream                                                         *)

LEMMA process_startStep ==
    ASSUME IInv, Types', process_start
    PROVE  IInv'
<1>1. /\ stream \in StreamType /\ metadata \in Int /\ live \in Int /\ audio \in AudioType
      /\ Metadata
  BY DEF IInv, Types, UserTypes, ThreadTypes
<1>2. /\ UNCHANGED <<format, sinks, events, next_id, sender, sent>>
      /\ stream' = Run /\ metadata' = audio.full.md /\ live' = live - metadata
      /\ stream = audio.full /\ audio.pc = "start" /\ sender.pc # "collect"
      /\ sequence' = 0 /\ history' = <<>>
      /\ audio' = [audio EXCEPT !.pc = "new_stream", !.todo = Present]
  BY DEF process_start, sink_vars, CanWrite
<1>3. audio'.pc = "new_stream" /\ audio'.todo = Present
  BY <1>1, <1>2 DEF AudioType
<1>4. Metadata'
  <2>1. stream.st = "start" /\ stream.md \in Int
    BY <1>1, <1>2 DEF Metadata, StreamType
  <2>2. Freed(stream) = metadata' /\ Freed(stream') = 0
    BY <1>2, <2>1 DEF Freed, Run
  <2>3. live' = metadata' + Freed(stream')
    BY <1>1, <1>2, <2>1, <2>2 DEF Metadata, MetadataOwned
  <2> QED  BY <1>3, <2>3 DEF Metadata, MetadataOwned
<1>5. Current' = {}
  BY <1>2, <1>3 DEF Current, Active, Restarting, Present
<1>6. Locks' /\ Consistent'
  BY <1>2 DEF IInv, Locks, Consistent
<1>7. History'
  <2>1. Len(history') = 0
    BY <1>2
  <2> QED  BY <2>1 DEF History
<1>8. Ids'
  BY <1>2 DEF IInv, Ids, SinkIds, EventIds, MessageIds, Unused
<1>9. Streams' /\ Announced'
  BY <1>5 DEF Streams, Announced
<1> QED  BY <1>4, <1>6, <1>7, <1>8, <1>9 DEF IInv

LEMMA start_sinkStep ==
    ASSUME IInv, Types', NEW s \in Sinks, start_sink(s)
    PROVE  IInv'
<1>1. /\ SinkTypes /\ next_id \in Nat /\ audio \in AudioType /\ <<>> \in Seq(Int)
      /\ sinks' = [sinks EXCEPT ![s].data_requests = <<>>]
  BY DEF IInv, Types, SinkTypes, ThreadTypes, start_sink
<1>2. PICK x : /\ Put(s, x) /\ x.added = sinks[s].added /\ x.id = sinks[s].id
               /\ x.need = sinks[s].need /\ x.invite_token = sinks[s].invite_token
  BY <1>1, RequestsPut
<1>3. /\ UNCHANGED <<user_vars, format, sequence, history, sender, sent, events, next_id>>
      /\ UNCHANGED <<need_start, notifying>>
      /\ audio.pc = "new_stream" /\ audio.sink = Nobody
      /\ audio' = [audio EXCEPT !.todo = @ \ {s}, !.sink = IF IsActive(s) THEN s ELSE Nobody]
  BY DEF start_sink, data_vars, bound_vars
<1>4. /\ audio'.pc = audio.pc /\ audio'.full = audio.full /\ audio'.todo = audio.todo \ {s}
      /\ audio'.sink = IF IsActive(s) THEN s ELSE Nobody
  BY <1>1, <1>3 DEF AudioType
<1>5. \A u \in Sinks \ {s} : u \in Restarting' <=> u \in Restarting
  BY <1>3, <1>4, SinksAssumption DEF Restarting
<1>6. SinkStep(s) /\ TokenKept(s, x)
  BY <1>1, <1>2, <1>3, <1>4, <1>5 DEF SinkStep, TokenKept, Flagged
<1>7. x.id = Invalid \/ s \in Restarting'
  BY <1>2, <1>3, <1>4 DEF IsActive, Restarting
<1> QED  BY <1>2, <1>6, <1>7, SinkKept

LEMMA start_sink_idStep ==
    ASSUME IInv, Types', start_sink_id
    PROVE  IInv'
<1>1. SinkTypes /\ next_id \in Nat /\ audio \in AudioType
  BY DEF IInv, Types, SinkTypes, ThreadTypes
<1>2. /\ UNCHANGED <<user_vars, format, sequence, history, sender, sent, events>>
      /\ UNCHANGED <<need_start, notifying>>
      /\ audio.pc = "new_stream" /\ audio.sink # Nobody
      /\ next_id' = next_id + 1 /\ audio' = [audio EXCEPT !.sink = Nobody]
  BY DEF start_sink_id, data_vars
<1>3. audio.sink \in Sinks
  BY <1>1, <1>2 DEF AudioType
<1>4. PICK x : /\ Put(audio.sink, x) /\ x.added = sinks[audio.sink].added /\ x.id = next_id
               /\ x.need /\ x.invite_token = sinks[audio.sink].invite_token
  BY <1>1, <1>3, start_sink_idPuts
<1>5. /\ audio'.pc = audio.pc /\ audio'.full = audio.full /\ audio'.todo = audio.todo
      /\ audio'.sink = Nobody
  BY <1>1, <1>2 DEF AudioType
<1>6. \A u \in Sinks \ {audio.sink} : u \in Restarting' <=> u \in Restarting
  BY <1>2, <1>5, SinksAssumption DEF Restarting
<1>7. SinkStep(audio.sink) /\ TokenKept(audio.sink, x)
  BY <1>1, <1>2, <1>4, <1>5, <1>6 DEF SinkStep, TokenKept, Flagged
<1>8. x.id < next_id'
  BY <1>1, <1>2, <1>4
<1> QED  BY <1>2, <1>3, <1>4, <1>7, <1>8, NextIdUnused, SinkRestarted

LEMMA process_startedStep ==
    ASSUME IInv, Types', process_started
    PROVE  IInv'
<1>1. /\ UNCHANGED <<user_vars, format, sequence, history, sinks, events, next_id, sender, sent>>
      /\ audio.pc = "new_stream" /\ audio.sink = Nobody /\ audio.todo = {}
      /\ need_start' /\ audio' = [AudioIdle EXCEPT !.pc = "run"]
  BY DEF process_started, data_vars, bound_vars
<1>2. audio'.pc = "run"
  BY <1>1 DEF AudioIdle
<1>3. Metadata'
  BY <1>1, <1>2 DEF IInv, Metadata, MetadataOwned, Freed, user_vars
<1>4. Locks' /\ Consistent' /\ History'
  BY <1>1, <1>2 DEF IInv, Locks, Consistent, History
<1>5. Ids'
  BY <1>1 DEF IInv, Ids, SinkIds, EventIds, MessageIds, Unused
<1>6. Current' = Current
  BY <1>1, <1>2, SinksAssumption DEF Current, Active, Present, IsActive, Restarting
<1>7. Streams'
  BY <1>1, <1>6 DEF IInv, Streams, Agrees
<1>8. Announced'
  BY <1>1, <1>6 DEF IInv, Announced, Started, Flagged, user_vars
<1> QED  BY <1>3, <1>4, <1>5, <1>7, <1>8 DEF IInv

-----------------------------------------------------------------------------
(* Steps that send                                                         *)

\* A message that is sent now is of the current stream of a sink.
Continues(m) == m.sink \in Active /\ m.id = sinks[m.sink].id /\ Agrees(m)'

SameBlock(m, n) ==
    /\ Audible(m) /\ Audible(n) /\ m.sink = n.sink /\ m.id = n.id
    /\ m.type = "data" /\ n.type = "data" /\ m.seq = n.seq
    => m.block = n.block

\* What a step that sends does to the stream: blocks are only added at its end.
StreamGrows ==
    /\ UNCHANGED <<user_vars, format, events, next_id, audio, notifying, need_start>>
    /\ audio.pc # "new_stream" /\ sender'.pc # "collect"
    /\ sequence' \in Nat /\ sequence <= sequence'
    /\ \A i \in 1 .. Len(history') :
          \/ history'[i].seq = sequence
          \/ \E j \in 1 .. Len(history) : history'[i] = history[j]
    /\ \A s \in Sinks : /\ sinks'[s].id = sinks[s].id /\ sinks'[s].added = sinks[s].added
                        /\ sinks'[s].invite_token = sinks[s].invite_token

\* The sinks and what is known of their stream.
LEMMA SinksOfStream ==
    ASSUME IInv, sequence # Invalid, audio.pc # "new_stream"
    PROVE  /\ Current = Active /\ sequence \in Nat
           /\ \A s \in Active : \A m \in sent :
                 Audible(m) /\ m.sink = s /\ m.id = sinks[s].id => Agrees(m)
<1>1. Current = Active /\ sequence \in Nat
  BY DEF Current, Restarting, IInv, Types, DataTypes
<1> QED  BY <1>1 DEF IInv, Streams

LEMMA Sending ==
    ASSUME IInv, Types', History', Announced', NEW M, sent' = sent \cup M, StreamGrows,
           sequence # Invalid,
           \A m \in M : Audible(m) => Continues(m),
           \A m \in M, n \in sent' : SameBlock(m, n)
    PROVE  IInv'
<1>1. /\ Current = Active /\ sequence \in Nat
      /\ \A s \in Active : \A m \in sent :
                 Audible(m) /\ m.sink = s /\ m.id = sinks[s].id => Agrees(m)
  BY SinksOfStream DEF StreamGrows
<1>2. Current' = Current /\ Active \in SUBSET Sinks
  BY DEF StreamGrows, Current, Active, Present, IsActive, Restarting
<1>3. Metadata' /\ Locks'
  BY MetadataKept DEF IInv, StreamGrows, Locks
<1>4. Streams'
  <2> SUFFICES ASSUME NEW s \in Active, NEW m \in sent', Audible(m), m.sink = s,
                      m.id = sinks[s].id
               PROVE  Agrees(m)'
    BY <1>1, <1>2 DEF Streams, StreamGrows
  <2>1. CASE m \in M
    BY <2>1 DEF Continues
  <2>2. CASE m \in sent
    <3>1. Agrees(m)
      BY <1>1, <2>2
    <3>2. format' = format /\ sequence' \in Nat /\ sequence <= sequence'
      BY DEF StreamGrows
    <3>3. ASSUME m.type = "data"
          PROVE  /\ m.seq \in Int /\ m.seq < sequence'
                 /\ \A i \in 1 .. Len(history') :
                      history'[i].seq = m.seq /\ history'[i].block # 0 => history'[i].block = m.block
      <4>1. m.seq \in Int /\ m.seq < sequence
        BY <3>1, <3>3 DEF Agrees
      <4>2. m.seq < sequence' /\ m.seq # sequence
        BY SMTT(30), Zenon, <1>1, <3>2, <4>1
      <4>3. ASSUME NEW i \in 1 .. Len(history'), history'[i].seq = m.seq, history'[i].block # 0
            PROVE  history'[i].block = m.block
        <5>1. PICK j \in 1 .. Len(history) : history'[i] = history[j]
          BY <4>2, <4>3 DEF StreamGrows
        <5> QED  BY <3>1, <3>3, <4>3, <5>1 DEF Agrees
      <4> QED  BY <4>1, <4>2, <4>3
    <3> QED  BY <3>1, <3>2, <3>3 DEF Agrees
  <2> QED  BY <2>1, <2>2
<1>5. Consistent'
  <2> SUFFICES ASSUME NEW m \in sent', NEW n \in sent'
               PROVE  Alike(m, n)
    BY DEF Consistent
  <2>1. ASSUME NEW k \in M, NEW l \in sent', Audible(k), Audible(l), k.sink = l.sink, k.id = l.id
        PROVE  k.format = l.format
    <3>1. k.format = format /\ k.sink \in Active /\ k.id = sinks[k.sink].id
      BY <2>1 DEF Continues, Agrees, StreamGrows
    <3>2. l.format = format
      <4>1. CASE l \in M
        BY <2>1, <4>1 DEF Continues, Agrees, StreamGrows
      <4>2. CASE l \in sent
        BY <1>1, <2>1, <3>1, <4>2 DEF Agrees
      <4> QED  BY <4>1, <4>2
    <3> QED  BY <3>1, <3>2
  <2>2. CASE m \in M
    BY <2>1, <2>2 DEF Alike, SameBlock
  <2>3. CASE n \in M
    BY <2>1, <2>3 DEF Alike, SameBlock
  <2>4. CASE m \in sent /\ n \in sent
    BY <2>4 DEF IInv, Consistent
  <2> QED  BY <2>2, <2>3, <2>4
<1>6. SinkIds'
  BY DEF IInv, Ids, SinkIds, StreamGrows
<1>7. MessageIds'
  <2> SUFFICES ASSUME NEW m \in sent', Audible(m)
               PROVE  m.id \in Int /\ m.id < next_id
    BY DEF MessageIds, StreamGrows
  <2>1. CASE m \in sent
    BY <2>1 DEF IInv, Ids, MessageIds
  <2>2. CASE m \in M
    <3>1. m.sink \in Sinks /\ m.id = sinks[m.sink].id
      BY <1>2, <2>2 DEF Continues
    <3> QED  BY <3>1 DEF IInv, Ids, SinkIds, Types, SinkTypes, SinkType
  <2> QED  BY <2>1, <2>2
<1>8. EventIds'
  <2> SUFFICES ASSUME NEW e \in events
               PROVE  /\ e.token < next_id
                      /\ e.type = "invite" =>
                            /\ e.token \in Nat /\ e.token # sinks'[e.sink].id
                            /\ Unused(e.sink, e.token)'
    BY DEF EventIds, StreamGrows
  <2>1. /\ e.token < next_id
        /\ e.type = "invite" =>
              e.token \in Nat /\ e.token # sinks[e.sink].id /\ Unused(e.sink, e.token)
    BY DEF IInv, Ids, EventIds
  <2>2. e.sink \in Sinks
    BY DEF IInv, Types, SinkTypes, EventType
  <2>3. sinks'[e.sink].id = sinks[e.sink].id
    BY <2>2 DEF StreamGrows
  <2>4. ASSUME e.type = "invite"
        PROVE  Unused(e.sink, e.token)'
    <3> SUFFICES ASSUME NEW m \in sent', Audible(m), m.sink = e.sink
                 PROVE  m.id # e.token
      BY DEF Unused
    <3>1. CASE m \in sent
      BY <2>1, <2>4, <3>1 DEF Unused
    <3>2. CASE m \in M
      BY <2>1, <2>4, <3>2 DEF Continues
    <3> QED  BY <3>1, <3>2
  <2> QED  BY <2>1, <2>3, <2>4
<1> QED  BY <1>3, <1>4, <1>5, <1>6, <1>7, <1>8 DEF IInv, Ids

\* Sending blocks changes nothing about who is announced.
LEMMA AnnouncedKept ==
    ASSUME IInv, UNCHANGED <<user_vars, audio, notifying, need_start>>, sent \in SUBSET sent',
           sender.pc # "collect",
           \A s \in Sinks : /\ sinks'[s].id = sinks[s].id /\ sinks'[s].added = sinks[s].added
                            /\ sinks'[s].need = sinks[s].need
    PROVE  Announced'
<1>1. Current' = Current /\ Current \in SUBSET Sinks
  BY DEF Current, Active, Present, IsActive, Restarting
<1>2. Flagged => Flagged'
  BY DEF Flagged
<1> SUFFICES ASSUME stream.st = "run", NEW s \in Current
             PROVE  \/ \E m \in sent' : m.type = "start" /\ m.sink = s /\ m.id = sinks'[s].id
                    \/ sinks'[s].need /\ (audio.pc # "new_stream" => Flagged')
  BY <1>1 DEF Announced, user_vars, Started
<1>3. \/ Started(s, sinks[s].id)
      \/ sinks[s].need /\ (audio.pc # "new_stream" => Flagged)
  BY DEF IInv, Announced
<1>4. s \in Sinks
  BY <1>1
<1> QED  BY <1>2, <1>3, <1>4 DEF Started

\* The history keeps its blocks, but for the oldest one, and gets the new one.
LEMMA Pushed ==
    ASSUME history \in Seq(BlockType), NEW b \in BlockType
    PROVE  /\ \A i \in 1 .. Len(Push(b)) :
                 Push(b)[i] = b \/ \E j \in 1 .. Len(history) : Push(b)[i] = history[j]
           /\ /\ \A i, j \in 1 .. Len(history) : history[i].seq = history[j].seq => i = j
              /\ \A i \in 1 .. Len(history) : history[i].seq # b.seq
              => \A i, j \in 1 .. Len(Push(b)) : Push(b)[i].seq = Push(b)[j].seq => i = j
<1>1. CASE Push(b) = history
  BY <1>1
<1>2. ASSUME NEW T \in Seq(BlockType), NEW k \in Nat, Push(b) = Append(T, b),
             Len(T) + k = Len(history), \A i \in 1 .. Len(T) : T[i] = history[i + k]
      PROVE  /\ \A i \in 1 .. Len(Push(b)) :
                   Push(b)[i] = b \/ \E j \in 1 .. Len(history) : Push(b)[i] = history[j]
             /\ /\ \A i, j \in 1 .. Len(history) : history[i].seq = history[j].seq => i = j
                /\ \A i \in 1 .. Len(history) : history[i].seq # b.seq
                => \A i, j \in 1 .. Len(Push(b)) : Push(b)[i].seq = Push(b)[j].seq => i = j
  <2>1. Len(T) \in Nat /\ Len(Push(b)) = Len(T) + 1 /\ Len(history) \in Nat
    BY <1>2
  <2>2. ASSUME NEW i \in 1 .. Len(Push(b))
        PROVE  \/ i = Len(T) + 1 /\ Push(b)[i] = b
               \/ i \in 1 .. Len(T) /\ i + k \in 1 .. Len(history) /\ Push(b)[i] = history[i + k]
    <3>1. i = Len(T) + 1 \/ i \in 1 .. Len(T)
      BY <2>1
    <3>2. CASE i = Len(T) + 1
      BY <1>2, <3>2
    <3>3. CASE i \in 1 .. Len(T)
      <4>1. i + k \in 1 .. Len(history)
        BY <1>2, <2>1, <3>3
      <4>2. Push(b)[i] = T[i]
        BY <1>2, <3>3
      <4> QED  BY <1>2, <3>3, <4>1, <4>2
    <3> QED  BY <3>1, <3>2, <3>3
  <2>3. ASSUME \A i, j \in 1 .. Len(history) : history[i].seq = history[j].seq => i = j,
               \A i \in 1 .. Len(history) : history[i].seq # b.seq,
               NEW i \in 1 .. Len(Push(b)), NEW j \in 1 .. Len(Push(b)),
               Push(b)[i].seq = Push(b)[j].seq
        PROVE  i = j
    <3>1. CASE i = Len(T) + 1
      BY <2>2, <2>3, <3>1
    <3>2. CASE j = Len(T) + 1
      BY <2>2, <2>3, <3>2
    <3>3. CASE i # Len(T) + 1 /\ j # Len(T) + 1
      <4>1. i + k = j + k
        BY <2>2, <2>3, <3>3
      <4> QED  BY <1>2, <4>1
    <3> QED  BY <3>1, <3>2, <3>3
  <2> QED  BY <2>2, <2>3
<1>3. CASE Push(b) = Append(history, b)
  <2>1. Len(history) + 0 = Len(history) /\ \A i \in 1 .. Len(history) : history[i] = history[i + 0]
    OBVIOUS
  <2> QED  BY <1>2, <1>3, <2>1
<1>4. CASE Push(b) = Append(Tail(history), b) /\ history # <<>>
  <2>1. /\ Tail(history) \in Seq(BlockType) /\ Len(Tail(history)) + 1 = Len(history)
        /\ \A i \in 1 .. Len(Tail(history)) : Tail(history)[i] = history[i + 1]
    BY <1>4
  <2> QED  BY <1>2, <1>4, <2>1
<1>5. HistorySize # 0 /\ ~(Len(history) < HistorySize) => history # <<>>
  BY SinksAssumption
<1> QED  BY <1>1, <1>3, <1>4, <1>5 DEF Push

\* The next block of the stream is sent to the active sinks, or is empty.
LEMMA SendBlockStep ==
    ASSUME IInv, Types', NEW block \in Int, NEW cached, SendBlock(block, cached),
           sequence # Invalid, CanRead, block # 0 => cached = Cached(Active),
           UNCHANGED <<user_vars, format, events, next_id, audio, notifying, need_start, sinks>>,
           sender.pc # "collect", sender'.pc # "collect"
    PROVE  IInv'
<1> DEFINE b == [seq |-> sequence, format |-> format, block |-> block]
           M == {DataMsg(c, b) : c \in cached}
<1>1. /\ sequence \in Nat /\ history \in Seq(BlockType) /\ format \in Int
      /\ b \in BlockType /\ b.seq = sequence /\ b.format = format /\ b.block = block
  BY SMTT(30), Zenon DEF IInv, Types, DataTypes, BlockType
<1>2. sequence' = sequence + 1 /\ history' = Push(b) /\ sent' = sent \cup M
  BY DEF SendBlock
<1>3. \A m \in M : \E c \in cached : /\ m.type = "data" /\ m.sink = c.sink /\ m.id = c.id
                                    /\ m.seq = sequence /\ m.format = format /\ m.block = block
  BY SMTT(30), Zenon DEF DataMsg
<1> HIDE DEF b, M
<1>4. /\ \A i \in 1 .. Len(history) : /\ history[i].seq >= 0 /\ history[i].seq < sequence
                                      /\ history[i].format = format /\ history[i].seq \in Int
                                      /\ history[i].seq # sequence
      /\ \A i, j \in 1 .. Len(history) : history[i].seq = history[j].seq => i = j
  <2>1. ASSUME NEW i \in 1 .. Len(history)
        PROVE  history[i].seq \in Int
    <3>1. history[i] \in BlockType
      BY SMTT(30), Zenon, <1>1
    <3> QED  BY <3>1 DEF BlockType
  <2>2. History
    BY DEF IInv
  <2>3. ASSUME NEW i \in 1 .. Len(history)
        PROVE  history[i].seq >= 0 /\ history[i].seq < sequence /\ history[i].format = format
    BY Zenon, SMT, <2>2 DEF History
  <2>4. ASSUME NEW i \in 1 .. Len(history)
        PROVE  history[i].seq # sequence
    BY <1>1, <2>1, <2>3
  <2>5. \A i, j \in 1 .. Len(history) : history[i].seq = history[j].seq => i = j
    BY Zenon, SMT, <2>2 DEF History
  <2> QED  BY Zenon, SMT, <2>1, <2>3, <2>4, <2>5
<1>5. \A i \in 1 .. Len(history') :
          history'[i] = b \/ \E j \in 1 .. Len(history) : history'[i] = history[j]
  BY <1>1, <1>2, Pushed
<1>6. History'
  <2>1. \A i, j \in 1 .. Len(history') : history'[i].seq = history'[j].seq => i = j
    BY <1>1, <1>2, <1>4, Pushed
  <2>2. ASSUME NEW i \in 1 .. Len(history')
        PROVE  history'[i].seq >= 0 /\ history'[i].seq < sequence' /\ history'[i].format = format
    <3>1. CASE history'[i] = b
      BY SMTT(30), Zenon, <1>1, <1>2, <3>1
    <3>2. CASE \E j \in 1 .. Len(history) : history'[i] = history[j]
      <4>1. /\ history'[i].seq \in Int /\ history'[i].seq >= 0 /\ history'[i].seq < sequence
            /\ history'[i].format = format
        BY <1>4, <3>2
      <4> QED  BY SMTT(30), Zenon, <1>1, <1>2, <4>1
    <3> QED  BY <1>5, <3>1, <3>2
  <2> QED  BY <2>1, <2>2 DEF History
<1>7. Announced'
  BY <1>2, AnnouncedKept
<1>8. StreamGrows
  <2>1. sequence' \in Nat /\ sequence <= sequence'
    BY <1>1, <1>2
  <2> QED  BY <1>1, <1>5, <2>1 DEF StreamGrows, CanRead
<1>9. ASSUME NEW m \in M, Audible(m)
      PROVE  Continues(m)
  <2>1. PICK c \in cached : /\ m.type = "data" /\ m.sink = c.sink /\ m.id = c.id
                            /\ m.seq = sequence /\ m.format = format /\ m.block = block
    BY <1>3
  <2>2. block # 0
    BY <1>9, <2>1 DEF Audible
  <2>3. m.sink \in Active /\ m.id = sinks[m.sink].id
    BY SMTT(30), Zenon, <2>1, <2>2 DEF Cached
  <2>4. ASSUME NEW i \in 1 .. Len(history'), history'[i].seq = sequence
        PROVE  history'[i].block = block
    BY <1>1, <1>4, <1>5, <2>4
  <2>5. Agrees(m)'
    <3>1. sequence \in Int /\ sequence < sequence'
      BY <1>1, <1>2
    <3> QED  BY <2>1, <2>4, <3>1 DEF Agrees
  <2> QED  BY <2>3, <2>5 DEF Continues
<1>10. ASSUME NEW m \in M, NEW n \in sent'
       PROVE  SameBlock(m, n)
  <2> SUFFICES ASSUME Audible(m), Audible(n), m.sink = n.sink, m.id = n.id,
                      n.type = "data", m.seq = n.seq
               PROVE  m.block = n.block
    BY DEF SameBlock
  <2>1. m.seq = sequence /\ m.block = block
    BY <1>3
  <2>2. CASE n \in M
    BY <1>3, <2>1, <2>2
  <2>3. CASE n \in sent
    <3>1. m.sink \in Active /\ m.id = sinks[m.sink].id
      BY <1>9 DEF Continues
    <3>2. Agrees(n)
      BY <2>3, <3>1, SinksOfStream DEF CanRead
    <3>3. n.seq \in Int /\ n.seq < sequence
      BY <3>2 DEF Agrees
    <3> QED  BY <1>1, <2>1, <3>3
  <2> QED  BY <1>2, <2>2, <2>3
<1> QED  BY <1>2, <1>6, <1>7, <1>8, <1>9, <1>10, Sending

\* The steps of the send thread that may send the next block.
BlockSteps == send_xruns \/ send_empty_block \/ send_data

LEMMA BlockStepsStep ==
    ASSUME IInv, Types', BlockSteps
    PROVE  IInv'
<1>1. UNCHANGED <<user_vars, format, events, next_id, audio, notifying, need_start, sinks>>
  BY DEF BlockSteps, send_xruns, send_empty_block, send_data, send_vars, bound_vars
<1>2. sender.pc # "collect" /\ sender'.pc # "collect"
  <2>1. sender \in SenderType
    BY DEF IInv, Types, ThreadTypes
  <2>2. sender.pc # "collect"
    BY DEF BlockSteps, send_xruns, send_empty_block, send_data, At
  <2>3. CASE sender' = [sender EXCEPT !.count = @ - 1] \/ sender' = sender
    BY <2>1, <2>2, <2>3 DEF SenderType
  <2>4. CASE GoTo("data") \/ sender' = [pc |-> "empty", cached |-> Cached(Active), count |-> xruns - 1]
    BY <2>2, <2>4 DEF GoTo, SenderIdle
  <2> QED  BY <2>2, <2>3, <2>4 DEF BlockSteps, send_xruns, send_empty_block, send_data
<1>3. CASE UNCHANGED <<sequence, history, sent>>
  <2>1. Metadata'
    BY <1>1, MetadataKept DEF IInv
  <2>2. ThreadsKept /\ (Flagged => Flagged') /\ stream' = stream
    BY <1>1, <1>2 DEF ThreadsKept, Flagged, user_vars
  <2> QED  BY <1>1, <1>3, <2>1, <2>2, Still
<1>4. CASE SendBlock(0, Cached(Active)) /\ sequence # Invalid /\ CanRead
  BY <1>1, <1>2, <1>4, SendBlockStep
<1>5. CASE SendBlock(0, sender.cached) /\ sequence # Invalid /\ CanRead
  BY <1>1, <1>2, <1>5, SendBlockStep
<1>6. CASE /\ SendBlock(Head(audio_queue), Cached(Active)) /\ sequence # Invalid /\ CanRead
           /\ audio_queue # <<>>
  <2>1. Head(audio_queue) \in Int
    BY <1>6 DEF IInv, Types, DataTypes
  <2> QED  BY <1>1, <1>2, <1>6, <2>1, SendBlockStep
<1> QED  BY <1>3, <1>4, <1>5, <1>6 DEF BlockSteps, send_xruns, send_empty_block, send_data

LEMMA resend_dataStep ==
    ASSUME IInv, Types', NEW s \in Sinks, resend_data(s)
    PROVE  IInv'
<1> DEFINE q == Tail(sinks[s].data_requests)
           seq == Head(sinks[s].data_requests)
           M == {DataMsg([sink |-> s, id |-> sinks[s].id], history[i]) : i \in Find(seq)}
<1>1. /\ UNCHANGED <<user_vars, format, sequence, history, sender, audio, events, next_id,
                     need_start, notifying>>
      /\ sent' = sent \cup M /\ audio.pc # "new_stream" /\ sender.pc = "resend"
      /\ sinks[s].added
  BY DEF resend_data, send_vars, bound_vars, CanRead, At
<1>2. SinkTypes /\ sinks[s] \in SinkType /\ history \in Seq(BlockType)
  BY DEF IInv, Types, SinkTypes, DataTypes
<1>3. q \in Seq(Int) /\ sinks' = [sinks EXCEPT ![s].data_requests = q]
  BY <1>2 DEF resend_data, SinkType
<1>4. \A m \in M : \E i \in 1 .. Len(history) :
          /\ m.type = "data" /\ m.sink = s /\ m.id = sinks[s].id /\ history[i].seq = seq
          /\ m.seq = history[i].seq /\ m.format = history[i].format /\ m.block = history[i].block
  BY SMTT(30), Zenon, <1>2 DEF DataMsg, Find
<1> HIDE DEF q, seq, M
<1>5. PICK x : /\ Put(s, x) /\ x.added = sinks[s].added /\ x.id = sinks[s].id
               /\ x.need = sinks[s].need /\ x.invite_token = sinks[s].invite_token
  BY <1>2, <1>3, RequestsPut
<1>6. CASE M = {}
  <2>1. sent' = sent
    BY <1>1, <1>6
  <2> QED  BY <1>1, <1>5, <2>1, AskedStep
<1>7. CASE M # {}
  <2>1. \A i \in 1 .. Len(history) : /\ history[i].seq \in Int
                                     /\ history[i].seq >= 0 /\ history[i].seq < sequence
                                     /\ history[i].format = format
    <3>1. \A i \in 1 .. Len(history) : history[i] \in BlockType
      BY <1>2
    <3>2. \A i \in 1 .. Len(history) : history[i].seq \in Int
      BY <3>1 DEF BlockType
    <3> QED  BY <3>2 DEF IInv, History
  <2>2. \A i, j \in 1 .. Len(history) : history[i].seq = history[j].seq => i = j
    BY DEF IInv, History
  <2>3. sequence # Invalid /\ sequence \in Nat
    <3>1. PICK i \in 1 .. Len(history) : history[i].seq \in Int /\ history[i].seq >= 0 /\ history[i].seq < sequence
      BY <1>4, <1>7, <2>1
    <3>2. sequence \in Nat \cup {Invalid}
      BY DEF IInv, Types, DataTypes
    <3> QED  BY <3>1, <3>2 DEF Invalid
  <2>4. \A u \in Sinks : /\ sinks'[u].id = sinks[u].id /\ sinks'[u].added = sinks[u].added
                         /\ sinks'[u].need = sinks[u].need
                         /\ sinks'[u].invite_token = sinks[u].invite_token
    <3>1. sinks'[s] = x /\ \A u \in Sinks \ {s} : sinks'[u] = sinks[u]
      BY <1>2, <1>5, PutTypes
    <3> QED  BY <1>5, <3>1
  <2>5. History'
    BY <1>1 DEF IInv, History
  <2>6. Announced'
    BY <1>1, <2>4, AnnouncedKept
  <2>7. StreamGrows
    BY SMTT(30), Zenon, <1>1, <2>3, <2>4 DEF StreamGrows
  <2>8. ASSUME NEW m \in M, Audible(m)
        PROVE  Continues(m)
    <3>1. PICK i \in 1 .. Len(history) :
             /\ m.type = "data" /\ m.sink = s /\ m.id = sinks[s].id
             /\ m.seq = history[i].seq /\ m.format = history[i].format /\ m.block = history[i].block
      BY <1>4
    <3>2. s \in Active
      BY <1>1, <2>8, <3>1 DEF Audible, Active, Present, IsActive
    <3>3. Agrees(m)'
      BY <1>1, <2>1, <2>2, <3>1 DEF Agrees
    <3> QED  BY <3>1, <3>2, <3>3 DEF Continues
  <2>9. ASSUME NEW m \in M, NEW n \in sent'
        PROVE  SameBlock(m, n)
    <3> SUFFICES ASSUME Audible(m), Audible(n), m.sink = n.sink, m.id = n.id,
                        n.type = "data", m.seq = n.seq
                 PROVE  m.block = n.block
      BY DEF SameBlock
    <3>1. PICK i \in 1 .. Len(history) :
             m.type = "data" /\ m.seq = history[i].seq /\ m.block = history[i].block
      BY <1>4
    <3>2. CASE n \in M
      BY <1>4, <2>2, <3>1, <3>2
    <3>3. CASE n \in sent
      <4>1. m.sink \in Active /\ m.id = sinks[m.sink].id /\ m.block # 0
        BY <2>8, <3>1 DEF Continues, Audible
      <4>2. Agrees(n)
        BY <1>1, <2>3, <3>3, <4>1, SinksOfStream
      <4> QED  BY <3>1, <4>1, <4>2 DEF Agrees
    <3> QED  BY <1>1, <3>2, <3>3
  <2> QED  BY <1>1, <2>3, <2>5, <2>6, <2>7, <2>8, <2>9, Sending
<1> QED  BY <1>6, <1>7

LEMMA send_start_msgStep ==
    ASSUME IInv, Types', send_start_msg
    PROVE  IInv'
<1> DEFINE starting == {s \in Present : sinks[s].need}
           M == {StartMsg(c) : c \in Cached(starting)}
<1>1. /\ UNCHANGED <<user_vars, format, sequence, history, audio, events, next_id,
                     need_start, notifying>>
      /\ sent' = sent \cup M /\ sender.pc = "collect" /\ sender'.pc = "xruns"
      /\ sinks' = [s \in Sinks |-> [sinks[s] EXCEPT !.need = FALSE]]
  BY DEF send_start_msg, send_vars, bound_vars, At, GoTo, SenderIdle
<1>2. audio.pc # "new_stream" /\ sequence # Invalid /\ sequence \in Nat
  BY <1>1 DEF IInv, Locks, Types, DataTypes
<1>3. \A m \in M : /\ m.type = "start" /\ m.sink \in Present /\ m.id = sinks[m.sink].id
                   /\ m.format = format
  BY SMTT(30), Zenon DEF StartMsg, Cached
<1>4. \A s \in starting : \E m \in M : m.type = "start" /\ m.sink = s /\ m.id = sinks[s].id
  <2> SUFFICES ASSUME NEW s \in starting
               PROVE  \E m \in M : m.type = "start" /\ m.sink = s /\ m.id = sinks[s].id
    OBVIOUS
  <2> DEFINE c == [sink |-> s, id |-> sinks[s].id]
  <2>1. c \in Cached(starting) /\ c.sink = s /\ c.id = sinks[s].id
    BY DEF Cached
  <2> HIDE DEF c
  <2>2. StartMsg(c) \in M
    BY <2>1
  <2>3. StartMsg(c).type = "start" /\ StartMsg(c).sink = s /\ StartMsg(c).id = sinks[s].id
    BY <2>1 DEF StartMsg
  <2> QED  BY <2>2, <2>3
<1> HIDE DEF M
<1>5. \A s \in Sinks : /\ sinks'[s].id = sinks[s].id /\ sinks'[s].added = sinks[s].added
                       /\ sinks'[s].invite_token = sinks[s].invite_token
  <2>1. \A s \in Sinks : sinks[s] \in SinkType
    BY DEF IInv, Types, SinkTypes
  <2> QED  BY <1>1, <2>1 DEF SinkType
<1>6. History'
  BY <1>1 DEF IInv, History
<1>7. StreamGrows
  BY <1>1, <1>2, <1>5 DEF StreamGrows
<1>8. Announced'
  <2>1. Current' = Current
    BY <1>1, <1>5 DEF Current, Active, Present, IsActive, Restarting
  <2> SUFFICES ASSUME stream.st = "run", NEW s \in Current
               PROVE  \E m \in sent' : m.type = "start" /\ m.sink = s /\ m.id = sinks'[s].id
    BY <1>1, <2>1 DEF Announced, Started, user_vars
  <2>2. s \in Present /\ s \in Sinks
    BY DEF Current, Active, Present
  <2>3. Started(s, sinks[s].id) \/ sinks[s].need
    BY DEF IInv, Announced
  <2>4. CASE Started(s, sinks[s].id)
    BY <1>1, <1>5, <2>2, <2>4 DEF Started
  <2>5. CASE sinks[s].need
    BY <1>1, <1>4, <1>5, <2>2, <2>5
  <2> QED  BY <2>3, <2>4, <2>5
<1> HIDE DEF starting
<1>9. ASSUME NEW m \in M, Audible(m)
      PROVE  Continues(m)
  BY <1>1, <1>3, <1>9 DEF Continues, Agrees, Active, IsActive, Audible
<1>10. ASSUME NEW m \in M, NEW n \in sent'
       PROVE  SameBlock(m, n)
  BY <1>3 DEF SameBlock
<1> QED  BY <1>1, <1>2, <1>6, <1>7, <1>8, <1>9, <1>10, Sending

-----------------------------------------------------------------------------
(* The theorems                                                            *)

LEMMA InitInv == Init => IInv
<1> SUFFICES ASSUME Init
             PROVE  IInv
  OBVIOUS
<1>1. Types
  BY InitTypes
<1>2. /\ stream = [st |-> "idle", md |-> 0] /\ metadata = 0 /\ live = 0
      /\ history = <<>> /\ sent = {} /\ events = {} /\ next_id = 2 /\ sequence = Invalid
      /\ audio = AudioIdle /\ sender = SenderIdle
      /\ sinks = [s \in Sinks |-> IF s \in Added THEN NewSink(1, FALSE) ELSE NoSink]
  BY DEF Init
<1>3. Metadata /\ Locks
  BY SMTT(30), Zenon, <1>2 DEF Metadata, MetadataOwned, Freed, Locks, AudioIdle, SenderIdle
<1>4. History
  <2>1. Len(history) = 0
    BY <1>2
  <2> QED  BY <2>1 DEF History
<1>5. Streams /\ Consistent /\ Announced
  BY <1>2 DEF Streams, Consistent, Announced
<1>6. SinkIds
  <2> DEFINE one == 1  no == FALSE
  <2>1. one \in Int /\ no \in BOOLEAN /\ one < next_id /\ Invalid < next_id
    BY <1>2 DEF Invalid
  <2>2. sinks = [s \in Sinks |-> IF s \in Added THEN NewSink(one, no) ELSE NoSink]
    BY <1>2
  <2> HIDE DEF one, no
  <2>3. /\ NewSink(one, no).id = one /\ NewSink(one, no).invite_token = Invalid
        /\ NoSink.id = Invalid /\ NoSink.invite_token = Invalid
    BY <2>1, EmptySinks
  <2> QED  BY <2>1, <2>2, <2>3 DEF SinkIds
<1>7. EventIds /\ MessageIds
  BY <1>2 DEF EventIds, MessageIds
<1> QED  BY <1>1, <1>3, <1>4, <1>5, <1>6, <1>7 DEF IInv, Ids

LEMMA StepInv == IInv /\ [Next]_vars => IInv'
<1> SUFFICES ASSUME IInv, [Next]_vars
             PROVE  IInv'
  OBVIOUS
<1>1. Types'
  BY StepTypes DEF IInv
<1>2. CASE User
  BY <1>1, <1>2, StreamCallsStep, removeAllStep, addSinkStep, removeSinkStep, activateStep,
     deactivateStep, handleInviteStep, handleUninviteStep DEF User, StreamCalls
<1>3. CASE Network
  <2>1. 1 .. next_id - 1 \in SUBSET Int /\ 0 .. sequence \in SUBSET Int
    BY DEF IInv, Types, SinkTypes, DataTypes, Invalid
  <2> QED  BY <1>1, <1>3, <2>1, handle_start_requestStep, handle_data_requestStep,
              handle_inviteStep, handle_uninviteStep, OtherStepsStep DEF Network, OtherSteps
<1>4. CASE Audio
  BY <1>1, <1>4, AudioStepsStep, process_startStep, start_sinkStep, start_sink_idStep,
     process_startedStep DEF Audio, AudioSteps
<1>5. CASE Send
  BY <1>1, <1>5, OtherStepsStep, BlockStepsStep, resend_dataStep, send_start_msgStep
     DEF Send, OtherSteps, BlockSteps
<1>6. CASE \E t \in notifying : SetNeedStart(t)
  BY <1>1, <1>6, OtherStepsStep DEF OtherSteps
<1>7. CASE UNCHANGED vars
  <2>1. UNCHANGED <<user_vars, format, sequence, history, sinks, events, next_id, audio, sender,
                    sent, need_start, notifying>>
    BY <1>7 DEF vars, data_vars, sink_vars, bound_vars, thread_vars
  <2> QED  BY <1>1, <2>1, Answered
<1> QED  BY <1>2, <1>3, <1>4, <1>5, <1>6, <1>7 DEF Next

LEMMA InvHolds == Spec => []IInv
  BY InitInv, StepInv, PTL DEF Spec

\* What a sink is sent under a stream id, announced, sent or resent by the send thread, is
\* one stream: of one format, with one block of audio for each sequence number, however
\* make_new_stream, set_format, invitations and resend requests interleave; and every block
\* of metadata that startStream allocates has exactly one owner.
THEOREM StreamAlwaysConsistent == Spec => []StreamConsistent
<1>1. IInv => StreamConsistent
  <2> SUFFICES ASSUME IInv
               PROVE  StreamConsistent
    OBVIOUS
  <2>1. Consistent /\ MetadataOwned
    BY DEF IInv, Metadata
  <2>2. FormatOfStream
    BY <2>1 DEF FormatOfStream, Consistent, Alike, Audible
  <2>3. BlockOfSequence
    BY <2>1 DEF BlockOfSequence, Consistent, Alike, Audible
  <2> QED  BY <2>1, <2>2, <2>3 DEF StreamConsistent
<1> QED  BY <1>1, InvHolds, PTL

\* A sink that is active while the stream runs has been sent the /start message of its
\* stream, or its flag is set and the send thread is going to look at it: the two-level
\* flags of addSink, activate, handleInvite, handle_start_request and make_new_stream lose
\* no notification against send_start.
THEOREM ActiveSinkAlwaysAnnounced == Spec => []ActiveSinkAnnounced
<1>1. IInv => ActiveSinkAnnounced
  <2> SUFFICES ASSUME IInv, stream.st = "run", audio.pc # "new_stream", NEW s \in Active
               PROVE  \/ \E m \in sent : m.type = "start" /\ m.sink = s /\ m.id = sinks[s].id
                      \/ sinks[s].need /\ (need_start \/ notifying # {} \/ At("collect"))
    BY DEF ActiveSinkAnnounced
  <2>1. s \in Current
    BY DEF Current, Restarting
  <2> QED  BY <2>1 DEF IInv, Announced, Started, Flagged, At
<1> QED  BY <1>1, InvHolds, PTL
=============================================================================
