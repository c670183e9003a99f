------------------------- MODULE PeerBrowserProofs -------------------------
(***************************************************************************)
(* The browser's count of the probes to come is right, for any finite set  *)
(* of paths and any number of calls, results and probes.                   *)
(***************************************************************************)
EXTENDS PeerBrowser, FiniteSetTheorems, TLAPS

SessionType ==
    [live : BOOLEAN, ready : BOOLEAN, probes : Nat, pending : Nat, trips : Nat,
     host : BOOLEAN, done : BOOLEAN]

BlockType ==
    [op : {"start", "refresh", "stop", "ready", "failed", "results"}, generation : Nat,
     results : SUBSET Paths]

TypeOK ==
    /\ queue \in Seq(BlockType)
    /\ sessions \in [Paths -> SessionType]
    /\ generation \in Nat /\ remaining \in Nat

\* The sessions in S that are still to report.
Unfinished(S) == {p \in Sessions(S) : ~S[p].done}

\* The inductive invariant.
IInv == TypeOK /\ ProbesAccounted

LEMMA UnfinishedFinite ==
    ASSUME NEW S
    PROVE  IsFiniteSet(Unfinished(S)) /\ Cardinality(Unfinished(S)) \in Nat
<1>1. Unfinished(S) \subseteq Paths
  BY DEF Unfinished, Sessions
<1> QED  BY <1>1, PathsAssumption, FS_Subset, FS_CardinalityType

\* A session that is changed and neither dropped, started nor finished.
LEMMA SameSessions ==
    ASSUME NEW p \in Paths, sessions \in [Paths -> SessionType], NEW x \in SessionType,
           x.live = sessions[p].live, x.done = sessions[p].done
    PROVE  LET S == [sessions EXCEPT ![p] = x]
           IN  /\ S \in [Paths -> SessionType]
               /\ Sessions(S) = Sessions(sessions) /\ Unfinished(S) = Unfinished(sessions)
<1> DEFINE S == [sessions EXCEPT ![p] = x]
<1>1. S \in [Paths -> SessionType]
  OBVIOUS
<1>2. \A q \in Paths : S[q].live = sessions[q].live /\ S[q].done = sessions[q].done
  OBVIOUS
<1> HIDE DEF S
<1>3. Sessions(S) = Sessions(sessions)
  BY <1>2 DEF Sessions
<1>4. Unfinished(S) = Unfinished(sessions)
  BY <1>2, <1>3 DEF Unfinished, Sessions
<1> QED  BY <1>1, <1>3, <1>4 DEF S

\* What a step has to establish about the sessions, the candidates and the snapshot.
Accounted(S, C, n, h, v) ==
    /\ n = Cardinality(Unfinished(S))
    /\ C \subseteq Sessions(S) \ Unfinished(S)
    /\ h => v.paths = C /\ (v.state = "ready" => n = 0)

LEMMA AccountedIs == ProbesAccounted <=> Accounted(sessions, candidates, remaining, handler, shown)
  BY DEF ProbesAccounted, Accounted, Unfinished

LEMMA AccountedIsNext ==
    Accounted(sessions', candidates', remaining', handler', shown') => ProbesAccounted'
  BY DEF ProbesAccounted, Accounted, Unfinished, Sessions

LEMMA NoSessions ==
    LET S == [p \in Paths |-> NoSession]
    IN  S \in [Paths -> SessionType] /\ Sessions(S) = {} /\ Unfinished(S) = {}
<1> DEFINE S == [p \in Paths |-> NoSession]
<1>1. S \in [Paths -> SessionType] /\ Sessions(S) = {}
  BY DEF NoSession, SessionType, Sessions
<1> QED  BY <1>1 DEF Unfinished

LEMMA InitInv == Init => IInv
<1> SUFFICES ASSUME Init PROVE IInv
  OBVIOUS
<1>1. sessions = [p \in Paths |-> NoSession] /\ candidates = {} /\ remaining = 0 /\ ~handler
  BY DEF Init
<1>2. Accounted(sessions, candidates, remaining, handler, shown)
  BY <1>1, NoSessions, FS_EmptySet DEF Accounted
<1>3. TypeOK
  BY <1>1, NoSessions DEF Init, TypeOK
<1> QED  BY <1>2, <1>3, AccountedIs DEF IInv

\* A block is put into the queue.
LEMMA EnqueueInv ==
    ASSUME IInv, NEW b \in BlockType, queue' = Append(queue, b),
           UNCHANGED <<handler, generation, sessions, candidates, remaining, shown>>
    PROVE  IInv'
<1>1. TypeOK'
  BY DEF IInv, TypeOK
<1>2. ProbesAccounted'
  BY DEF IInv, ProbesAccounted, Sessions
<1> QED  BY <1>1, <1>2 DEF IInv

\* start(), refresh() and stop() drop all sessions.
LEMMA ClearInv ==
    ASSUME IInv, queue' \in Seq(BlockType), generation' = generation + 1, Clear,
           handler' => shown' = [state |-> "searching", paths |-> candidates']
    PROVE  IInv'
<1>1. sessions' = [p \in Paths |-> NoSession] /\ candidates' = {} /\ remaining' = 0
  BY DEF Clear
<1>2. Accounted(sessions', candidates', remaining', handler', shown')
  <2>1. handler' => /\ shown'.paths = candidates'
                    /\ shown'.state = "ready" => remaining' = 0
    BY <1>1
  <2>2. Unfinished(sessions') = {} /\ Cardinality({}) = 0
    BY <1>1, NoSessions, FS_EmptySet
  <2> QED  BY <1>1, <2>1, <2>2 DEF Accounted
<1>3. TypeOK'
  BY <1>1, NoSessions DEF IInv, TypeOK
<1> QED  BY <1>2, <1>3, AccountedIsNext DEF IInv

\* probe() starts a session for every path of the results.
LEMMA ProbeInv ==
    ASSUME IInv, queue' \in Seq(BlockType), NEW R \in SUBSET Paths, probe(R)
    PROVE  IInv'
<1>1. /\ sessions' = [p \in Paths |-> IF p \in R THEN NewSession ELSE NoSession]
      /\ candidates' = {} /\ remaining' = Cardinality(R)
      /\ UNCHANGED <<handler, generation>>
  BY DEF probe
<1>2. shown' = IF handler' THEN [state |-> IF R = {} THEN "ready" ELSE "searching",
                                 paths |-> candidates'] ELSE shown
  BY DEF probe, emit
<1>3. sessions' \in [Paths -> SessionType]
  BY <1>1 DEF NewSession, NoSession, SessionType
<1>4. Sessions(sessions') = R /\ Unfinished(sessions') = R
  <2>1. \A p \in Paths : /\ p \in R => sessions'[p].live
                         /\ p \notin R => ~sessions'[p].live
                         /\ ~sessions'[p].done
    BY <1>1 DEF NewSession, NoSession
  <2>2. Sessions(sessions') = R
    BY <2>1 DEF Sessions
  <2> QED  BY <2>1, <2>2 DEF Unfinished
<1>5. Cardinality(R) \in Nat /\ (R = {} => Cardinality(R) = 0)
  BY PathsAssumption, FS_Subset, FS_CardinalityType, FS_EmptySet
<1>6. Accounted(sessions', candidates', remaining', handler', shown')
  BY <1>1, <1>2, <1>4, <1>5 DEF Accounted
<1>7. TypeOK'
  BY <1>1, <1>3, <1>5 DEF IInv, TypeOK
<1> QED  BY <1>6, <1>7, AccountedIsNext DEF IInv

\* A session is finished, for the first time or again.
LEMMA FinishInv ==
    ASSUME IInv, NEW p \in Paths, end(p)
    PROVE  IInv'
<1> DEFINE U == Unfinished(sessions)
           x == [sessions[p] EXCEPT !.done = TRUE]
<1>1. /\ UNCHANGED <<queue, handler, generation>> /\ sessions[p].live
      /\ sessions' = [sessions EXCEPT ![p].done = TRUE]
      /\ IF sessions[p].done THEN UNCHANGED <<candidates, remaining, shown>>
         ELSE complete(p, Found(p))
  BY DEF end, finish, others
<1>2. TypeOK /\ Accounted(sessions, candidates, remaining, handler, shown)
  BY AccountedIs DEF IInv
<1>3. sessions \in [Paths -> SessionType] /\ remaining \in Nat
  BY <1>2 DEF TypeOK
<1>4. sessions' = [sessions EXCEPT ![p] = x]
  BY <1>1, <1>3
<1>5. x \in SessionType /\ x.live = sessions[p].live /\ x.done
  BY <1>3 DEF SessionType
<1> HIDE DEF x
<1>6. /\ sessions' \in [Paths -> SessionType]
      /\ sessions'[p].live /\ sessions'[p].done
      /\ \A q \in Paths : q # p => sessions'[q] = sessions[q]
  BY <1>1, <1>3, <1>4, <1>5
<1>7. Sessions(sessions') = Sessions(sessions) /\ p \in Sessions(sessions)
  BY <1>1, <1>6 DEF Sessions
<1>8. Unfinished(sessions') = U \ {p}
  BY <1>6, <1>7 DEF Unfinished, Sessions
<1>9. CASE sessions[p].done
  <2>1. p \notin U
    BY <1>9 DEF Unfinished
  <2>2. Unfinished(sessions') = U
    BY <1>8, <2>1
  <2>3. Accounted(sessions', candidates', remaining', handler', shown')
    BY <1>1, <1>2, <1>7, <1>9, <2>2 DEF Accounted
  <2>4. TypeOK'
    BY <1>1, <1>2, <1>6, <1>9 DEF TypeOK
  <2> QED  BY <2>3, <2>4, AccountedIsNext DEF IInv
<1>10. CASE ~sessions[p].done
  <2>1. p \in U
    BY <1>7, <1>10 DEF Unfinished
  <2>2. complete(p, Found(p))
    BY <1>1, <1>10
  <2>3. Cardinality(U \ {p}) = Cardinality(U) - 1 /\ Cardinality(U) \in Nat
        /\ Cardinality(U \ {p}) \in Nat
    <3> HIDE DEF U
    <3>1. IsFiniteSet(U) /\ Cardinality(U) \in Nat
      BY UnfinishedFinite DEF U
    <3>2. IsFiniteSet(U \ {p})
      BY <3>1, FS_Subset
    <3> QED  BY <2>1, <3>1, <3>2, FS_RemoveElement, FS_CardinalityType
  <2>4. remaining = Cardinality(U)
    BY <1>2 DEF Accounted
  <2>5. remaining' = Cardinality(U \ {p}) /\ remaining' \in Nat
    BY <2>2, <2>3, <2>4 DEF complete
  <2>6. candidates' \subseteq Sessions(sessions') \ Unfinished(sessions')
    <3>1. candidates' \subseteq candidates \cup {p}
      BY <2>2 DEF complete
    <3> QED  BY <1>2, <1>7, <1>8, <3>1 DEF Accounted
  <2>7. handler' => /\ shown'.paths = candidates'
                    /\ shown'.state = "ready" => remaining' = 0
    BY <2>2 DEF complete, emit
  <2>8. Accounted(sessions', candidates', remaining', handler', shown')
    BY <1>8, <2>5, <2>6, <2>7 DEF Accounted
  <2>9. TypeOK'
    BY <1>1, <1>2, <1>6, <2>5 DEF TypeOK
  <2> QED  BY <2>8, <2>9, AccountedIsNext DEF IInv
<1> QED  BY <1>9, <1>10

\* A session goes on.
LEMMA SessionInv ==
    ASSUME IInv, NEW p \in Paths, NEW x \in SessionType, x.live = sessions[p].live,
           x.done = sessions[p].done, sessions' = [sessions EXCEPT ![p] = x], Quiet
    PROVE  IInv'
<1>1. sessions \in [Paths -> SessionType] /\ UNCHANGED <<queue, handler, generation>>
      /\ UNCHANGED <<candidates, remaining, shown>>
  BY DEF IInv, TypeOK, Quiet, others
<1>2. /\ sessions' \in [Paths -> SessionType]
      /\ Sessions(sessions') = Sessions(sessions)
      /\ Unfinished(sessions') = Unfinished(sessions)
  BY <1>1, SameSessions
<1>3. Accounted(sessions', candidates', remaining', handler', shown')
  BY <1>1, <1>2, AccountedIs DEF IInv, Accounted
<1>4. TypeOK'
  BY <1>1, <1>2 DEF IInv, TypeOK
<1> QED  BY <1>3, <1>4, AccountedIsNext DEF IInv

\* The blocks on the queue.
LEMMA RunInv ==
    ASSUME IInv, Run
    PROVE  IInv'
<1>1. queue \in Seq(BlockType) /\ queue # <<>> /\ queue' = Tail(queue)
  BY DEF IInv, TypeOK, Run
<1>2. queue' \in Seq(BlockType) /\ Head(queue) \in BlockType
  BY <1>1
<1>3. CASE start \/ refresh
  <2>1. restartBrowser
    BY <1>3 DEF start, refresh
  <2> QED  BY <1>2, <2>1, ClearInv DEF restartBrowser, emit
<1>4. CASE stop
  BY <1>2, <1>4, ClearInv DEF stop
<1>5. ASSUME NEW state, handle(state) PROVE IInv'
  <2>1. UNCHANGED <<handler, generation, sessions, candidates, remaining>>
    BY <1>5 DEF handle
  <2>2. Accounted(sessions, candidates, remaining, handler, shown)
    BY AccountedIs DEF IInv
  <2>3. Accounted(sessions', candidates', remaining', handler', shown')
    <3>1. CASE state = "ready" /\ Sessions(sessions) # {}
      BY <1>5, <2>1, <2>2, <3>1 DEF handle, Accounted, Sessions, Unfinished
    <3>2. CASE ~(state = "ready" /\ Sessions(sessions) # {})
      <4>1. shown' = IF handler THEN [state |-> state, paths |-> candidates] ELSE shown
        BY <1>5, <2>1, <3>2 DEF handle, emit
      <4>2. state = "ready" => remaining = 0
        <5> SUFFICES ASSUME state = "ready" PROVE remaining = 0
          OBVIOUS
        <5>1. Unfinished(sessions) = {}
          BY <3>2 DEF Unfinished
        <5> QED  BY <2>2, <5>1, FS_EmptySet DEF Accounted
      <4>3. handler' => /\ shown'.paths = candidates
                        /\ shown'.state = "ready" => remaining = 0
        BY <2>1, <4>1, <4>2
      <4> QED  BY <2>1, <2>2, <4>3 DEF Accounted
    <3> QED  BY <3>1, <3>2
  <2>4. TypeOK'
    BY <1>2, <2>1 DEF IInv, TypeOK
  <2> QED  BY <2>3, <2>4, AccountedIsNext DEF IInv
<1>6. ASSUME probe(Head(queue).results) PROVE IInv'
  <2>1. Head(queue).results \in SUBSET Paths
    BY <1>2 DEF BlockType
  <2> QED  BY <1>2, <1>6, <2>1, ProbeInv
<1>7. CASE UNCHANGED browser
  <2>1. UNCHANGED <<handler, generation, sessions, candidates, remaining, shown>>
    BY <1>7 DEF browser
  <2>2. TypeOK'
    BY <1>2, <2>1 DEF IInv, TypeOK
  <2>3. ProbesAccounted'
    BY <2>1 DEF IInv, ProbesAccounted, Sessions
  <2> QED  BY <2>2, <2>3 DEF IInv
<1> QED  BY <1>3, <1>4, <1>5, <1>6, <1>7 DEF Run

LEMMA NextInv == IInv /\ [Next]_vars => IInv'
<1> SUFFICES ASSUME IInv, [Next]_vars PROVE IInv'
  OBVIOUS
<1>1. sessions \in [Paths -> SessionType] /\ generation \in Nat
  BY DEF IInv, TypeOK
<1>2. ASSUME NEW op \in {"start", "refresh", "stop"}, Call(op) PROVE IInv'
  <2>1. [op |-> op, generation |-> 0, results |-> {}] \in BlockType
    BY DEF BlockType
  <2> QED  BY <1>2, <2>1, EnqueueInv DEF Call, browser
<1>3. ASSUME NEW state \in {"ready", "failed"}, BrowserState(state) PROVE IInv'
  <2>1. [op |-> state, generation |-> generation, results |-> {}] \in BlockType
    BY <1>1 DEF BlockType
  <2> QED  BY <1>3, <2>1, EnqueueInv DEF BrowserState
<1>4. ASSUME NEW R \in SUBSET Paths, BrowserResults(R) PROVE IInv'
  <2>1. [op |-> "results", generation |-> generation, results |-> R] \in BlockType
    BY <1>1 DEF BlockType
  <2> QED  BY <1>4, <2>1, EnqueueInv DEF BrowserResults, browser
<1>5. ASSUME NEW p \in Paths, beginProbes(p) PROVE IInv'
  <2> DEFINE x == [sessions[p] EXCEPT !.ready = TRUE, !.probes = ProbeCount]
  <2>1. x \in SessionType /\ x.live = sessions[p].live /\ x.done = sessions[p].done
    BY <1>1, ProbesAssumption DEF SessionType
  <2>2. sessions' = [sessions EXCEPT ![p] = x] /\ Quiet
    BY <1>1, <1>5 DEF beginProbes
  <2> QED  BY <2>1, <2>2, SessionInv
<1>6. ASSUME NEW p \in Paths, sendProbe(p) PROVE IInv'
  <2> DEFINE x == [sessions[p] EXCEPT !.probes = @ - 1, !.pending = @ + 1]
  <2>1. x \in SessionType /\ x.live = sessions[p].live /\ x.done = sessions[p].done
    BY <1>1, <1>6 DEF SessionType, sendProbe
  <2>2. sessions' = [sessions EXCEPT ![p] = x] /\ Quiet
    BY <1>1, <1>6 DEF sendProbe
  <2> QED  BY <2>1, <2>2, SessionInv
<1>7. ASSUME NEW p \in Paths, NEW host \in BOOLEAN, receive(p, host) PROVE IInv'
  <2> DEFINE x == [sessions[p] EXCEPT !.pending = @ - 1, !.trips = @ + 1, !.host = host]
  <2>1. x \in SessionType /\ x.live = sessions[p].live /\ x.done = sessions[p].done
    BY <1>1, <1>7 DEF SessionType, receive
  <2>2. sessions' = [sessions EXCEPT ![p] = x] /\ Quiet
    BY <1>1, <1>7 DEF receive
  <2> QED  BY <2>1, <2>2, SessionInv
<1>8. CASE UNCHANGED vars
  <2>1. UNCHANGED <<queue, handler, generation, sessions, candidates, remaining, shown>>
    BY <1>8 DEF vars
  <2>2. TypeOK'
    BY <2>1 DEF IInv, TypeOK
  <2>3. ProbesAccounted'
    BY <2>1 DEF IInv, ProbesAccounted, Sessions
  <2> QED  BY <2>2, <2>3 DEF IInv
<1> QED  BY <1>2, <1>3, <1>4, <1>5, <1>6, <1>7, <1>8, RunInv, FinishInv DEF Next

-----------------------------------------------------------------------------

\* remainingProbeCount is the number of sessions that have not finished, the candidates are
\* those of finished sessions and the handler has seen them, whatever timers, cancelled
\* connections and callbacks of replaced browsers come twice or late.
THEOREM AlwaysAccounted == Spec => []ProbesAccounted
<1>1. IInv => ProbesAccounted
  BY DEF IInv
<1> QED  BY <1>1, InitInv, NextInv, PTL DEF Spec

=============================================================================
