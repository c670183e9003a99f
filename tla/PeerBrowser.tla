---------------------------- MODULE PeerBrowser ----------------------------
(***************************************************************************)
(* Discovery on Apple platforms: AOOPeerBrowser and AOOPathProbeSession of     *)
(* apple/Sources/AOOAppleDiscovery/Discovery.swift.  The browser looks for     *)
(* services and probes every path to each of them with a session of its own:   *)
(* a UDP connection on which a few probes are sent and answered.  A session    *)
(* ends once, by a timer after the probes, by a timer over all, or by its      *)
(* connection, and reports a candidate or nothing; the browser counts what is  *)
(* still to come and tells its handler.                                      *)
(*                                                                           *)
(* Everything runs on one serial queue.  Calls and the callbacks of the        *)
(* system browser wait in it, so a callback can belong to a browser that has   *)
(* been replaced.  Sessions are held by the browser only, and their blocks     *)
(* refer to them weakly: a session that was dropped does nothing more.        *)
(***************************************************************************)
EXTENDS Integers, Sequences, FiniteSets

CONSTANTS Paths,       \* endpoint, interface and IP version of a session
          ProbeCount,  \* probes of a session, 8 in the code
          Enough,      \* round trips a candidate needs, 3 in the code
          MaxCalls,    \* bound: calls of start(), refresh() and stop()
          MaxResults,  \* bound: changes of the services found
          MaxQueue     \* bound: blocks that wait

ASSUME PathsAssumption == IsFiniteSet(Paths)
ASSUME ProbesAssumption == ProbeCount \in Nat

VARIABLES queue,       \* blocks that wait: [op, generation, results]
          handler,     \* snapshotHandler is set
          generation,
          browsing,    \* the system browser is there
          reported,    \* it has reported its state
          sessions,    \* probeSessions: the session of each path, or NoSession
          candidates,  \* paths with a candidate
          remaining,   \* remainingProbeCount
          shown,       \* the last snapshot: [state, paths]
          calls, changes

browser == <<handler, generation, browsing, reported, sessions, candidates, remaining, shown>>
vars == <<queue, handler, generation, browsing, reported, sessions, candidates, remaining,
          shown, calls, changes>>

NoSession == [live |-> FALSE, ready |-> FALSE, probes |-> 0, pending |-> 0, trips |-> 0,
              host |-> FALSE, done |-> FALSE]
NewSession == [NoSession EXCEPT !.live = TRUE]

Init ==
    /\ queue = <<>>
    /\ handler = FALSE /\ generation = 0 /\ browsing = FALSE /\ reported = FALSE
    /\ sessions = [p \in Paths |-> NoSession]
    /\ candidates = {} /\ remaining = 0
    /\ shown = [state |-> "stopped", paths |-> {}]
    /\ calls = 0 /\ changes = 0

Sessions(S) == {p \in Paths : S[p].live}

\* emit()
emit(state) ==
    shown' = IF handler' THEN [state |-> state, paths |-> candidates'] ELSE shown

-----------------------------------------------------------------------------
(* What enters the queue.                                                    *)

Call(op) ==
    /\ Len(queue) < MaxQueue /\ calls < MaxCalls /\ calls' = calls + 1
    /\ queue' = Append(queue, [op |-> op, generation |-> 0, results |-> {}])
    /\ UNCHANGED <<browser, changes>>

\* The system browser reports that it is ready or has failed, once, ...
BrowserState(state) ==
    /\ Len(queue) < MaxQueue /\ browsing /\ ~reported /\ reported' = TRUE
    /\ queue' = Append(queue, [op |-> state, generation |-> generation, results |-> {}])
    /\ UNCHANGED <<handler, generation, browsing, sessions, candidates, remaining, shown,
                   calls, changes>>

\* ... and the services it sees.
BrowserResults(R) ==
    /\ Len(queue) < MaxQueue /\ browsing /\ changes < MaxResults /\ changes' = changes + 1
    /\ queue' = Append(queue, [op |-> "results", generation |-> generation, results |-> R])
    /\ UNCHANGED <<browser, calls>>

-----------------------------------------------------------------------------
(* What runs on the queue.                                                   *)

\* Cancelling sessions drops them.
Clear ==
    /\ sessions' = [p \in Paths |-> NoSession]
    /\ candidates' = {} /\ remaining' = 0

restartBrowser ==
    /\ generation' = generation + 1
    /\ browsing' = TRUE /\ reported' = FALSE
    /\ Clear
    /\ emit("searching")

start == handler' = TRUE /\ restartBrowser
refresh == handler' = handler /\ restartBrowser

\* stop(): the handler is told, then forgotten.
stop ==
    /\ generation' = generation + 1
    /\ browsing' = FALSE /\ reported' = FALSE
    /\ Clear
    /\ shown' = IF handler THEN [state |-> "stopped", paths |-> {}] ELSE shown
    /\ handler' = FALSE

\* handle(browserState:generation:)
handle(state) ==
    /\ UNCHANGED <<handler, generation, browsing, reported, sessions, candidates, remaining>>
    /\ IF state = "ready" /\ Sessions(sessions) # {} THEN UNCHANGED shown ELSE emit(state)

\* probe(results:generation:): a new session for every path.
probe(R) ==
    /\ UNCHANGED <<handler, generation, browsing, reported>>
    /\ sessions' = [p \in Paths |-> IF p \in R THEN NewSession ELSE NoSession]
    /\ candidates' = {}
    /\ remaining' = Cardinality(R)
    /\ emit(IF R = {} THEN "ready" ELSE "searching")

\* The next block; a callback of an earlier generation does nothing.
Run ==
    /\ queue # <<>> /\ queue' = Tail(queue)
    /\ LET b == Head(queue)
       IN  \/ b.op = "start" /\ start
           \/ b.op = "refresh" /\ refresh
           \/ b.op = "stop" /\ stop
           \/ b.op \in {"ready", "failed"} /\ b.generation = generation /\ handle(b.op)
           \/ b.op = "results" /\ b.generation = generation /\ probe(b.results)
           \/ /\ b.op \in {"ready", "failed", "results"} /\ b.generation # generation
              /\ UNCHANGED browser
    /\ UNCHANGED <<calls, changes>>

-----------------------------------------------------------------------------
(* Sessions.                                                                 *)

others == <<queue, handler, generation, browsing, reported, calls, changes>>
Quiet == UNCHANGED <<others, candidates, remaining, shown>>

\* finish(), and what the browser does when the session completes.
Found(p) == sessions[p].host /\ sessions[p].trips >= Enough

complete(p, found) ==
    /\ candidates' = IF found THEN candidates \cup {p} ELSE candidates
    /\ remaining' = IF remaining > 0 THEN remaining - 1 ELSE 0
    /\ emit(IF remaining' = 0 THEN "ready" ELSE "searching")

finish_silent(p) ==
    /\ UNCHANGED others
    /\ sessions' = [sessions EXCEPT ![p].done = TRUE]
    /\ IF sessions[p].done \/ ~Found(p) THEN UNCHANGED <<candidates, remaining, shown>>
       ELSE complete(p, TRUE)
finish_again(p) ==
    /\ UNCHANGED others
    /\ sessions' = [sessions EXCEPT ![p].done = TRUE]
    /\ complete(p, Found(p))
finish(p) ==
    /\ UNCHANGED others
    /\ sessions' = [sessions EXCEPT ![p].done = TRUE]
    /\ IF sessions[p].done THEN UNCHANGED <<candidates, remaining, shown>>
       ELSE complete(p, Found(p))

\* The connection is ready: the probes are scheduled, and the timer behind them.
beginProbes(p) ==
    /\ sessions[p].live /\ ~sessions[p].ready /\ ~sessions[p].done
    /\ sessions' = [sessions EXCEPT ![p].ready = TRUE, ![p].probes = ProbeCount]
    /\ Quiet

sendProbe(p) ==
    /\ sessions[p].live /\ ~sessions[p].done /\ sessions[p].probes > 0
    /\ sessions' = [sessions EXCEPT ![p].probes = @ - 1, ![p].pending = @ + 1]
    /\ Quiet

\* An answer to a probe that is pending, from a receiver that knows its host or does not;
\* other datagrams change nothing.
receive(p, host) ==
    /\ sessions[p].live /\ ~sessions[p].done /\ sessions[p].pending > 0
    /\ sessions' = [sessions EXCEPT ![p].pending = @ - 1, ![p].trips = @ + 1, ![p].host = host]
    /\ Quiet

\* The session ends: by the timer over all, which runs from the start, the timer behind the
\* probes, an error of the connection, or the callback for the connection finish() has
\* cancelled.  They come in any order and more than once.
end(p) == sessions[p].live /\ finish(p)

Next ==
    \/ \E op \in {"start", "refresh", "stop"} : Call(op)
    \/ \E state \in {"ready", "failed"} : BrowserState(state)
    \/ \E R \in SUBSET Paths : BrowserResults(R)
    \/ Run
    \/ \E p \in Paths :
        \/ beginProbes(p) \/ sendProbe(p) \/ end(p)
        \/ \E host \in BOOLEAN : receive(p, host)

Spec == Init /\ [][Next]_vars

\* Blocks run, the timer over all goes off, and the system browser reports its state.
Fairness ==
    /\ WF_vars(Run)
    /\ \A p \in Paths : WF_vars(end(p))
    /\ WF_vars(\E state \in {"ready", "failed"} : BrowserState(state))

FairSpec == Spec /\ Fairness

-----------------------------------------------------------------------------
(* remainingProbeCount is the number of sessions that have not finished, whatever comes  *)
(* twice (both timers and the cancelled connection call finish()), late (results of a    *)
(* browser that was replaced) or early (new results while sessions run); only finished   *)
(* sessions have candidates, the handler has seen them all, and it was told "ready" only *)
(* when nothing was left.                                                                *)
ProbesAccounted ==
    LET unfinished == {p \in Sessions(sessions) : ~sessions[p].done}
    IN  /\ remaining = Cardinality(unfinished)
        /\ candidates \subseteq Sessions(sessions) \ unfinished
        /\ handler => shown.paths = candidates /\ (shown.state = "ready" => remaining = 0)

(* A search ends: the handler that was told "searching" is told something else, though   *)
(* connections may never become ready and probes may never be answered.                  *)
SearchEnds == []<>(shown.state # "searching")
=============================================================================
