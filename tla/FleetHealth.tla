---------------------------- MODULE FleetHealth -----------------------------
(***************************************************************************)
(* How the operator comes to know that an agent's model is failing. The    *)
(* plugin folds the outcome of every turn it spawns into a rolling window  *)
(* (packages/openclaw-plugin/src/connection.ts and autoreply.ts), each     *)
(* heartbeat carries the verdict on that window, and the relay's health    *)
(* board and attention list judge the last heartbeat it received           *)
(* (packages/relay/src/fleet-health.ts and db.ts). Heartbeats are sent on  *)
(* a timer without waiting for the last one: they may be lost and overtake *)
(* each other. A turn that times out ends twice, by its timer and by the   *)
(* exit of the child it killed, and the next turn may run meanwhile.       *)
(*                                                                         *)
(* One agent, whose status AgentControl moves. Abstracted: the error text, *)
(* the counts shown beside the verdict, and the traffic figures.           *)
(***************************************************************************)
EXTENDS RelayTime, Sequences, FiniteSets

CONSTANTS
  Turns,        \* turns the plugin spawns, numbered
  TurnWindow,   \* TURN_HEALTH_WINDOW_MS
  TurnMax,      \* TURN_HEALTH_MAX
  FailRun,      \* failures in a row that mean "down" after health
  StaleAfter,   \* HEARTBEAT_STALE_MS
  MaxBeats      \* bound: heartbeats on the wire

ASSUME HealthAssumption == TurnWindow \in Nat /\ TurnMax \in Nat /\ FailRun \in Nat

VARIABLES
  child,    \* each turn: "unborn", "running", "killed" (timed out) or "over"
  calls,    \* modelCalls: [t, ok]
  wire,     \* heartbeats sent: [sent, health, upto]
  latest,   \* the heartbeat last received: [at, sent, health, upto]
  standing, \* agents.status
  ended     \* history: how each turn ended, once: [t, ok]

healthVars == <<child, calls, wire, latest, standing, ended>>

NoBeat == [at |-> 0, sent |-> 0, health |-> "none", upto |-> 0]

HealthInit ==
  /\ child = [u \in Turns |-> "unborn"]
  /\ calls = <<>> /\ wire = {} /\ latest = NoBeat /\ ended = <<>>
  /\ standing = "active"

LastOf(s, n) == SubSeq(s, IF Len(s) > n THEN Len(s) - n + 1 ELSE 1, Len(s))

\* noteModelCallEnded: the cap, then what leads the list from before the window.
NoteModelCall(s, ok) ==
  LET capped == LastOf(Append(s, [t |-> now, ok |-> ok]), TurnMax)
      stale == {i \in DOMAIN capped : \A j \in 1..i : capped[j].t < now - TurnWindow}
  IN  SubSeq(capped, Cardinality(stale) + 1, Len(capped))

\* deriveTurnHealth at instant n: nothing in the window succeeded, or FailRun
\* failures end it.
TurnHealth(s, n) ==
  LET win == {i \in DOMAIN s : s[i].t >= n - TurnWindow}
      errors == {i \in win : ~s[i].ok}
      tail == {i \in win : \A j \in win : j >= i => j \in errors}
  IN  IF win = {} THEN "unknown"
      ELSE IF win = errors \/ Cardinality(tail) >= FailRun THEN "down"
      ELSE IF errors # {} THEN "degraded" ELSE "ok"

-----------------------------------------------------------------------------
(* The plugin *)

spawnTurn(u) ==
  /\ child[u] = "unborn"
  /\ \A x \in Turns : child[x] # "running" /\ (x < u => child[x] # "unborn")
  /\ child' = [child EXCEPT ![u] = "running"]
  /\ UNCHANGED <<calls, wire, latest, standing, ended>>

\* Mutant: each of a turn's endings is reported.
NotedEveryTime(u, ok) == calls' = NoteModelCall(calls, ok)

\* createTurnOutcomeReporter: only the first of a turn's endings is reported.
NotedOnce(u, ok) == calls' = IF child[u] = "running" THEN NoteModelCall(calls, ok) ELSE calls

\* The child exits, with success or not; a child that was killed may have
\* finished its work just before.
childExits(u, ok) ==
  /\ child[u] \in {"running", "killed"}
  /\ NotedOnce(u, ok)
  /\ child' = [child EXCEPT ![u] = "over"]
  /\ ended' = IF child[u] = "running" THEN Append(ended, [t |-> now, ok |-> ok]) ELSE ended
  /\ UNCHANGED <<wire, latest, standing>>

\* TURN_TIMEOUT_SECONDS pass: the turn has failed, and its child is killed.
turnTimesOut(u) ==
  /\ child[u] = "running"
  /\ NotedOnce(u, FALSE)
  /\ child' = [child EXCEPT ![u] = "killed"]
  /\ ended' = Append(ended, [t |-> now, ok |-> FALSE])
  /\ UNCHANGED <<wire, latest, standing>>

\* turnHealthMetrics rides on the heartbeat.
beat ==
  /\ Cardinality(wire) < MaxBeats
  /\ wire' = wire \cup {[sent |-> now, health |-> TurnHealth(calls, now), upto |-> Len(ended)]}
  /\ UNCHANGED <<child, calls, latest, standing, ended>>

-----------------------------------------------------------------------------
(* The relay *)

beatReceived(b) ==
  /\ b \in wire
  /\ wire' = wire \ {b}
  /\ latest' = [at |-> now, sent |-> b.sent, health |-> b.health, upto |-> b.upto]
  /\ UNCHANGED <<child, calls, standing, ended>>

beatLost(b) ==
  /\ b \in wire
  /\ wire' = wire \ {b}
  /\ UNCHANGED <<child, calls, latest, standing, ended>>

\* The operator, or the relay, changes the agent's status (AgentControl).
statusChanges(s) ==
  /\ standing # s
  /\ standing' = s
  /\ UNCHANGED <<child, calls, wire, latest, ended>>

\* deriveAgentHealth
AgentHealth ==
  LET silent == latest = NoBeat \/ now - latest.at > StaleAfter
  IN  IF standing = "quarantined" \/ silent \/ latest.health = "down" THEN "down"
      ELSE IF standing = "paused" \/ latest.health = "degraded" THEN "degraded" ELSE "ok"

\* buildAttentionItems, for this agent
Attention ==
  IF AgentHealth = "down" THEN {"critical"}
  ELSE IF AgentHealth = "degraded" THEN {"warn"} ELSE {}

HealthNext ==
  \/ \E u \in Turns :
       spawnTurn(u) \/ turnTimesOut(u) \/ \E ok \in BOOLEAN : childExits(u, ok)
  \/ beat
  \/ \E b \in wire : beatReceived(b) \/ beatLost(b)
  \/ \E s \in {"active", "paused", "quarantined"} : statusChanges(s)

-----------------------------------------------------------------------------
\* The turns that count for the last heartbeat: ended when it was sent, within
\* the window then and among the last TurnMax.
CountedTurns ==
  {i \in 1..latest.upto : i > latest.upto - TurnMax /\ ended[i].t >= latest.sent - TurnWindow}

\* Every one of them failed, or the last FailRun of them did.
ModelDown ==
  LET run == {i \in CountedTurns : i > latest.upto - FailRun}
  IN  /\ CountedTurns # {}
      /\ \/ \A i \in CountedTurns : ~ended[i].ok
         \/ Cardinality(run) = FailRun /\ \A i \in run : ~ended[i].ok

\* The operator is alarmed for a reason, and not alarmed only for a reason:
\* while heartbeats are fresh and the agent is not quarantined, the alarm means
\* that every turn of the window, or the last run of them, had failed when the
\* heartbeat was sent, a turn that timed out being one failure and not two; no
\* notice at all means that none had. Silence is an alarm too.
AlarmIsTrue ==
  IF latest = NoBeat \/ now - latest.at > StaleAfter \/ standing = "quarantined"
  THEN Attention = {"critical"}
  ELSE /\ ("critical" \in Attention) = ModelDown
       /\ Attention = {} => \A i \in CountedTurns : ended[i].ok
=============================================================================
