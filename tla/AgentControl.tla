---------------------------- MODULE AgentControl ----------------------------
(***************************************************************************)
(* One agent under the fleet's control plane: its status on the relay, the *)
(* control_actions rows that announce pause, quarantine and resume, the    *)
(* automation that quarantines a silent or abusive agent and restores one  *)
(* that comes back (packages/relay/src/db.ts), and the SDK adapter that    *)
(* polls those controls and obeys them (packages/sdk/src/adapter.ts).      *)
(*                                                                         *)
(* The adapter applies a reply some time after the relay produced it, and  *)
(* keeps its paused flag only in memory.                                   *)
(*                                                                         *)
(* Abstracted: which send trips the rate limiter (any send may), heartbeat *)
(* metrics, the display-only missed-heartbeat counter, audit events.       *)
(***************************************************************************)
EXTENDS RelayTime, Sequences, FiniteSets

CONSTANTS
  HeartbeatTimeout,    \* config.heartbeatTimeoutSeconds
  LivenessThreshold,   \* config.heartbeatLivenessThreshold
  ResumeTtl,           \* how long a resume control is served
  StrikeThreshold,     \* config.rateLimitViolationThreshold
  StrikeWindow,        \* config.rateLimitViolationWindowSeconds
  MaxControls,         \* bound: control_actions rows
  MaxStrikes           \* bound: rate_limit_violations rows

ASSUME AgentControlAssumption ==
  /\ {HeartbeatTimeout, LivenessThreshold, ResumeTtl, StrikeThreshold, StrikeWindow}
       \subseteq Nat \ {0}
  /\ {MaxControls, MaxStrikes, MaxTime} \subseteq Nat

VARIABLES
  agentStatus,  \* agents.status
  reason,    \* agents.quarantine_reason
  lastSeen,  \* agents.last_seen_at
  controls,  \* control_actions rows of this agent, in order of created_at
  strikes,   \* created_at of its rate_limit_violations rows
  paused,    \* the adapter's flag
  reply,     \* the inbox reply on its way to the adapter
  obeyed     \* status the relay had when it produced the last applied reply

relayVars == <<agentStatus, reason, lastSeen, controls, strikes>>
adapterVars == <<paused, reply, obeyed>>
controlVars == <<now, agentStatus, reason, lastSeen, controls, strikes, paused, reply, obeyed>>

Never == MaxTime + ResumeTtl + 1      \* NULL expires_at: after every instant

Active == {"healthy", "degraded"}
Held == {"paused", "quarantined"}
Actions == {"pause", "quarantine", "resume"}
Reasons == {"none", "operator", "heartbeat_timeout", "rate_limit_abuse"}

NoReply == [busy |-> FALSE, served |-> {}, status |-> "healthy"]

\* An enrolled agent that has not sent its first heartbeat.
ControlInit ==
  /\ now = 0
  /\ agentStatus = "healthy"
  /\ reason = "none"
  /\ lastSeen = NoTime
  /\ controls = <<>>
  /\ strikes = <<>>
  /\ paused = FALSE
  /\ reply = NoReply
  /\ obeyed = "healthy"

-----------------------------------------------------------------------------
(* The control_actions table *)

Unexpired(c) == c.expiresAt > now

\* The table after expiring the live rows of the given kinds.
Retired(kinds) ==
  [i \in DOMAIN controls |->
     IF controls[i].action \in kinds /\ Unexpired(controls[i])
     THEN [controls[i] EXCEPT !.expiresAt = now]
     ELSE controls[i]]

Control(action, by) ==
  [action |-> action, by |-> by, at |-> now,
   expiresAt |-> IF action = "resume" THEN now + ResumeTtl ELSE Never]

-----------------------------------------------------------------------------
(* Operator *)

StatusAfter(action) ==
  IF action = "pause" THEN "paused"
  ELSE IF action = "quarantine" THEN "quarantined" ELSE "healthy"

controlAgent(action) ==
  /\ Len(controls) < MaxControls              \* bound, not in the code
  /\ controls' = Append(IF action = "resume" THEN Retired({"pause", "quarantine"}) ELSE controls,
                        Control(action, "operator"))
  /\ agentStatus' = StatusAfter(action)
  /\ reason' = IF action = "quarantine" THEN "operator" ELSE "none"
  /\ UNCHANGED <<now, lastSeen, strikes, adapterVars>>

-----------------------------------------------------------------------------
(* Automation *)

\* Mutant: a heartbeat lifts every quarantine.
insertHeartbeatLiftsAll ==
  LET newStatus == IF paused THEN "degraded" ELSE "healthy" IN
  /\ agentStatus # "paused"
  /\ agentStatus' = newStatus
  /\ reason' = "none"
  /\ lastSeen' = now
  /\ controls' = Retired({"quarantine"})
  /\ UNCHANGED <<now, strikes, adapterVars>>

\* A heartbeat reaches the relay. Only a heartbeat-timeout quarantine is
\* lifted, and the quarantine controls that announced it retired.
insertHeartbeat ==
  LET newStatus == IF paused THEN "degraded" ELSE "healthy" IN
  /\ \/ /\ agentStatus = "quarantined" /\ reason = "heartbeat_timeout"
        /\ agentStatus' = newStatus
        /\ reason' = "none"
        /\ lastSeen' = now
        /\ controls' = Retired({"quarantine"})
     \/ /\ agentStatus \notin Held
        /\ agentStatus' = newStatus
        /\ lastSeen' = now
        /\ UNCHANGED <<reason, controls>>
  /\ UNCHANGED <<now, strikes, adapterVars>>

\* Mutant: only a resume that is still served counts.
ResumedAtServed ==
  LET anchors == {i \in DOMAIN controls : controls[i].action = "resume" /\ Unexpired(controls[i])}
  IN  IF anchors = {} THEN NoTime
      ELSE controls[CHOOSE i \in anchors : \A j \in anchors : j <= i].at

\* The newest resume still served or younger than the liveness window, as
\* the sweep's subquery selects it; NoTime when there is none.
ResumedAt ==
  LET window == HeartbeatTimeout * LivenessThreshold
      anchors == {i \in DOMAIN controls :
                    /\ controls[i].action = "resume"
                    /\ Unexpired(controls[i]) \/ controls[i].at > now - window}
  IN  IF anchors = {} THEN NoTime
      ELSE controls[CHOOSE i \in anchors : \A j \in anchors : j <= i].at

Missed ==
  LET seen == IF lastSeen < ResumedAt THEN ResumedAt ELSE lastSeen
  IN  (now - seen) \div HeartbeatTimeout

sweepHeartbeatLiveness ==
  /\ agentStatus \in Active
  /\ lastSeen # NoTime
  /\ Missed >= LivenessThreshold
  /\ Len(controls) < MaxControls              \* bound, not in the code
  /\ agentStatus' = "quarantined"
  /\ reason' = "heartbeat_timeout"
  /\ controls' = Append(controls, Control("quarantine", "system"))
  /\ UNCHANGED <<now, lastSeen, strikes, adapterVars>>

RecentStrikes(rows) ==
  Cardinality({i \in DOMAIN rows : rows[i] > now - StrikeWindow})

\* A send over the rate limit: the violation row, then the quarantine check
\* that counts it. The gate lets no held agent get this far.
checkRateLimitQuarantine ==
  /\ agentStatus \notin Held
  /\ Len(strikes) < MaxStrikes                \* bound, not in the code
  /\ Len(controls) < MaxControls              \* bound, not in the code
  /\ strikes' = Append(strikes, now)
  /\ \/ /\ RecentStrikes(strikes') >= StrikeThreshold
        /\ agentStatus' = "quarantined"
        /\ reason' = "rate_limit_abuse"
        /\ controls' = Append(controls, Control("quarantine", "system"))
     \/ /\ RecentStrikes(strikes') < StrikeThreshold
        /\ UNCHANGED <<agentStatus, reason, controls>>
  /\ UNCHANGED <<now, lastSeen, adapterVars>>

ControlTick == Tick /\ UNCHANGED <<relayVars, adapterVars>>

-----------------------------------------------------------------------------
(* The adapter *)

\* What getInbox serves: the live rows, newest first. A row's action never
\* changes, so the reply is known by the rows it holds.
ServedControls == {i \in DOMAIN controls : Unexpired(controls[i])}

pollInbox ==
  /\ ~reply.busy
  /\ reply' = [busy |-> TRUE, served |-> ServedControls, status |-> agentStatus]
  /\ UNCHANGED <<now, relayVars, paused, obeyed>>

\* The reply is lost; the loop logs it and polls again.
pollLost ==
  /\ reply.busy
  /\ reply' = NoReply
  /\ UNCHANGED <<now, relayVars, paused, obeyed>>

\* handleControl over the whole list, in its order: each control overwrites
\* the flag, so the last one, which is the oldest, decides.
AfterControls(served) ==
  IF served = {} THEN paused
  ELSE controls[CHOOSE i \in served : \A j \in served : i <= j].action # "resume"

handleControls ==
  /\ reply.busy
  /\ paused' = AfterControls(reply.served)
  /\ obeyed' = reply.status
  /\ reply' = NoReply
  /\ UNCHANGED <<now, relayVars>>

\* The agent process restarts: the flag was only in memory.
adapterRestart ==
  /\ paused' = FALSE
  /\ obeyed' = "healthy"
  /\ reply' = NoReply
  /\ UNCHANGED <<now, relayVars>>

-----------------------------------------------------------------------------
ControlNext ==
  \/ \E action \in Actions : controlAgent(action)
  \/ insertHeartbeat
  \/ sweepHeartbeatLiveness
  \/ checkRateLimitQuarantine
  \/ pollInbox
  \/ pollLost
  \/ handleControls
  \/ adapterRestart
  \/ ControlTick

ControlSpec == ControlInit /\ [][ControlNext]_controlVars

\* The adapter's loops keep running, and a request that fails now gets
\* through later.
ControlFairSpec ==
  /\ ControlSpec
  /\ WF_controlVars(insertHeartbeat)
  /\ WF_controlVars(pollInbox)
  /\ SF_controlVars(handleControls)
  /\ WF_controlVars(ControlTick)

-----------------------------------------------------------------------------
(* Properties *)

ControlRow == [action : Actions, by : {"operator", "system"},
               at : 0..MaxTime, expiresAt : 0..Never]

ControlTypeOK ==
  /\ now \in 0..MaxTime
  /\ agentStatus \in Active \cup Held
  /\ reason \in Reasons
  /\ lastSeen \in {NoTime} \cup 0..MaxTime
  /\ controls \in Seq(ControlRow)
  /\ strikes \in Seq(0..MaxTime)
  /\ paused \in BOOLEAN
  /\ reply \in [busy : BOOLEAN, served : SUBSET DOMAIN controls, status : Active \cup Held]
  /\ obeyed \in Active \cup Held

Standing(kinds) == \E i \in DOMAIN controls : controls[i].action \in kinds /\ Unexpired(controls[i])

\* What the inbox keeps announcing agrees with the status column, though the
\* two tables are written by four handlers: a held agent is told so on every
\* poll, an active agent carries no standing pause or quarantine.
StatusAnnounced ==
  /\ agentStatus = "paused" => Standing({"pause"})
  /\ agentStatus = "quarantined" => Standing({"quarantine"})
  /\ agentStatus \in Active => ~Standing({"pause", "quarantine"})

\* An operator's last word stands: after a pause or quarantine by an
\* operator no heartbeat, sweep or strike makes the agent active again.
OperatorHoldStands ==
  \A i \in DOMAIN controls :
    /\ controls[i].by = "operator" /\ controls[i].action # "resume"
    /\ \A j \in DOMAIN controls : controls[j].by = "operator" => j <= i
    => agentStatus \in Held

\* Status and controls stay in step through every order of operator actions,
\* heartbeats, liveness sweeps and strikes, and automation never overrules an
\* operator.
ControlSound == ControlTypeOK /\ StatusAnnounced /\ OperatorHoldStands

\* A resume buys a full liveness window: the sweep never quarantines an agent
\* for silence sooner than that after a resume or a heartbeat.
ResumeGrace ==
  [][/\ agentStatus \in Active /\ reason' = "heartbeat_timeout"
     => /\ now - lastSeen >= HeartbeatTimeout * LivenessThreshold
        /\ \A i \in DOMAIN controls :
             controls[i].action = "resume"
               => now - controls[i].at >= HeartbeatTimeout * LivenessThreshold]_controlVars

\* The adapter's documented job: once it has applied a reply the relay made
\* for a held agent, it is paused.
ControlsApplied == obeyed \in Held => paused

OperatorIdle == \A i \in DOMAIN controls : controls[i].by = "system"

\* The documented auto-restore, seen from the agent: when no operator ever
\* intervenes and the relay counts the agent active for good, the adapter
\* does not stay paused.
RestoredAgentRuns == [](OperatorIdle) /\ <>[](agentStatus \in Active) => []<>(~paused)
=============================================================================
