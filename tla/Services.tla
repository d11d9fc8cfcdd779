------------------------------ MODULE Services ------------------------------
(***************************************************************************)
(* The relay's services beside the delivery ledger and the key tables,     *)
(* under one clock. They keep their rows in tables of their own, so a      *)
(* behaviour exercises one of them: the variable part says which, and the  *)
(* state space is the sum of theirs and not the product.                   *)
(***************************************************************************)
EXTENDS Conversations, Approvals, Feeds, Attachments, A2ATasks, Access,
        FleetHealth, AgentControl, ReplayNonces

CONSTANT Horizon   \* bound: the last instant of the clock in each part

VARIABLE part

Parts == {"rooms", "floor", "approvals", "feeds", "attachments", "gate", "tasks",
          "login", "enrolment", "health", "control", "replay"}

ASSUME ServicesAssumption == Horizon \in [Parts -> 0..MaxTime]

tables == <<convVars, aprvVars, feedVars, attVars, a2aVars, accessVars, healthVars,
            relayVars, adapterVars, nonceVars>>

ServicesInit ==
  /\ part \in Parts
  /\ ConvInit /\ AprvInit /\ FeedInit /\ AttInit /\ A2AInit /\ AccessInit /\ HealthInit
  /\ ControlInit /\ ReplayInit
  /\ part = "approvals" \/ ~held
  /\ part = "replay" \/ sentAt = [x \in Signed |-> 0]

ServiceStep ==
  \/ part \in {"rooms", "floor"} /\ RoomStep
  \/ part = "rooms" /\ SendStep
  \/ part = "floor" /\ FloorStep
  \/ part = "approvals" /\ AprvNext
  \/ part = "feeds" /\ FeedNext
  \/ part = "attachments" /\ AttNext
  \/ part = "gate" /\ (GateStep \/ OperatorStep)
  \/ part = "tasks" /\ (TaskStep \/ StreamStep)
  \/ part = "login" /\ LoginStep
  \/ part = "enrolment" /\ EnrollStep
  \/ part = "health" /\ HealthNext

\* The tables of the services that this behaviour does not exercise.
OthersStand ==
  /\ IF part \in {"rooms", "floor"} THEN TRUE ELSE UNCHANGED convVars
  /\ IF part = "approvals" THEN TRUE ELSE UNCHANGED aprvVars
  /\ IF part = "feeds" THEN TRUE ELSE UNCHANGED feedVars
  /\ IF part = "attachments" THEN TRUE ELSE UNCHANGED attVars
  /\ IF part \in {"gate", "tasks"} THEN TRUE ELSE UNCHANGED a2aVars
  /\ IF part \in {"login", "enrolment"} THEN TRUE ELSE UNCHANGED accessVars
  /\ IF part = "health" THEN TRUE ELSE UNCHANGED healthVars
  /\ IF part = "control" THEN TRUE ELSE UNCHANGED <<relayVars, adapterVars>>
  /\ IF part = "replay" THEN TRUE ELSE UNCHANGED nonceVars

ServicesNext ==
  /\ \/ ServiceStep /\ UNCHANGED now
     \/ part = "control" /\ ControlNext
     \/ part = "replay" /\ ReplayNext
     \/ part \notin {"control", "replay"} /\ Tick /\ UNCHANGED tables
  /\ OthersStand
  /\ now' <= Horizon[part]
  /\ UNCHANGED part

ServicesSpec == ServicesInit /\ [][ServicesNext]_<<part, now, tables>>
=============================================================================
