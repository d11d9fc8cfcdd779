----------------------------- MODULE Approvals ------------------------------
(***************************************************************************)
(* Approval of risky actions: proposeAction, approveOrReject and           *)
(* completeActionResult of packages/relay/src/db.ts, and the SDK adapter   *)
(* that waits for the answer (packages/sdk/src/adapter.ts).                *)
(*                                                                         *)
(* One agent; each proposal is one call of the adapter. Replies may be     *)
(* lost and the process may stop while it waits. Results are reported by   *)
(* the agent's own code, which the relay holds to nothing: any result, at  *)
(* any time, for a row the operator may not have answered.                 *)
(***************************************************************************)
EXTENDS Integers

CONSTANT Proposals

VARIABLES
  held,      \* agents.status is paused or quarantined
  aprv,      \* Proposals -> approvals.status, "none" when there is no row
  call,      \* Proposals -> where the adapter's call is
  decision,  \* history: the operator's last answer
  reported   \* history: the results the agent has reported

aprvVars == <<held, aprv, call, decision, reported>>

Results == {"executed", "failed", "cancelled"}

AprvInit ==
  /\ held \in BOOLEAN
  /\ aprv = [p \in Proposals |-> "none"]
  /\ call = [p \in Proposals |-> "idle"]
  /\ decision = [p \in Proposals |-> "none"]
  /\ reported = [p \in Proposals |-> {}]

\* controlAgent, as far as proposeAction reads it.
holdAgent == held' = ~held /\ UNCHANGED <<aprv, call, decision, reported>>

\* A held agent is denied, a low risk allowed, a high one kept pending. When
\* the reply is lost the call fails and a pending row stays behind.
proposeAction(p, risk, arrives) ==
  /\ call[p] = "idle"
  /\ aprv' = IF ~held /\ risk = "high" THEN [aprv EXCEPT ![p] = "pending"] ELSE aprv
  /\ call' = [call EXCEPT ![p] =
       IF held \/ ~arrives THEN "refused" ELSE IF risk = "high" THEN "waiting" ELSE "allowed"]
  /\ UNCHANGED <<held, decision, reported>>

\* Mutant: an operator may answer again after the first answer.
AnswerableTwice(p) == aprv[p] \in {"pending", "approved", "rejected"}

Answerable(p) == aprv[p] = "pending"

approveOrReject(p, answer) ==
  /\ Answerable(p)
  /\ aprv' = [aprv EXCEPT ![p] = answer]
  /\ decision' = [decision EXCEPT ![p] = answer]
  /\ UNCHANGED <<held, call, reported>>

\* One round of the adapter's loop: getApprovalStatus and its branches. A
\* status in neither list is polled again.
pollApproval(p) ==
  /\ call[p] = "waiting"
  /\ aprv[p] # "pending"
  /\ call' = [call EXCEPT ![p] =
       IF aprv[p] \in {"approved", "executed"} THEN "ran"
       ELSE IF aprv[p] \in {"rejected", "cancelled", "expired"} THEN "refused" ELSE "waiting"]
  /\ UNCHANGED <<held, aprv, decision, reported>>

adapterStops(p) ==
  /\ call[p] = "waiting"
  /\ call' = [call EXCEPT ![p] = "refused"]
  /\ UNCHANGED <<held, aprv, decision, reported>>

\* No guard on the row's status, and none on what the agent has done.
completeActionResult(p, result) ==
  /\ aprv[p] # "none"
  /\ aprv' = [aprv EXCEPT ![p] = result]
  /\ reported' = [reported EXCEPT ![p] = @ \cup {result}]
  /\ UNCHANGED <<held, call, decision>>

AprvNext ==
  \/ holdAgent
  \/ \E p \in Proposals :
       \/ \E risk \in {"low", "high"}, arrives \in BOOLEAN : proposeAction(p, risk, arrives)
       \/ \E answer \in {"approved", "rejected"} : approveOrReject(p, answer)
       \/ pollApproval(p)
       \/ adapterStops(p)
       \/ \E result \in Results : completeActionResult(p, result)

\* A risky action that the adapter let run was approved by the operator, unless
\* the agent's own code had reported it executed while it waited, which the
\* relay takes and the adapter reads as an approval. The operator's word stands
\* otherwise: an action in a row that says rejected has not run, whatever
\* answers, polls and reports came before, and until the agent reports anything
\* the row says what the operator answered.
RanAsApproved ==
  \A p \in Proposals :
    /\ call[p] = "ran" => decision[p] = "approved" \/ "executed" \in reported[p]
    /\ aprv[p] = "rejected" => call[p] # "ran"
    /\ decision[p] # "none" /\ reported[p] = {} => aprv[p] = decision[p]
=============================================================================
