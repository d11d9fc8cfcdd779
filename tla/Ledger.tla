------------------------------- MODULE Ledger -------------------------------
(***************************************************************************)
(* What the relay promises about each delivery, without its tables, clock, *)
(* retries or message status: a delivery is open from the send until it is *)
(* acknowledged or lost; only an open one is handed out, a bounded number  *)
(* of times; only one that was handed out can be acknowledged; and the     *)
(* single way back from "lost" is a late acknowledgement.                  *)
(***************************************************************************)
EXTENDS Naturals

CONSTANTS Agents, Msgs, MaxHandouts

VARIABLES
  fate,     \* none, open, lost or acked, per <<message, recipient>>
  handouts  \* how often it was handed to its recipient

ledger == <<fate, handouts>>

Deliveries == Msgs \X Agents

Init ==
  /\ fate = [d \in Deliveries |-> "none"]
  /\ handouts = [d \in Deliveries |-> 0]

\* Every delivery of a message opens at once.
Send(m, R) ==
  /\ \A a \in Agents : fate[<<m, a>>] = "none"
  /\ fate' = [d \in Deliveries |-> IF d[1] = m /\ d[2] \in R THEN "open" ELSE fate[d]]
  /\ UNCHANGED handouts

HandOut(a, B) ==
  /\ \A m \in B : fate[<<m, a>>] = "open" /\ handouts[<<m, a>>] < MaxHandouts
  /\ handouts' = [d \in Deliveries |->
                    IF d[1] \in B /\ d[2] = a THEN handouts[d] + 1 ELSE handouts[d]]
  /\ UNCHANGED fate

Acknowledge(d) ==
  /\ fate[d] \in {"open", "lost"}
  /\ handouts[d] > 0
  /\ fate' = [fate EXCEPT ![d] = "acked"]
  /\ UNCHANGED handouts

GiveUp(D) ==
  /\ \A d \in D : fate[d] = "open"
  /\ fate' = [d \in Deliveries |-> IF d \in D THEN "lost" ELSE fate[d]]
  /\ UNCHANGED handouts

Next ==
  \/ \E m \in Msgs, R \in SUBSET Agents : Send(m, R)
  \/ \E a \in Agents, B \in SUBSET Msgs : HandOut(a, B)
  \/ \E d \in Deliveries : Acknowledge(d)
  \/ \E D \in SUBSET Deliveries : GiveUp(D)

Spec == Init /\ [][Next]_ledger
=============================================================================
