---------------------------- MODULE MC_Delivery -----------------------------
(* A small fleet with the operator in it, and a backoff that grows.        *)
EXTENDS Delivery

CONSTANTS m1, m2, a

MCBackoff == <<0, 1>>

\* Bound: one message with any recipients, or two short-lived ones queued for
\* the same agent.
Scope ==
  msg[m2].status # "none"
    => \A m \in Msgs : Recipients(m) = {a} /\ msg[m].expiresAt \in 1..4

MCNext == Next /\ Scope'

MCSpec == Init /\ [][MCNext]_vars /\ WF_vars(Tick) /\ WF_vars(sweep(TRUE, TRUE))
=============================================================================
