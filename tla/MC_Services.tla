---------------------------- MODULE MC_Services -----------------------------
(* Three agents in one room and one thread, two approvals, three items of  *)
(* a feed, two uploads, three sends around a limit of one, two accounts    *)
(* behind one address, three turns, one agent under control, one request   *)
(* and one envelope.                                                       *)
EXTENDS Services, TLC

CONSTANT a

MCHorizon ==
  [p \in Parts |-> CASE p = "replay" -> 8
                     [] p = "control" -> 3
                     [] p \in {"floor", "feeds", "attachments"} -> 4
                     [] p \in {"gate", "login", "enrolment"} -> 3
                     [] p = "health" -> 2
                     [] OTHER -> 0]

\* The one rule an operator may write: nothing is sent to a.
MCRules == {[action |-> "deny", scope |-> "fleet", sender |-> "any", recipient |-> a]}

Interchangeable == Permutations(Fleet \ {a})
=============================================================================
