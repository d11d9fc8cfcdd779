--------------------------- MODULE OperatorTrust ----------------------------
(***************************************************************************)
(* The two ends of operator trust: the relay's table of operator keys with *)
(* the console's reading of it, and the pins of an agent, which takes the  *)
(* relay at no word and so may be served any list (TrustRoot). A behaviour *)
(* exercises one end, which side names, and the state space is the sum of  *)
(* theirs and not the product.                                             *)
(***************************************************************************)
EXTENDS ConsoleTrust, TrustRoot

VARIABLE side

OperatorTrustInit ==
  /\ side \in {"relay", "agent"}
  /\ Init /\ TrustInit
  /\ side = "relay" \/ \A k \in Keys : life[k] = "absent"
  /\ side = "agent" \/ seed = {}

OperatorTrustNext ==
  /\ \/ side = "relay" /\ Next /\ UNCHANGED trustVars
     \/ side = "agent" /\ TrustNext /\ UNCHANGED vars
  /\ UNCHANGED side

OperatorTrustSpec == OperatorTrustInit /\ [][OperatorTrustNext]_<<side, vars, trustVars>>
=============================================================================
