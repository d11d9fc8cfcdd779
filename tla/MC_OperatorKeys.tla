-------------------------- MODULE MC_OperatorKeys ---------------------------
(* Three interchangeable operator keys, any of which an earlier release    *)
(* may have revoked, two agent keys and two grants; and, for the agent's   *)
(* pins, two instants and three signed statements.                         *)
EXTENDS OperatorTrust, TLC

Symmetry == Permutations(Keys) \cup Permutations(AgentKeys)

\* Bound: two agent keys with one grant, or two grants with one agent key.
Scope ==
  Cardinality({i \in AgentKeys : agentLife[i] = "live"})
    + Cardinality({g \in Grants : grant[g].state # "none"}) <= 3
=============================================================================
