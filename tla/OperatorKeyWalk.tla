-------------------------- MODULE OperatorKeyWalk ---------------------------
(***************************************************************************)
(* The two pointer walks of packages/relay/src/db.ts over the operator key *)
(* table, one loop iteration per step: endorserIsTrusted and               *)
(* assertNoEndorsementCycle. The table is arbitrary, not just one that     *)
(* the handlers of OperatorKeys could have written: the deployed table     *)
(* already holds a cycle and revoked keys with live descendants.           *)
(*                                                                         *)
(* OperatorKeys uses the walks' meaning (a least fixed point and a         *)
(* reachability set); this module shows the loops compute it.              *)
(***************************************************************************)
EXTENDS OperatorKeys

VARIABLES
  query,    \* what was asked: [kind, key, other]
  cursor,   \* the key under the loop's cursor
  walked,   \* keys already visited
  verdict   \* "walking", "yes" or "no"

table == <<life, parent, agentLife, agentParent, grant, relayAt, hostAt>>
walkVars == <<query, cursor, walked, verdict>>

\* A trust query asks for query.key with query.other excluded; a cycle query
\* asks whether endorser query.key chains back to target query.other.
Queries ==
  [kind : {"trust"}, key : Keys, other : Keys \cup {None}]
    \cup [kind : {"cycle"}, key : Keys, other : Keys]

\* Any table: dead, absent and live keys, any endorsement edges, any roots,
\* and grants that were consumed or never armed.
AnyTable ==
  /\ life \in [Keys -> {"absent", "live", "signed"}]
  /\ parent \in {p \in [Keys -> Keys \cup {None}] :
                   \A k \in Keys : life[k] = "absent" => p[k] = None}
  /\ agentLife = [i \in AgentKeys |-> "live"]
  /\ agentParent \in [AgentKeys -> Keys \cup {None}]
  /\ grant \in [Grants -> {NoGrant} \cup {r \in [state : {"consumed"}, endorser : Keys, target : Keys] :
                                           r.endorser # r.target}]
  /\ relayAt = Idle
  /\ hostAt = Idle

\* endorserIsTrusted answers at once in a fleet without an endorsed agent.
WalkInit ==
  /\ AnyTable
  /\ query \in Queries
  /\ cursor = query.key
  /\ walked = {}
  /\ verdict = IF query.kind = "trust" /\ PinnedRoots = {} THEN "yes" ELSE "walking"

\* Mutant: only the first key is checked for revocation, not each hop.
TrustVerdictFirstHop ==
  IF cursor = None \/ cursor \in walked THEN "no"
  ELSE IF (walked = {} /\ ~Live(cursor)) \/ cursor = query.other THEN "no"
  ELSE IF cursor \in PinnedRoots \/ RecoveredVia(cursor) THEN "yes"
  ELSE IF parent[cursor] = None THEN "no" ELSE "walking"

\* One iteration of endorserIsTrusted's loop, its exit test included. A recovered
\* key has an endorser, so the two answers after the root test come in either order.
TrustVerdict ==
  IF cursor = None \/ cursor \in walked THEN "no"
  ELSE IF ~Live(cursor) \/ cursor = query.other THEN "no"
  ELSE IF cursor \in PinnedRoots \/ RecoveredVia(cursor) THEN "yes"
  ELSE IF parent[cursor] = None THEN "no" ELSE "walking"

\* Mutant: the cycle walk keeps no set of visited keys.
CycleVerdictForgetful ==
  IF cursor = None THEN "no" ELSE IF cursor = query.other THEN "yes" ELSE "walking"

\* One iteration of assertNoEndorsementCycle's loop, its exit test included.
CycleVerdict ==
  IF cursor = None THEN "no"
  ELSE IF cursor = query.other THEN "yes"
  ELSE IF cursor \in walked THEN "no" ELSE "walking"

Hop(kind, v) ==
  /\ query.kind = kind
  /\ verdict = "walking"
  /\ verdict' = v
  /\ IF v = "walking"
     THEN /\ walked' = walked \cup {cursor}
          /\ cursor' = parent[cursor]
     ELSE UNCHANGED <<walked, cursor>>
  /\ UNCHANGED <<table, query>>

TrustHop == Hop("trust", TrustVerdict)
CycleHop == Hop("cycle", CycleVerdict)
Answered == verdict # "walking" /\ UNCHANGED <<table, walkVars>>

WalkNext == TrustHop \/ CycleHop \/ Answered
WalkSpec == WalkInit /\ [][WalkNext]_<<table, walkVars>> /\ WF_<<table, walkVars>>(WalkNext)

-----------------------------------------------------------------------------
\* The walk answers what its definition in OperatorKeys means, on every
\* table: dead hops, cycles, dangling endorsers and consumed grants included.
WalkCorrect ==
  verdict # "walking" =>
    (verdict = "yes") = IF query.kind = "trust"
                        THEN EndorserIsTrusted(query.key, query.other)
                        ELSE WouldCloseCycle(query.other, query.key)

\* The walk ends on every table, the cyclic ones included: a request never
\* hangs the relay's only thread.
WalkEnds == <>(verdict # "walking")
=============================================================================
