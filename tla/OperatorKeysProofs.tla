------------------------- MODULE OperatorKeysProofs -------------------------
(***************************************************************************)
(* The key tables and the recovery grants, for any number of operator      *)
(* keys, agent keys and grants. The meaning of the authority walk is a     *)
(* least set, so every claim about it is settled with one set of keys:     *)
(* who is outside some closed set is not reached, and no induction along   *)
(* a chain is needed.                                                      *)
(***************************************************************************)
EXTENDS ConsoleTrust, OperatorKeyWalk, FiniteSetTheorems, TLAPS

-----------------------------------------------------------------------------
(* The inductive invariant *)

\* T is closed under "endorsed by".
Upward(T) == \A x \in T : parent[x] # None => parent[x] \in T

\* Whoever is named by a row was registered; agent keys are endorsed only when live.
RowsLinked ==
  /\ \A k \in Keys : parent[k] # None => life[k] # "absent" /\ life[parent[k]] # "absent"
  /\ \A i \in AgentKeys : agentLife[i] = "absent" => agentParent[i] = None

\* A grant names two keys; the armed one is the newest; a consumed one left its
\* target registered and endorsed.
GrantRows ==
  \A g \in Grants :
    /\ grant[g].state = "none" => grant[g] = NoGrant
    /\ grant[g].state # "none" => grant[g].endorser \in Keys /\ grant[g].target \in Keys
    /\ grant[g].state = "armed" => \A h \in Grants : h > g => grant[h].state = "none"
    /\ grant[g].state = "consumed" =>
         life[grant[g].target] # "absent" /\ parent[grant[g].target] # None

\* What the relay checked before its transaction still holds when it commits,
\* except that the grant may have expired or been cancelled.
RelayHolds ==
  relayAt.busy =>
    /\ relayAt.target \in Keys /\ relayAt.endorser \in Keys /\ relayAt.id \in Grants
    /\ EndorsementAllowed(relayAt.target, relayAt.endorser)
    /\ parent[relayAt.target] = None
    /\ grant[relayAt.id].state # "none"
    /\ grant[relayAt.id].endorser = relayAt.endorser
    /\ grant[relayAt.id].target = relayAt.target

HostHolds == hostAt.busy => hostAt.target \in Keys /\ hostAt.endorser \in Keys

KeyInv ==
  /\ TypeOK /\ RowsLinked /\ GrantRows /\ RelayHolds /\ HostHolds
  /\ ChainsEnd /\ AuthoritySurvives /\ GrantsExclusive

-----------------------------------------------------------------------------
(* Types and the rows *)

LEMMA KeysType == TypeOK /\ [Next]_vars => TypeOK'
<1> SUFFICES ASSUME TypeOK, [Next]_vars PROVE TypeOK'
  OBVIOUS
<1> USE OperatorKeysAssumption DEF TypeOK, ProcessState, GrantStates, Grants, keyVars, agentVars
<1>1. ASSUME NEW k \in Keys, NEW e \in Keys \cup {None}, registerOperatorKey(k, e)
      PROVE  TypeOK'
  BY <1>1 DEF registerOperatorKey
<1>2. ASSUME NEW t \in Keys, NEW e \in Keys, endorseOperatorKey(t, e) PROVE TypeOK'
  BY <1>2 DEF endorseOperatorKey
<1>3. ASSUME NEW t \in Keys, NEW e \in Keys, NEW g \in Grants, endorseByGrantCheck(t, e, g)
      PROVE  TypeOK'
  BY <1>3 DEF endorseByGrantCheck, Pending
<1>4. CASE endorseByGrantCommit
  <2>1. relayAt' \in ProcessState
    BY <1>4 DEF endorseByGrantCommit, Idle
  <2>2. /\ parent' \in [Keys -> Keys \cup {None}]
        /\ grant' \in [Grants -> [state : GrantStates, endorser : Keys \cup {None},
                                  target : Keys \cup {None}]]
    <3>1. CASE UNCHANGED <<grant, parent>>
      BY <3>1
    <3>2. CASE /\ grant' = [grant EXCEPT ![relayAt.id].state = "consumed"]
               /\ parent' = [parent EXCEPT ![relayAt.target] = relayAt.endorser]
      <4>1. parent' \in [Keys -> Keys \cup {None}]
        BY <3>2
      <4>2. ASSUME NEW g \in Grants
            PROVE  grant'[g] \in [state : GrantStates, endorser : Keys \cup {None},
                                  target : Keys \cup {None}]
        <5>1. CASE g = relayAt.id
          BY <3>2, <5>1
        <5>2. CASE g # relayAt.id
          BY <3>2, <5>2
        <5> QED
          BY <5>1, <5>2
      <4>3. grant' = [g \in Grants |-> grant'[g]]
        BY <3>2
      <4> QED
        BY <4>1, <4>2, <4>3
    <3> QED
      BY <1>4, <3>1, <3>2 DEF endorseByGrantCommit
  <2> QED
    BY <1>4, <2>1, <2>2 DEF endorseByGrantCommit
<1>5. ASSUME NEW t \in Keys, NEW s \in Keys, revokeOperatorKey(t, s) PROVE TypeOK'
  BY <1>5 DEF revokeOperatorKey
<1>6. ASSUME NEW i \in AgentKeys, setAgentIdentityKey(i) PROVE TypeOK'
  BY <1>6 DEF setAgentIdentityKey
<1>7. ASSUME NEW i \in AgentKeys, NEW e \in Keys, endorseAgentKey(i, e) PROVE TypeOK'
  BY <1>7 DEF endorseAgentKey
<1>8. ASSUME NEW e \in Keys, NEW t \in Keys, armCheck(e, t) PROVE TypeOK'
  <2>1. ArmedGrant \in 0..MaxGrants
    <3>1. CASE \E g \in Grants : grant[g].state = "armed"
      <4>1. (CHOOSE g \in Grants : grant[g].state = "armed") \in Grants
        BY <3>1
      <4> QED
        BY <3>1, <4>1 DEF ArmedGrant
    <3>2. CASE ~\E g \in Grants : grant[g].state = "armed"
      BY <3>2 DEF ArmedGrant
    <3> QED
      BY <3>1, <3>2
  <2> QED
    BY <1>8, <2>1 DEF armCheck, Pending
<1>9. ASSUME NEW g \in Grants, armCommit(g) PROVE TypeOK'
  <2>1. grant' \in [Grants -> [state : GrantStates, endorser : Keys \cup {None},
                               target : Keys \cup {None}]]
    <3>1. [state |-> "armed", endorser |-> hostAt.endorser, target |-> hostAt.target]
            \in [state : GrantStates, endorser : Keys \cup {None}, target : Keys \cup {None}]
      OBVIOUS
    <3> QED
      BY <1>9, <3>1 DEF armCommit
  <2> QED
    BY <1>9, <2>1 DEF armCommit, Idle
<1>10. ASSUME NEW g \in Grants, cancelGrant(g) PROVE TypeOK'
  BY <1>10 DEF cancelGrant
<1>11. ASSUME NEW g \in Grants, grantExpires(g) PROVE TypeOK'
  BY <1>11 DEF grantExpires
<1>12. CASE UNCHANGED vars
  BY <1>12 DEF vars
<1> QED
  BY <1>1, <1>2, <1>3, <1>4, <1>5, <1>6, <1>7, <1>8, <1>9, <1>10, <1>11, <1>12 DEF Next

-----------------------------------------------------------------------------
(* Chains *)

LEMMA ChainAvoids ==
  ASSUME NEW k \in Keys, NEW e \in Keys
  PROVE  k \notin ChainFrom(e) <=> \E T \in SUBSET Keys : e \in T /\ Upward(T) /\ k \notin T
  BY DEF ChainFrom, Upward

LEMMA ChainAvoidsAfter ==
  ASSUME NEW k \in Keys, NEW e \in Keys,
         NEW T \in SUBSET Keys, e \in T, Upward(T)', k \notin T
  PROVE  k \notin ChainFrom(e)'
  BY DEF ChainFrom, Upward

\* The endorsements of endorseOperatorKey, by either rule, close no chain: of the
\* set that showed j's chain to end and the one that showed e's chain to miss t,
\* the union or the intersection shows that j's chain still ends.
LEMMA EndorseKeepsChains ==
  ASSUME TypeOK, ChainsEnd, NEW t \in Keys, NEW e \in Keys, t \notin ChainFrom(e),
         parent' = [parent EXCEPT ![t] = e]
  PROVE  ChainsEnd'
<1> USE OperatorKeysAssumption DEF TypeOK
<1>1. PICK U \in SUBSET Keys : e \in U /\ Upward(U) /\ t \notin U
  BY ChainAvoids
<1>2. Upward(U)'
  BY <1>1 DEF Upward
<1> SUFFICES ASSUME NEW j \in Keys, parent'[j] # None PROVE j \notin ChainFrom(parent[j])'
  BY DEF ChainsEnd
<1>3. CASE j = t
  <2>1. parent'[j] = e
    BY <1>3
  <2>2. t \notin ChainFrom(e)'
    BY <1>1, <1>2, ChainAvoidsAfter
  <2> QED
    BY <1>3, <2>1, <2>2 DEF ChainFrom
<1>4. CASE j # t
  <2>1. parent'[j] = parent[j] /\ parent[j] \in Keys
    BY <1>4
  <2>2. PICK T \in SUBSET Keys : parent[j] \in T /\ Upward(T) /\ j \notin T
    BY <2>1, ChainAvoids DEF ChainsEnd
  <2>3. \E V \in SUBSET Keys : parent[j] \in V /\ Upward(V)' /\ j \notin V
    <3>1. CASE t \notin T
      BY <2>2, <3>1 DEF Upward
    <3>2. CASE t \in T /\ j \in U
      <4>1. parent[j] \in T \cap U /\ j \notin T \cap U
        BY <1>1, <2>1, <2>2, <3>2 DEF Upward
      <4>2. Upward(T \cap U)'
        BY <1>1, <2>2 DEF Upward
      <4> QED
        BY <4>1, <4>2
    <3>3. CASE t \in T /\ j \notin U
      <4>1. Upward(T \cup U)'
        BY <1>1, <2>2, <3>3 DEF Upward
      <4> QED
        BY <2>2, <3>3, <4>1
    <3> QED
      BY <3>1, <3>2, <3>3
  <2>4. j \notin ChainFrom(parent[j])' <=> j \notin {a \in Keys : \A W \in SUBSET Keys :
           parent'[j] \in W /\ (\A x \in W : parent'[x] # None => parent'[x] \in W) => a \in W}
    BY DEF ChainFrom
  <2> QED
    BY <2>1, <2>3, <2>4 DEF Upward
<1> QED
  BY <1>3, <1>4

\* registerOperatorKey hangs a key nobody knew on a registered one.
LEMMA RegisterKeepsChains ==
  ASSUME TypeOK, RowsLinked, ChainsEnd, NEW k \in Keys, NEW e \in Keys \cup {None},
         registerOperatorKey(k, e)
  PROVE  ChainsEnd'
<1> USE OperatorKeysAssumption DEF TypeOK
<1>0. PICK P \in SUBSET Keys : P = {x \in Keys : life[x] # "absent"}
  OBVIOUS
<1>1. /\ k \notin P /\ Upward(P) /\ (e # None => e \in P)
      /\ parent' = [parent EXCEPT ![k] = e]
  BY <1>0 DEF registerOperatorKey, RowsLinked, Upward, Live
<1>2. ASSUME NEW T \in SUBSET P, Upward(T) PROVE Upward(T)'
  BY <1>1, <1>2 DEF Upward
<1> SUFFICES ASSUME NEW j \in Keys, parent'[j] # None PROVE j \notin ChainFrom(parent[j])'
  BY DEF ChainsEnd
<1>3. \E V \in SUBSET Keys : parent'[j] \in V /\ Upward(V)' /\ j \notin V
  <2>1. CASE j = k
    <3>1. Upward(P)'
      BY <1>1, <1>2
    <3> QED
      BY <1>1, <2>1, <3>1
  <2>2. CASE j # k
    <3>1. parent'[j] = parent[j] /\ parent[j] \in P
      BY <1>0, <1>1, <2>2 DEF RowsLinked
    <3>2. PICK T \in SUBSET Keys : parent[j] \in T /\ Upward(T) /\ j \notin T
      BY <3>1, ChainAvoids DEF ChainsEnd
    <3>3. PICK V \in SUBSET P : V = T \cap P
      OBVIOUS
    <3>4. Upward(V)
      BY <1>1, <3>2, <3>3 DEF Upward
    <3>5. Upward(V)'
      BY <1>2, <3>4
    <3> QED
      BY <3>1, <3>2, <3>3, <3>5
  <2> QED
    BY <2>1, <2>2
<1> QED
  BY <1>3 DEF ChainFrom, Upward

-----------------------------------------------------------------------------
(* Authority *)

\* What the walk with a excluded reaches lies in every set that holds its anchors
\* and is closed under it.
Holds(T, a) == (\A j \in Keys : Anchored(j, a) => j \in T) /\ WalkClosed(T, a)

LEMMA ReachedIn ==
  ASSUME NEW k \in Keys, NEW a, Reaches(k, a), NEW T \in SUBSET Keys, Holds(T, a)
  PROVE  k \in T
  BY DEF Reaches, Holds

LEMMA ReachGrows ==
  ASSUME NEW k \in Keys, NEW a, NEW b, Reaches(k, a),
         \A T \in SUBSET Keys : Holds(T, b)' => Holds(T, a)
  PROVE  Reaches(k, b)'
<1> SUFFICES ASSUME NEW T \in SUBSET (Keys \ {k}),
                    \A j \in Keys : Anchored(j, b)' => j \in T, WalkClosed(T, b)'
             PROVE  FALSE
  BY DEF Reaches
<1>1. Holds(T, b)' /\ T \in SUBSET Keys
  BY DEF Holds
<1>2. k \in T
  BY <1>1, ReachedIn
<1> QED
  BY <1>2

\* A step that leaves the live keys, their endorsers, the roots and the consumed
\* grants as they are keeps every key within reach.
LEMMA RestKeepsReach ==
  ASSUME TypeOK, NEW k \in Keys, Reaches(k, None),
         \A j \in Keys : Live(j) => Live(j)' /\ parent'[j] = parent[j],
         PinnedRoots' = PinnedRoots,
         \A g \in Grants : grant[g].state = "consumed" => grant'[g] = grant[g]
  PROVE  Reaches(k, None)'
<1>1. ASSUME NEW j \in Keys, Anchored(j, None) PROVE Anchored(j, None)'
  BY <1>1 DEF Anchored, RecoveredVia, TypeOK
<1>2. ASSUME NEW T \in SUBSET Keys, Holds(T, None)' PROVE Holds(T, None)
  BY <1>1, <1>2 DEF Holds, WalkClosed
<1> QED
  BY <1>2, ReachGrows

\* endorseOperatorKey by a trusted endorser. t may lose the endorser, or the grant,
\* that it was trusted for: it hangs on e instead, and e's own chain misses t.
LEMMA EndorseKeepsReach ==
  ASSUME TypeOK, NEW t \in Keys, NEW e \in Keys, t \notin ChainFrom(e), Live(t),
         Reaches(e, None), parent' = [parent EXCEPT ![t] = e],
         UNCHANGED <<life, agentVars, grant>>, NEW k \in Keys, Reaches(k, None)
  PROVE  Reaches(k, None)'
<1> USE OperatorKeysAssumption DEF TypeOK
<1>1. PICK U \in SUBSET Keys : e \in U /\ Upward(U) /\ t \notin U
  BY ChainAvoids
<1>2. ASSUME NEW j \in Keys, Anchored(j, None), j # t PROVE Anchored(j, None)'
  BY <1>2 DEF Anchored, RecoveredVia, PinnedRoots, Live, agentVars
<1>3. ASSUME NEW T \in SUBSET Keys, Holds(T, None)' PROVE Holds(T, None)
  <2>1. e \in T
    <3>1. SUFFICES ASSUME e \notin T PROVE FALSE
      OBVIOUS
    <3>2. PICK S \in SUBSET Keys : S = T \cup (Keys \ U)
      OBVIOUS
    <3>3. \A j \in Keys : Anchored(j, None) => j \in S
      BY <1>1, <1>2, <1>3, <3>2 DEF Holds
    <3>4. WalkClosed(S, None)
      <4> SUFFICES ASSUME NEW j \in Keys, Live(j), j # None, parent[j] \in S PROVE j \in S
        BY DEF WalkClosed
      <4>1. CASE j \notin U
        BY <3>2, <4>1
      <4>2. CASE j \in U
        <5>1. parent[j] \in U /\ parent[j] \in T
          BY <1>1, <3>2, <4>2 DEF Upward
        <5>2. parent'[j] = parent[j] /\ Live(j)'
          BY <1>1, <4>2 DEF Live
        <5> QED
          BY <1>3, <3>2, <5>1, <5>2 DEF Holds, WalkClosed
      <4> QED
        BY <4>1, <4>2
    <3> QED
      BY <1>1, <3>1, <3>2, <3>3, <3>4, ReachedIn DEF Holds
  <2>2. t \in T
    BY <1>3, <2>1 DEF Holds, WalkClosed, Live
  <2>3. \A j \in Keys : Anchored(j, None) => j \in T
    BY <1>2, <1>3, <2>2 DEF Holds
  <2>4. WalkClosed(T, None)
    BY <1>3, <2>2 DEF Holds, WalkClosed, Live
  <2> QED
    BY <2>3, <2>4 DEF Holds
<1> QED
  BY <1>3, ReachGrows

\* endorseOperatorKey by a grant: t, consumed grant in hand, is an anchor itself.
LEMMA GrantKeepsReach ==
  ASSUME TypeOK, NEW t \in Keys, NEW e \in Keys, NEW g \in Grants, Live(t),
         grant[g].endorser = e, grant[g].target = t,
         parent' = [parent EXCEPT ![t] = e],
         grant' = [grant EXCEPT ![g].state = "consumed"],
         UNCHANGED <<life, agentVars>>, NEW k \in Keys, Reaches(k, None)
  PROVE  Reaches(k, None)'
<1> USE OperatorKeysAssumption DEF TypeOK
<1>1. grant'[g] = [state |-> "consumed", endorser |-> e, target |-> t]
  OBVIOUS
<1>2. Anchored(t, None)'
  BY <1>1 DEF Anchored, RecoveredVia, Live
<1>3. ASSUME NEW h \in Grants, grant[h].state = "consumed" PROVE grant'[h] = grant[h]
  BY <1>3
<1>4. ASSUME NEW j \in Keys, Anchored(j, None), j # t PROVE Anchored(j, None)'
  <2>1. parent'[j] = parent[j] /\ Live(j)' /\ j # None /\ PinnedRoots' = PinnedRoots
    BY <1>4 DEF Anchored, Live, PinnedRoots, agentVars
  <2>2. RecoveredVia(j) => RecoveredVia(j)'
    BY <1>3, <2>1 DEF RecoveredVia
  <2> QED
    BY <1>4, <2>1, <2>2 DEF Anchored
<1>5. ASSUME NEW T \in SUBSET Keys, Holds(T, None)' PROVE Holds(T, None)
  <2>1. t \in T
    BY <1>2, <1>5 DEF Holds
  <2>2. \A j \in Keys : Anchored(j, None) => j \in T
    BY <1>4, <1>5, <2>1 DEF Holds
  <2>3. WalkClosed(T, None)
    BY <1>5, <2>1 DEF Holds, WalkClosed, Live
  <2> QED
    BY <2>2, <2>3 DEF Holds
<1> QED
  BY <1>5, ReachGrows

\* revokeOperatorKey: what was reached without t is reached once t is gone.
LEMMA RevokeKeepsReach ==
  ASSUME TypeOK, NEW t \in Keys, NEW k \in Keys, Reaches(k, t),
         life' = [life EXCEPT ![t] = "signed"],
         UNCHANGED <<parent, agentVars, grant>>
  PROVE  Reaches(k, None)'
<1> USE OperatorKeysAssumption DEF TypeOK
<1>1. ASSUME NEW j \in Keys, Live(j), j # t PROVE Live(j)' /\ j # None
  BY <1>1 DEF Live
<1>2. ASSUME NEW j \in Keys, Anchored(j, t) PROVE Anchored(j, None)'
  BY <1>1, <1>2 DEF Anchored, RecoveredVia, PinnedRoots, agentVars
<1>3. ASSUME NEW T \in SUBSET Keys, Holds(T, None)' PROVE Holds(T, t)
  BY <1>1, <1>2, <1>3 DEF Holds, WalkClosed
<1> QED
  BY <1>3, ReachGrows

\* A live root is an anchor.
LEMMA RootMayEndorse ==
  ASSUME NEW k \in Keys, Live(k), k \in PinnedRoots
  PROVE  MayEndorse(k)
  BY OperatorKeysAssumption DEF MayEndorse, EndorserIsTrusted, Reaches, Anchored

\* Only a revocation and the moving of an agent key can cost a key its authority.
LEMMA AuthorityKept ==
  ASSUME KeyInv, [Next]_vars, NEW k \in Keys, MayEndorse(k),
         agentParent' = agentParent, \A j \in Keys : Live(j) => Live(j)'
  PROVE  MayEndorse(k)'
<1> USE OperatorKeysAssumption DEF KeyInv
<1>0. Live(k) /\ Live(k)' /\ (PinnedRoots = {} \/ Reaches(k, None))
  BY DEF MayEndorse, EndorserIsTrusted
<1>1. PinnedRoots' = PinnedRoots
  <2>1. CASE agentLife' = agentLife
    BY <2>1 DEF PinnedRoots
  <2>2. CASE agentLife' # agentLife
    <3>1. PICK i \in AgentKeys : setAgentIdentityKey(i)
      BY <2>2 DEF Next, vars, agentVars, registerOperatorKey, endorseOperatorKey,
         endorseByGrantCheck, endorseByGrantCommit, revokeOperatorKey, endorseAgentKey,
         armCheck, armCommit, cancelGrant, grantExpires
    <3>2. agentParent[i] = None
      BY <3>1 DEF setAgentIdentityKey, RowsLinked
    <3>3. agentLife' = [agentLife EXCEPT ![i] = "live"]
      BY <3>1 DEF setAgentIdentityKey
    <3> QED
      BY <3>2, <3>3 DEF PinnedRoots, TypeOK
  <2> QED
    BY <2>1, <2>2
<1> SUFFICES ASSUME PinnedRoots # {}, Reaches(k, None) PROVE Reaches(k, None)'
  BY <1>0, <1>1 DEF MayEndorse, EndorserIsTrusted
<1> DEFINE Rest ==
      /\ \A j \in Keys : Live(j) => parent'[j] = parent[j]
      /\ \A g \in Grants : grant[g].state = "consumed" => grant'[g] = grant[g]
<1>2. ASSUME Rest PROVE Reaches(k, None)'
  BY <1>1, <1>2, RestKeepsReach
<1>3. ASSUME NEW n \in Keys, NEW e \in Keys \cup {None}, registerOperatorKey(n, e)
      PROVE  Rest
  BY <1>3 DEF registerOperatorKey, TypeOK, Live
<1>4. ASSUME NEW t \in Keys, NEW e \in Keys, endorseOperatorKey(t, e)
      PROVE  Reaches(k, None)'
  BY <1>4, EndorseKeepsReach
  DEF endorseOperatorKey, EndorsementAllowed, EndorserIsTrusted, WouldCloseCycle
<1>5. CASE endorseByGrantCommit
  <2>1. CASE UNCHANGED <<grant, parent>>
    BY <1>2, <2>1
  <2>2. CASE /\ grant' = [grant EXCEPT ![relayAt.id].state = "consumed"]
             /\ parent' = [parent EXCEPT ![relayAt.target] = relayAt.endorser]
    <3>1. /\ relayAt.target \in Keys /\ relayAt.endorser \in Keys /\ relayAt.id \in Grants
          /\ Live(relayAt.target)
          /\ grant[relayAt.id].endorser = relayAt.endorser
          /\ grant[relayAt.id].target = relayAt.target
          /\ UNCHANGED <<life, agentVars>>
      BY <1>5 DEF endorseByGrantCommit, RelayHolds, EndorsementAllowed
    <3>2. PICK t \in Keys, e \in Keys, g \in Grants :
            t = relayAt.target /\ e = relayAt.endorser /\ g = relayAt.id
      BY <3>1
    <3> QED
      BY <2>2, <3>1, <3>2, GrantKeepsReach
  <2> QED
    BY <1>5, <2>1, <2>2 DEF endorseByGrantCommit
<1>6. ASSUME NEW g \in Grants, armCommit(g) PROVE Rest
  <2>1. parent' = parent
    BY <1>6 DEF armCommit, keyVars
  <2>2. ASSUME NEW h \in Grants, grant[h].state = "consumed" PROVE grant'[h] = grant[h]
    <3>1. UNCHANGED grant \/ grant[g].state = "none"
      BY <1>6 DEF armCommit, Grants
    <3> QED
      BY <1>6, <2>2, <3>1 DEF armCommit, TypeOK
  <2> QED
    BY <2>1, <2>2
<1>7. ASSUME NEW g \in Grants, cancelGrant(g) \/ grantExpires(g) PROVE Rest
  BY <1>7 DEF cancelGrant, grantExpires, keyVars, TypeOK
<1>8. CASE UNCHANGED <<parent, grant>>
  BY <1>2, <1>8
<1> QED
  BY <1>2, <1>3, <1>4, <1>5, <1>6, <1>7, <1>8
  DEF Next, vars, keyVars, endorseByGrantCheck, revokeOperatorKey, setAgentIdentityKey,
      endorseAgentKey, armCheck

LEMMA RowsStep == KeyInv /\ [Next]_vars => RowsLinked' /\ GrantRows'
<1> SUFFICES ASSUME KeyInv, [Next]_vars PROVE RowsLinked' /\ GrantRows'
  OBVIOUS
<1> USE OperatorKeysAssumption DEF KeyInv, TypeOK, RowsLinked, GrantRows, keyVars, agentVars
<1>1. ASSUME NEW k \in Keys, NEW e \in Keys \cup {None}, registerOperatorKey(k, e)
      PROVE  RowsLinked' /\ GrantRows'
  BY <1>1 DEF registerOperatorKey, Live
<1>2. ASSUME NEW t \in Keys, NEW e \in Keys, endorseOperatorKey(t, e)
      PROVE  RowsLinked' /\ GrantRows'
  BY <1>2 DEF endorseOperatorKey, EndorsementAllowed, Live
<1>3. CASE endorseByGrantCommit
  <2>1. CASE UNCHANGED <<grant, parent>>
    BY <1>3, <2>1 DEF endorseByGrantCommit
  <2>2. CASE /\ grant[relayAt.id].state \in {"armed", "expired"}
             /\ grant' = [grant EXCEPT ![relayAt.id].state = "consumed"]
             /\ parent' = [parent EXCEPT ![relayAt.target] = relayAt.endorser]
    <3>1. /\ relayAt.target \in Keys /\ relayAt.endorser \in Keys /\ relayAt.id \in Grants
          /\ life[relayAt.target] = "live" /\ life[relayAt.endorser] = "live"
          /\ grant[relayAt.id].target = relayAt.target
          /\ UNCHANGED <<life, agentVars>>
      BY <1>3 DEF endorseByGrantCommit, RelayHolds, EndorsementAllowed, Live
    <3>2. RowsLinked'
      BY <2>2, <3>1
    <3>3. GrantRows'
      <4> SUFFICES ASSUME NEW g \in Grants
                   PROVE  /\ grant'[g].state = "none" => grant'[g] = NoGrant
                          /\ grant'[g].state # "none" =>
                               grant'[g].endorser \in Keys /\ grant'[g].target \in Keys
                          /\ grant'[g].state = "armed" =>
                               \A h \in Grants : h > g => grant'[h].state = "none"
                          /\ grant'[g].state = "consumed" =>
                               /\ life'[grant'[g].target] # "absent"
                               /\ parent'[grant'[g].target] # None
        OBVIOUS
      <4>1. \A h \in Grants : h # relayAt.id => grant'[h] = grant[h]
        BY <2>2
      <4>2. CASE g = relayAt.id
        BY <2>2, <3>1, <4>2
      <4>3. CASE g # relayAt.id
        BY <2>2, <3>1, <4>1, <4>3
      <4> QED
        BY <4>2, <4>3
    <3> QED
      BY <3>2, <3>3
  <2> QED
    BY <1>3, <2>1, <2>2 DEF endorseByGrantCommit
<1>4. ASSUME NEW t \in Keys, NEW s \in Keys, revokeOperatorKey(t, s)
      PROVE  RowsLinked' /\ GrantRows'
  BY <1>4 DEF revokeOperatorKey
<1>5. ASSUME NEW i \in AgentKeys, setAgentIdentityKey(i) PROVE RowsLinked' /\ GrantRows'
  BY <1>5 DEF setAgentIdentityKey
<1>6. ASSUME NEW i \in AgentKeys, NEW e \in Keys, endorseAgentKey(i, e)
      PROVE  RowsLinked' /\ GrantRows'
  BY <1>6 DEF endorseAgentKey
<1>7. ASSUME NEW g \in Grants, armCommit(g) PROVE RowsLinked' /\ GrantRows'
  <2>1. CASE UNCHANGED grant
    BY <1>7, <2>1 DEF armCommit
  <2>2. CASE /\ \A h \in Grants : ~ArmedForHost(h)
             /\ \A h \in Grants : grant[h].state = "none" <=> h >= g
             /\ grant' = [grant EXCEPT ![g] = [state |-> "armed", endorser |-> hostAt.endorser,
                                               target |-> hostAt.target]]
    BY <1>7, <2>2 DEF armCommit, ArmedForHost, HostHolds, Grants
  <2> QED
    BY <1>7, <2>1, <2>2 DEF armCommit
<1>8. ASSUME NEW g \in Grants, cancelGrant(g) \/ grantExpires(g)
      PROVE  RowsLinked' /\ GrantRows'
  BY <1>8 DEF cancelGrant, grantExpires
<1>9. CASE UNCHANGED <<life, parent, agentLife, agentParent, grant>>
  BY <1>9
<1> QED
  BY <1>1, <1>2, <1>3, <1>4, <1>5, <1>6, <1>7, <1>8, <1>9
  DEF Next, vars, endorseByGrantCheck, armCheck

\* The host moves grants only, and never one the relay has in hand back to
\* "none"; the relay's own handlers wait until it is idle again.
LEMMA HandlersStep == KeyInv /\ [Next]_vars => RelayHolds' /\ HostHolds'
<1> SUFFICES ASSUME KeyInv, [Next]_vars PROVE RelayHolds' /\ HostHolds'
  OBVIOUS
<1> USE OperatorKeysAssumption DEF KeyInv, keyVars, agentVars
<1>1. CASE ~relayAt'.busy /\ UNCHANGED hostAt
  BY <1>1 DEF RelayHolds, HostHolds
<1>2. ASSUME NEW t \in Keys, NEW e \in Keys, NEW g \in Grants, endorseByGrantCheck(t, e, g)
      PROVE  RelayHolds' /\ HostHolds'
  <2>1. /\ relayAt'.target = t /\ relayAt'.endorser = e /\ relayAt'.id = g
        /\ UNCHANGED <<life, parent, grant, hostAt>>
        /\ EndorsementAllowed(t, e)
        /\ grant[g].state # "none" /\ grant[g].endorser = e /\ grant[g].target = t
        /\ parent[t] = None
    BY <1>2 DEF endorseByGrantCheck, Pending, UsableGrant
  <2>2. EndorsementAllowed(t, e)'
    BY <2>1 DEF EndorsementAllowed, WouldCloseCycle, ChainFrom, Live
  <2>3. RelayHolds'
    BY <2>1, <2>2 DEF RelayHolds, EndorsementAllowed, WouldCloseCycle, ChainFrom, Live
  <2> QED
    BY <2>1, <2>3 DEF HostHolds
<1>3. ASSUME UNCHANGED <<life, parent, relayAt>>,
             \A g \in Grants : grant[g].state # "none" =>
               /\ grant'[g].state # "none"
               /\ grant'[g].endorser = grant[g].endorser
               /\ grant'[g].target = grant[g].target
      PROVE  RelayHolds'
  BY <1>3 DEF RelayHolds, EndorsementAllowed, WouldCloseCycle, ChainFrom, Live
<1>4. ASSUME NEW e \in Keys, NEW t \in Keys, armCheck(e, t) PROVE RelayHolds' /\ HostHolds'
  BY <1>3, <1>4 DEF armCheck, HostHolds, Pending
<1>5. ASSUME NEW g \in Grants, armCommit(g) PROVE RelayHolds' /\ HostHolds'
  <2>1. \A h \in Grants : grant[h].state # "none" => grant'[h] = grant[h]
    <3>1. UNCHANGED grant \/ grant[g].state = "none"
      BY <1>5 DEF armCommit, Grants
    <3> QED
      BY <1>5, <3>1 DEF armCommit, TypeOK
  <2> QED
    BY <1>3, <1>5, <2>1 DEF armCommit, HostHolds, Idle
<1>6. ASSUME NEW g \in Grants, cancelGrant(g) \/ grantExpires(g)
      PROVE  RelayHolds' /\ HostHolds'
  <2>1. \A h \in Grants : grant[h].state # "none" =>
               /\ grant'[h].state # "none"
               /\ grant'[h].endorser = grant[h].endorser
               /\ grant'[h].target = grant[h].target
    BY <1>6 DEF cancelGrant, grantExpires, TypeOK
  <2> QED
    BY <1>3, <1>6, <2>1 DEF cancelGrant, grantExpires, HostHolds
<1>7. CASE UNCHANGED vars
  BY <1>3, <1>7 DEF vars, HostHolds
<1> QED
  BY <1>1, <1>2, <1>4, <1>5, <1>6, <1>7
  DEF Next, RelayIdle, Idle, registerOperatorKey, endorseOperatorKey, endorseByGrantCommit,
      revokeOperatorKey, setAgentIdentityKey, endorseAgentKey

LEMMA GrantsStep == KeyInv /\ [Next]_vars => GrantsExclusive'
<1> SUFFICES ASSUME KeyInv, [Next]_vars PROVE GrantsExclusive'
  OBVIOUS
<1> USE OperatorKeysAssumption DEF KeyInv, TypeOK, GrantsExclusive
<1>1. CASE endorseByGrantCommit
  <2>1. CASE UNCHANGED grant
    BY <2>1
  <2>2. CASE grant' = [grant EXCEPT ![relayAt.id].state = "consumed"]
    <3>1. /\ relayAt.id \in Grants /\ parent[relayAt.target] = None
          /\ grant[relayAt.id].target = relayAt.target
      BY <1>1 DEF endorseByGrantCommit, RelayHolds
    <3>2. \A g \in Grants : grant[g].state = "consumed" => grant[g].target # relayAt.target
      BY <3>1 DEF GrantRows
    <3>3. \A g \in Grants : /\ g # relayAt.id => grant'[g] = grant[g]
                            /\ grant'[relayAt.id].state = "consumed"
                            /\ grant'[relayAt.id].target = relayAt.target
      BY <2>2, <3>1
    <3> QED
      BY <3>1, <3>2, <3>3
  <2> QED
    BY <1>1, <2>1, <2>2 DEF endorseByGrantCommit
<1>2. ASSUME NEW g \in Grants, armCommit(g) PROVE GrantsExclusive'
  <2>1. CASE UNCHANGED grant
    BY <2>1
  <2>2. CASE /\ \A h \in Grants : ~ArmedForHost(h)
             /\ grant' = [grant EXCEPT ![g] = [state |-> "armed", endorser |-> hostAt.endorser,
                                               target |-> hostAt.target]]
    BY <2>2 DEF ArmedForHost
  <2> QED
    BY <1>2, <2>1, <2>2 DEF armCommit
<1>3. ASSUME NEW g \in Grants, cancelGrant(g) \/ grantExpires(g) PROVE GrantsExclusive'
  BY <1>3 DEF cancelGrant, grantExpires
<1>4. CASE UNCHANGED grant
  BY <1>4
<1> QED
  BY <1>1, <1>2, <1>3, <1>4
  DEF Next, vars, registerOperatorKey, endorseOperatorKey, endorseByGrantCheck,
      revokeOperatorKey, setAgentIdentityKey, endorseAgentKey, armCheck

LEMMA ChainsStep == KeyInv /\ [Next]_vars => ChainsEnd'
<1> SUFFICES ASSUME KeyInv, [Next]_vars PROVE ChainsEnd'
  OBVIOUS
<1> USE DEF KeyInv
<1>1. ASSUME NEW k \in Keys, NEW e \in Keys \cup {None}, registerOperatorKey(k, e)
      PROVE  ChainsEnd'
  BY <1>1, RegisterKeepsChains
<1>2. ASSUME NEW t \in Keys, NEW e \in Keys, endorseOperatorKey(t, e) PROVE ChainsEnd'
  BY <1>2, EndorseKeepsChains DEF endorseOperatorKey, EndorsementAllowed, WouldCloseCycle
<1>3. CASE UNCHANGED parent
  BY <1>3 DEF ChainsEnd, ChainFrom
<1>4. CASE endorseByGrantCommit
  <2>1. PICK t \in Keys, e \in Keys : t = relayAt.target /\ e = relayAt.endorser
    BY <1>4 DEF endorseByGrantCommit, RelayHolds
  <2>2. t \notin ChainFrom(e)
    BY <1>4, <2>1 DEF endorseByGrantCommit, RelayHolds, EndorsementAllowed, WouldCloseCycle
  <2> QED
    BY <1>3, <1>4, <2>1, <2>2, EndorseKeepsChains DEF endorseByGrantCommit
<1> QED
  BY <1>1, <1>2, <1>3, <1>4
  DEF Next, vars, keyVars, endorseByGrantCheck, revokeOperatorKey, setAgentIdentityKey,
      endorseAgentKey, armCheck, armCommit, cancelGrant, grantExpires

\* A revocation leaves its signer able to endorse, and its target dead.
LEMMA RevokeLeavesSigner ==
  ASSUME TypeOK, NEW t \in Keys, NEW s \in Keys, revokeOperatorKey(t, s)
  PROVE  s # t /\ MayEndorse(s) /\ MayEndorse(s)' /\ ~MayEndorse(t)'
<1>1. /\ s # t /\ MayEndorse(s) /\ AuthorityWouldSurvive(t, s)
      /\ life' = [life EXCEPT ![t] = "signed"] /\ UNCHANGED <<parent, agentVars, grant>>
  BY DEF revokeOperatorKey, RevocationAllowed, MayEndorse
<1>2. Live(s)' /\ ~Live(t)' /\ PinnedRoots' = PinnedRoots
  BY <1>1 DEF MayEndorse, Live, TypeOK, PinnedRoots, agentVars
<1>3. PinnedRoots # {} => Reaches(s, None)'
  BY <1>1, RevokeKeepsReach DEF AuthorityWouldSurvive, EndorserIsTrusted
<1> QED
  BY <1>1, <1>2, <1>3 DEF MayEndorse, EndorserIsTrusted

\* A step other than a revocation and the moving of an agent key leaves every live
\* key live and every agent key where it hangs.
LEMMA QuietStep ==
  ASSUME TypeOK, [Next]_vars,
         ~\E t, s \in Keys : revokeOperatorKey(t, s),
         ~\E i \in AgentKeys, e \in Keys : endorseAgentKey(i, e)
  PROVE  agentParent' = agentParent /\ \A j \in Keys : Live(j) => Live(j)'
<1>1. ASSUME NEW k \in Keys, NEW e \in Keys \cup {None}, registerOperatorKey(k, e)
      PROVE  agentParent' = agentParent /\ \A j \in Keys : Live(j) => Live(j)'
  BY <1>1 DEF registerOperatorKey, agentVars, Live, TypeOK
<1>2. CASE UNCHANGED <<life, agentParent>>
  BY <1>2 DEF Live
<1> QED
  BY <1>1, <1>2
  DEF Next, vars, keyVars, agentVars, endorseOperatorKey, endorseByGrantCheck,
      endorseByGrantCommit, setAgentIdentityKey, armCheck, armCommit, cancelGrant, grantExpires

LEMMA AuthorityStep == KeyInv /\ [Next]_vars => AuthoritySurvives'
<1> SUFFICES ASSUME KeyInv, [Next]_vars, PinnedRoots' # {}
             PROVE  \E k \in Keys : MayEndorse(k)'
  BY DEF AuthoritySurvives
<1> USE DEF KeyInv
<1>1. ASSUME NEW t \in Keys, NEW s \in Keys, revokeOperatorKey(t, s)
      PROVE  \E k \in Keys : MayEndorse(k)'
  BY <1>1, RevokeLeavesSigner
<1>2. ASSUME NEW i \in AgentKeys, NEW e \in Keys, endorseAgentKey(i, e)
      PROVE  \E k \in Keys : MayEndorse(k)'
  <2>1. /\ Live(e)' /\ agentLife'[i] = "live" /\ agentParent'[i] = e
    BY <1>2 DEF endorseAgentKey, keyVars, Live, TypeOK
  <2>2. e \in PinnedRoots'
    BY <2>1, OperatorKeysAssumption DEF PinnedRoots
  <2> QED
    BY <2>1, <2>2, OperatorKeysAssumption DEF MayEndorse, EndorserIsTrusted, Reaches, Anchored
<1>3. CASE /\ ~\E t, s \in Keys : revokeOperatorKey(t, s)
           /\ ~\E i \in AgentKeys, e \in Keys : endorseAgentKey(i, e)
  <2>1. agentParent' = agentParent /\ \A j \in Keys : Live(j) => Live(j)'
    BY <1>3, QuietStep
  <2>2. PinnedRoots # {}
    <3>1. PICK i \in AgentKeys : agentLife'[i] = "live" /\ agentParent'[i] # None
      BY DEF PinnedRoots
    <3>2. agentLife[i] = "live" /\ agentParent[i] # None
      BY <2>1, <3>1 DEF RowsLinked, TypeOK
    <3> QED
      BY <3>2 DEF PinnedRoots
  <2>3. PICK k \in Keys : MayEndorse(k)
    BY <2>2 DEF AuthoritySurvives
  <2> QED
    BY <2>1, <2>3, AuthorityKept
<1> QED
  BY <1>1, <1>2, <1>3

LEMMA KeyInvInit == Init => KeyInv
<1> SUFFICES ASSUME Init PROVE KeyInv
  OBVIOUS
<1> USE OperatorKeysAssumption DEF Init
<1>1. TypeOK
  BY DEF TypeOK, ProcessState, GrantStates, NoGrant, Idle
<1>2. RowsLinked /\ GrantRows /\ RelayHolds /\ HostHolds /\ ChainsEnd /\ GrantsExclusive
  BY DEF RowsLinked, GrantRows, RelayHolds, HostHolds, ChainsEnd, GrantsExclusive, NoGrant, Idle
<1>3. AuthoritySurvives
  BY DEF AuthoritySurvives, PinnedRoots
<1> QED
  BY <1>1, <1>2, <1>3 DEF KeyInv

LEMMA KeyInvStep == KeyInv /\ [Next]_vars => KeyInv'
  BY KeysType, RowsStep, HandlersStep, GrantsStep, ChainsStep, AuthorityStep DEF KeyInv

LEMMA KeysInductive == Spec => []KeyInv
  BY KeyInvInit, KeyInvStep, PTL DEF Spec

-----------------------------------------------------------------------------
(* Results *)

\* Whatever is registered, endorsed, recovered and revoked, and in whatever order
\* the two processes check and commit, somebody may still endorse and no chain
\* closes on itself.
THEOREM KeysStaySound == Spec => []KeysSound
<1>1. KeyInv => KeysSound
  BY DEF KeyInv, KeysSound
<1> QED
  BY <1>1, KeysInductive, PTL

\* The host arms at most one grant at a time, and no target is recovered twice.
THEOREM GrantsStayExclusive == Spec => []GrantsExclusive
<1>1. KeyInv => GrantsExclusive
  BY DEF KeyInv
<1> QED
  BY <1>1, KeysInductive, PTL

\* What a step of the relay or the host may do to a key's authority.
THEOREM AuthorityMovesOnly == Spec => AuthorityMoves
<1> DEFINE Moves ==
      /\ \A k \in Keys :
           /\ life' = life \/ \E j \in Keys : life[j] = "absent" /\ life'[j] = "live"
           /\ agentParent' = agentParent
           /\ MayEndorse(k)
           => MayEndorse(k)'
      /\ \A t \in Keys :
           /\ life[t] = "signed" => life'[t] = "signed"
           /\ life'[t] = "signed" /\ life[t] # "signed" =>
                /\ ~MayEndorse(t)'
                /\ \E s \in Keys \ {t} : MayEndorse(s) /\ MayEndorse(s)'
<1>1. KeyInv /\ [Next]_vars => [Moves]_vars
  <2> SUFFICES ASSUME KeyInv, [Next]_vars PROVE Moves
    OBVIOUS
  <2>1. TypeOK
    BY DEF KeyInv
  <2>2. ASSUME life' = life \/ \E j \in Keys : life[j] = "absent" /\ life'[j] = "live"
        PROVE  \A j \in Keys : Live(j) => Live(j)'
    <3>1. CASE life' = life
      BY <3>1 DEF Live
    <3>2. ASSUME NEW j \in Keys, life[j] = "absent", life'[j] = "live"
          PROVE  \A i \in Keys : Live(i) => Live(i)'
      <4>1. PICK k \in Keys, e \in Keys \cup {None} : registerOperatorKey(k, e)
        BY <2>1, <3>2
        DEF Next, vars, keyVars, endorseOperatorKey, endorseByGrantCheck, endorseByGrantCommit,
            revokeOperatorKey, setAgentIdentityKey, endorseAgentKey, armCheck, armCommit,
            cancelGrant, grantExpires, TypeOK
      <4> QED
        BY <2>1, <4>1 DEF registerOperatorKey, Live, TypeOK
    <3> QED
      BY <2>2, <3>1, <3>2
  <2>3. ASSUME NEW k \in Keys,
               life' = life \/ \E j \in Keys : life[j] = "absent" /\ life'[j] = "live",
               agentParent' = agentParent, MayEndorse(k)
        PROVE  MayEndorse(k)'
    BY <2>2, <2>3, AuthorityKept
  <2>4. ASSUME NEW t \in Keys, NEW s \in Keys, revokeOperatorKey(t, s), NEW x \in Keys
        PROVE  /\ life[x] = "signed" => life'[x] = "signed"
               /\ life'[x] = "signed" /\ life[x] # "signed" => x = t
    BY <2>1, <2>4 DEF revokeOperatorKey, TypeOK
  <2>5. CASE \E t, s \in Keys : revokeOperatorKey(t, s)
    BY <2>1, <2>3, <2>4, <2>5, RevokeLeavesSigner
  <2>6. CASE ~\E t, s \in Keys : revokeOperatorKey(t, s)
    <3>1. ASSUME NEW x \in Keys PROVE life[x] = "signed" <=> life'[x] = "signed"
      BY <2>1, <2>6
      DEF Next, vars, keyVars, registerOperatorKey, endorseOperatorKey, endorseByGrantCheck,
          endorseByGrantCommit, setAgentIdentityKey, endorseAgentKey, armCheck, armCommit,
          cancelGrant, grantExpires, TypeOK
    <3> QED
      BY <2>3, <3>1
  <2> QED
    BY <2>5, <2>6
<1> QED
  BY <1>1, KeysInductive, PTL DEF Spec, AuthorityMoves
-----------------------------------------------------------------------------
(* The console *)

\* A key that agents hang on is one of the pinned roots.
LEMMA HasDependents ==
  ASSUME NEW k \in Keys, dependentsOf(k) # 0
  PROVE  k \in PinnedRoots
<1>1. {i \in AgentRows : agentParent[i] = k} # {}
  BY FS_EmptySet DEF dependentsOf
<1> QED
  BY <1>1, OperatorKeysAssumption DEF PinnedRoots, AgentRows

\* A live key whose endorser may endorse may endorse itself.
LEMMA TrustDescends ==
  ASSUME NEW k \in Keys, Live(k), parent[k] \in Keys, MayEndorse(parent[k])
  PROVE  MayEndorse(k)
  BY OperatorKeysAssumption DEF MayEndorse, EndorserIsTrusted, Reaches, WalkClosed

\* The buttons that concern an operator key t in the browser that holds b.
LEMMA EndorseButton ==
  ASSUME KeyInv, NEW b \in Keys, Live(b), NEW t \in Keys
  PROVE  /\ EndorseOffered(t, b, Trusted) => RelayEndorses(t, b) \/ WouldCloseCycle(t, b)
         /\ ~EndorseOffered(t, b, Trusted) /\ RelayEndorses(t, b)
              => t \in Trusted \/ parent[t] \notin Trusted \cup {None}
<1> USE DEF EndorseOffered, rescueGuard, endorseAuthority, RelayEndorses, EndorsementAllowed,
            activeRecoveryGrant, canSign, LiveKeys, Trusted, MayEndorse, Live
<1>1. ASSUME EndorseOffered(t, b, Trusted), ~WouldCloseCycle(t, b) PROVE RelayEndorses(t, b)
  <2>1. CASE b \in Trusted
    BY <1>1, <2>1
  <2>2. CASE b \notin Trusted
    <3>1. PICK g \in Grants : grant[g] = [state |-> "armed", endorser |-> b, target |-> t]
      BY <1>1, <2>2
    <3>2. ASSUME NEW h \in Grants, grant[h].endorser = b PROVE h <= g
      <4>1. h > g => grant[h] = NoGrant
        BY <3>1 DEF KeyInv, GrantRows
      <4> QED
        BY <3>2, <4>1, OperatorKeysAssumption DEF NoGrant, Grants
    <3>3. UsableGrant(g, t, b)
      BY <1>1, <3>1, <3>2 DEF UsableGrant
    <3> QED
      BY <1>1, <3>3
  <2> QED
    BY <2>1, <2>2
<1>2. RelayEndorses(t, b) => rescueGuard(t, b, Trusted)
  BY DEF UsableGrant
<1>3. dependentsOf(t) # 0 /\ Live(t) => t \in Trusted
  BY HasDependents, RootMayEndorse
<1>4. parent[t] \in Trusted /\ Live(t) => t \in Trusted
  BY TrustDescends
<1> QED
  BY <1>1, <1>2, <1>3, <1>4

LEMMA RevokeButton ==
  ASSUME KeyInv, NEW b \in Keys, Live(b), NEW t \in Keys
  PROVE  /\ RevokeOffered(t, b, Trusted) => RevocationAllowed(t, b) \/ ~AuthorityWouldSurvive(t, b)
         /\ ~RevokeOffered(t, b, Trusted) => ~RevocationAllowed(t, b)
<1>1. ~activeRecoveryGrant(None, b)
  BY OperatorKeysAssumption DEF activeRecoveryGrant, KeyInv, GrantRows
<1>2. life[t] = "unsigned" => LiveKeys # {t}
  BY DEF LiveKeys, Live
<1> QED
  BY <1>1, <1>2 DEF RevokeOffered, RevocationAllowed, endorseAuthority, revokeGuard, canSign,
                    LiveKeys, Trusted, MayEndorse, Live

\* For every browser and every table the relay and the host can produce: what the
\* Security screen offers the relay takes, it withholds no revocation the relay would
\* take, and it withholds an endorsement only from a key that may endorse as it is or
\* whose endorser has lost its authority.
THEOREM ConsoleAlwaysAgrees == Spec => []ConsoleAgrees
<1>1. ASSUME KeyInv PROVE ConsoleAgrees
  <2>1. ASSUME NEW b \in trustRootKey PROVE AgentsOffered(b, Trusted) /\ b \in Trusted
    <3>1. b \in Keys /\ Live(b) /\ dependentsOf(b) > 0
      BY DEF trustRootKey, LiveKeys
    <3>3. b \in PinnedRoots
      BY <3>1, HasDependents
    <3>4. MayEndorse(b)
      BY <3>1, <3>3, RootMayEndorse
    <3> QED
      BY <3>1, <3>4 DEF AgentsOffered, endorseAuthority, canSign, LiveKeys, Trusted
  <2>2. ASSUME trustHealth, NEW i \in AgentRows PROVE agentParent[i] \in Trusted
    <3>1. agentParent[i] \in Keys /\ Live(agentParent[i])
      BY <2>2 DEF trustHealth, endorserStatus, LiveKeys
    <3>2. agentParent[i] \in PinnedRoots
      BY <3>1, OperatorKeysAssumption DEF PinnedRoots, AgentRows
    <3> QED
      BY <3>1, <3>2, RootMayEndorse DEF Trusted
  <2> QED
    BY <1>1, <2>1, <2>2, EndorseButton, RevokeButton DEF ConsoleAgrees, LiveKeys
<1> QED
  BY <1>1, KeysInductive, PTL

-----------------------------------------------------------------------------
(* The pointer walks *)

TableTypes ==
  /\ parent \in [Keys -> Keys \cup {None}]
  /\ query \in Queries
  /\ cursor \in Keys \cup {None}
  /\ walked \in SUBSET Keys

\* The walk has stepped from each visited key to the next one or to the cursor.
Trail ==
  /\ query.key \in walked \cup {cursor}
  /\ \A w \in walked : parent[w] \in walked \cup {cursor}

\* No visited key settles a trust query; if the cursor is reached, so was the key asked for.
TrustTrail ==
  /\ PinnedRoots # {}
  /\ \A w \in walked : ~Anchored(w, query.other)
  /\ cursor \in Keys /\ Reaches(cursor, query.other) => Reaches(query.key, query.other)

\* Visited keys and cursor lie on the chain of the endorser, and none was the target yet.
CycleTrail ==
  /\ query.other \notin walked
  /\ walked \subseteq ChainFrom(query.key)
  /\ cursor # None => cursor \in ChainFrom(query.key)

WalkInv ==
  /\ TableTypes
  /\ verdict = "walking" =>
       /\ Trail
       /\ query.kind = "trust" => TrustTrail
       /\ query.kind = "cycle" => CycleTrail
  /\ WalkCorrect

LEMMA WalkInvInit == WalkInit => WalkInv
<1> SUFFICES ASSUME WalkInit PROVE WalkInv
  OBVIOUS
<1>1. TableTypes
  BY DEF WalkInit, AnyTable, TableTypes, Queries
<1>2. query.key \in Keys /\ query.key # None
  BY OperatorKeysAssumption DEF WalkInit, Queries
<1>3. query.key \in ChainFrom(query.key)
  BY <1>2 DEF ChainFrom
<1>4. verdict = "walking" =>
        Trail /\ (query.kind = "trust" => TrustTrail) /\ (query.kind = "cycle" => CycleTrail)
  BY <1>2, <1>3 DEF WalkInit, Trail, TrustTrail, CycleTrail
<1>5. WalkCorrect
  BY DEF WalkInit, WalkCorrect, EndorserIsTrusted
<1> QED
  BY <1>1, <1>4, <1>5 DEF WalkInv

\* The table stands still, and with it everything the walk means.
LEMMA TableStill ==
  ASSUME UNCHANGED <<table, query>>
  PROVE  /\ PinnedRoots' = PinnedRoots
         /\ \A k \in Keys : Anchored(k, query.other)' <=> Anchored(k, query.other)
         /\ \A k \in Keys : Reaches(k, query.other)' <=> Reaches(k, query.other)
         /\ \A k \in Keys : ChainFrom(k)' = ChainFrom(k)
         /\ parent' = parent
  BY DEF table, PinnedRoots, Anchored, RecoveredVia, Reaches, WalkClosed, ChainFrom, Live
LEMMA TrustHopStep == WalkInv /\ TrustHop => WalkInv'
<1> SUFFICES ASSUME WalkInv, TrustHop PROVE WalkInv'
  OBVIOUS
<1>1. /\ TableTypes /\ Trail /\ TrustTrail
      /\ query.kind = "trust" /\ query.key \in Keys /\ None \notin Keys
      /\ verdict' = TrustVerdict /\ query' = query
      /\ UNCHANGED <<table, query>>
  BY OperatorKeysAssumption DEF WalkInv, TrustHop, Hop, TableTypes, Queries
<1>2. cursor \in walked => ~Anchored(cursor, query.other)
  BY <1>1 DEF TrustTrail
<1>3. CASE TrustVerdict = "walking"
  <2>1. /\ cursor \in Keys /\ cursor \notin walked /\ Live(cursor) /\ cursor # query.other
        /\ parent[cursor] \in Keys /\ ~Anchored(cursor, query.other)
    BY <1>1, <1>3 DEF TrustVerdict, TableTypes, Anchored
  <2>2. walked' = walked \cup {cursor} /\ cursor' = parent[cursor]
    BY <1>1, <1>3 DEF TrustHop, Hop
  <2>3. TableTypes' /\ Trail'
    BY <1>1, <2>1, <2>2 DEF TableTypes, Trail, table
  <2>4. Reaches(parent[cursor], query.other) => Reaches(cursor, query.other)
    BY <2>1 DEF Reaches, WalkClosed
  <2>5. TrustTrail'
    <3>1. cursor' \in Keys /\ (Reaches(cursor', query.other) => Reaches(query.key, query.other))
      BY <1>1, <2>1, <2>2, <2>4 DEF TrustTrail
    <3>2. \A w \in walked' : w \in Keys /\ ~Anchored(w, query.other)
      BY <1>1, <2>1, <2>2 DEF TrustTrail, TableTypes
    <3>3. query.key' = query.key /\ query.other' = query.other
      BY <1>1
    <3>4. Reaches(cursor, query.other)' <=> Reaches(cursor', query.other)
      BY <1>1 DEF table, Reaches, WalkClosed, Anchored, RecoveredVia, Live, PinnedRoots
    <3> QED
      BY <1>1, <3>1, <3>2, <3>3, <3>4, TableStill DEF TrustTrail
  <2> QED
    BY <1>1, <1>3, <2>3, <2>5 DEF WalkInv, WalkCorrect
<1>4. CASE TrustVerdict = "yes"
  <2>1. cursor \in Keys /\ Anchored(cursor, query.other)
    BY <1>1, <1>2, <1>4 DEF TrustVerdict, TableTypes, Anchored
  <2>2. Reaches(cursor, query.other)
    BY <2>1 DEF Reaches
  <2>3. EndorserIsTrusted(query.key, query.other)'
    BY <1>1, <2>1, <2>2, TableStill DEF TrustTrail, EndorserIsTrusted
  <2>4. TableTypes'
    BY <1>1, <1>4 DEF TableTypes, TrustHop, Hop, table
  <2> QED
    BY <1>1, <1>4, <2>3, <2>4 DEF WalkInv, WalkCorrect
<1>5. CASE TrustVerdict = "no"
  <2>1. ~Reaches(query.key, query.other)
    <3>1. PICK T \in SUBSET Keys : T = Keys \ (walked \cup {cursor})
      OBVIOUS
    <3>2. cursor \in Keys => ~Anchored(cursor, query.other)
      BY <1>1, <1>2, <1>5 DEF TrustVerdict, Anchored, RecoveredVia
    <3>3. \A j \in Keys : Anchored(j, query.other) => j \in T
      BY <1>1, <3>1, <3>2 DEF TrustTrail
    <3>4. ASSUME NEW k \in Keys, Live(k), k # query.other, parent[k] \in T, k \notin T PROVE FALSE
      <4>1. CASE k \in walked
        BY <1>1, <3>1, <3>4, <4>1 DEF Trail
      <4>2. CASE k = cursor /\ k \notin walked
        BY <1>1, <1>5, <3>1, <3>4, <4>2 DEF TrustVerdict
      <4> QED
        BY <3>1, <3>4, <4>1, <4>2
    <3>5. Holds(T, query.other)
      BY <3>3, <3>4 DEF Holds, WalkClosed
    <3>6. query.key \notin T
      BY <1>1, <3>1 DEF Trail
    <3> QED
      BY <1>1, <3>5, <3>6, ReachedIn
  <2>2. EndorserIsTrusted(query.key, query.other)' = FALSE
    BY <1>1, <2>1, TableStill DEF TrustTrail, EndorserIsTrusted
  <2>3. TableTypes'
    BY <1>1, <1>5 DEF TableTypes, TrustHop, Hop, table
  <2> QED
    BY <1>1, <1>5, <2>2, <2>3 DEF WalkInv, WalkCorrect
<1>6. TrustVerdict \in {"yes", "no", "walking"}
  BY DEF TrustVerdict
<1> QED
  BY <1>3, <1>4, <1>5, <1>6

LEMMA CycleHopStep == WalkInv /\ CycleHop => WalkInv'
<1> SUFFICES ASSUME WalkInv, CycleHop PROVE WalkInv'
  OBVIOUS
<1>1. /\ TableTypes /\ Trail /\ CycleTrail
      /\ query.kind = "cycle" /\ query.key \in Keys /\ query.other \in Keys /\ None \notin Keys
      /\ verdict' = CycleVerdict /\ query' = query
      /\ UNCHANGED <<table, query>>
  BY OperatorKeysAssumption DEF WalkInv, CycleHop, Hop, TableTypes, Queries
<1>2. WouldCloseCycle(query.other, query.key)' = WouldCloseCycle(query.other, query.key)
  BY <1>1, TableStill DEF WouldCloseCycle
<1>3. CASE CycleVerdict = "walking"
  <2>1. cursor \in Keys /\ cursor \notin walked /\ cursor # query.other
    BY <1>1, <1>3 DEF CycleVerdict, TableTypes
  <2>2. walked' = walked \cup {cursor} /\ cursor' = parent[cursor]
    BY <1>1, <1>3 DEF CycleHop, Hop
  <2>3. TableTypes' /\ Trail'
    BY <1>1, <2>1, <2>2 DEF TableTypes, Trail, table
  <2>4. parent[cursor] # None => parent[cursor] \in ChainFrom(query.key)
    BY <1>1, <2>1 DEF CycleTrail, ChainFrom, TableTypes
  <2>5. CycleTrail'
    BY <1>1, <2>1, <2>2, <2>4, TableStill DEF CycleTrail
  <2> QED
    BY <1>1, <1>3, <2>3, <2>5 DEF WalkInv, WalkCorrect
<1>4. CASE CycleVerdict = "yes"
  <2>1. WouldCloseCycle(query.other, query.key)
    BY <1>1, <1>4 DEF CycleVerdict, CycleTrail, WouldCloseCycle
  <2>2. TableTypes'
    BY <1>1, <1>4 DEF TableTypes, CycleHop, Hop, table
  <2> QED
    BY <1>1, <1>2, <1>4, <2>1, <2>2 DEF WalkInv, WalkCorrect
<1>5. CASE CycleVerdict = "no"
  <2>1. cursor = None \/ cursor \in walked
    BY <1>5 DEF CycleVerdict
  <2>2. query.key \in walked /\ Upward(walked) /\ query.other \notin walked
    BY <1>1, <2>1 DEF Trail, Upward, CycleTrail
  <2>3. WouldCloseCycle(query.other, query.key) = FALSE
    BY <1>1, <2>2, ChainAvoids DEF WouldCloseCycle, TableTypes
  <2>4. TableTypes'
    BY <1>1, <1>5 DEF TableTypes, CycleHop, Hop, table
  <2> QED
    BY <1>1, <1>2, <1>5, <2>3, <2>4 DEF WalkInv, WalkCorrect
<1>6. CycleVerdict \in {"yes", "no", "walking"}
  BY DEF CycleVerdict
<1> QED
  BY <1>3, <1>4, <1>5, <1>6

\* The two loops of db.ts answer what the rule means, on any table whatever, the
\* cyclic and the damaged ones included.
THEOREM WalksAreCorrect == WalkSpec => []WalkCorrect
<1>1. ASSUME WalkInv, UNCHANGED <<table, walkVars>> PROVE WalkInv'
  <2>1. UNCHANGED <<table, query, cursor, walked, verdict>>
    BY <1>1 DEF walkVars
  <2>2. /\ PinnedRoots' = PinnedRoots /\ parent' = parent
        /\ \A k \in Keys : Anchored(k, query.other)' <=> Anchored(k, query.other)
        /\ \A k \in Keys : Reaches(k, query.other)' <=> Reaches(k, query.other)
        /\ \A k \in Keys : ChainFrom(k)' = ChainFrom(k)
    BY <2>1, TableStill
  <2>3. query \in Queries /\ cursor \in Keys \cup {None} /\ walked \in SUBSET Keys
    BY <1>1 DEF WalkInv, TableTypes
  <2>4. TableTypes' /\ (Trail' <=> Trail)
    BY <1>1, <2>1, <2>2 DEF WalkInv, TableTypes, Trail
  <2>5. query.kind = "trust" => query.key \in Keys /\ (TrustTrail' <=> TrustTrail)
    BY <2>1, <2>2, <2>3 DEF TrustTrail, Queries
  <2>6. query.kind = "cycle" => query.key \in Keys /\ (CycleTrail' <=> CycleTrail)
    BY <2>1, <2>2, <2>3 DEF CycleTrail, Queries
  <2>7. WalkCorrect' <=> WalkCorrect
    <3>1. query.kind = "trust" =>
            EndorserIsTrusted(query.key, query.other)' = EndorserIsTrusted(query.key, query.other)
      BY <2>1, <2>2, <2>5 DEF EndorserIsTrusted
    <3>2. query.kind # "trust" =>
            WouldCloseCycle(query.other, query.key)' = WouldCloseCycle(query.other, query.key)
      BY <2>1, <2>2, <2>3 DEF WouldCloseCycle, Queries
    <3> QED
      BY <2>1, <3>1, <3>2 DEF WalkCorrect
  <2> QED
    BY <1>1, <2>1, <2>4, <2>5, <2>6, <2>7 DEF WalkInv
<1>2. WalkInv /\ [WalkNext]_<<table, walkVars>> => WalkInv'
  BY <1>1, TrustHopStep, CycleHopStep DEF WalkNext, Answered
<1>3. WalkInv => WalkCorrect
  BY DEF WalkInv
<1> QED
  BY <1>2, <1>3, WalkInvInit, PTL DEF WalkSpec
=============================================================================
