---------------------------- MODULE OperatorKeys ----------------------------
(***************************************************************************)
(* The relay's table of operator signing keys: who endorsed whom, which    *)
(* keys are revoked, which operator key each agent identity key hangs on,  *)
(* and the one-off recovery grants armed from the relay host.              *)
(* packages/relay/src/db.ts, sections "Operator signing keys", "One-off    *)
(* operator-key recovery" and "Agent identity keys".                       *)
(*                                                                         *)
(* Two processes share the database: the relay, whose handlers run one at  *)
(* a time, and the host's recovery-grant CLI. Each of their multi-         *)
(* statement operations checks first and commits in a later transaction,   *)
(* so the other process may commit in between; those operations are two    *)
(* steps here.                                                             *)
(*                                                                         *)
(* Abstracted: the signatures (a request whose signature does not verify   *)
(* changes nothing and is left out), labels, audit events and the signed   *)
(* revocation's timestamp.                                                 *)
(***************************************************************************)
EXTENDS OperatorKeyIds, Naturals

CONSTANTS
  AgentKeys,   \* agent identity keys
  MaxGrants,   \* bound: recovery grants ever armed
  LegacyDead   \* keys that may have been revoked without a signature by an earlier release

ASSUME OperatorKeysAssumption ==
  /\ None \notin Keys
  /\ MaxGrants \in Nat
  /\ LegacyDead \subseteq Keys

Grants == 1..MaxGrants      \* in the order of created_at

VARIABLES
  life,         \* life[k]: "absent", "live", "unsigned" or "signed" (revoked)
  parent,       \* parent[k]: endorsed_by_key_id of operator key k
  agentLife,    \* agentLife[i]: "absent" or "live"
  agentParent,  \* agentParent[i]: endorsed_by_key_id of agent key i
  grant,        \* grant[g]: [state, endorser, target]
  relayAt,      \* the relay between check and commit of a granted endorsement
  hostAt        \* the host CLI between check and commit of "arm"

keyVars == <<life, parent>>
agentVars == <<agentLife, agentParent>>
vars == <<life, parent, agentLife, agentParent, grant, relayAt, hostAt>>

GrantStates == {"none", "armed", "expired", "cancelled", "consumed"}
NoGrant == [state |-> "none", endorser |-> None, target |-> None]
Idle == [busy |-> FALSE, endorser |-> None, target |-> None, id |-> 0]
Pending(e, t, g) == [busy |-> TRUE, endorser |-> e, target |-> t, id |-> g]

Live(k) == life[k] = "live"
LiveKeys == {k \in Keys : Live(k)}

Init ==
  /\ \E gone \in SUBSET LegacyDead \ {Keys} :   \* some key is left to register
       life = [k \in Keys |-> IF k \in gone THEN "unsigned" ELSE "absent"]
  /\ parent = [k \in Keys |-> None]
  /\ agentLife = [i \in AgentKeys |-> "absent"]
  /\ agentParent = [i \in AgentKeys |-> None]
  /\ grant = [g \in Grants |-> NoGrant]
  /\ relayAt = Idle
  /\ hostAt = Idle

-----------------------------------------------------------------------------
(* The authority rule *)

\* agentPinnedRoots: the endorsers of live agent keys; {} is the code's null,
\* a fleet in which no agent is endorsed yet.
PinnedRoots == {agentParent[i] : i \in {j \in AgentKeys : agentLife[j] = "live"}} \ {None}

\* Key k was placed by a consumed grant that names its recorded endorser.
RecoveredVia(k) ==
  /\ parent[k] # None
  /\ \E g \in Grants : grant[g] = [state |-> "consumed", endorser |-> parent[k], target |-> k]

\* A walk from k succeeds at k itself: k is live, is not the excluded key,
\* and is a root or was recovered.
Anchored(k, excluded) ==
  /\ Live(k)
  /\ k # excluded
  /\ k \in PinnedRoots \/ RecoveredVia(k)

\* The set of keys from which the hop-by-hop walk succeeds is the least set
\* holding the anchored keys and every usable key whose endorser is in it: k
\* is in it when no such set leaves k out.
WalkClosed(T, excluded) ==
  \A k \in Keys : Live(k) /\ k # excluded /\ parent[k] \in T => k \in T

Reaches(k, excluded) ==
  LET anchored == {j \in Keys : Anchored(j, excluded)}
  IN  \A T \in SUBSET (Keys \ {k}) : anchored \subseteq T => ~WalkClosed(T, excluded)

\* endorserIsTrusted(fleet, k, excluded)
EndorserIsTrusted(k, excluded) == PinnedRoots = {} \/ Reaches(k, excluded)

\* operatorKeyMayEndorse
MayEndorse(k) == Live(k) /\ EndorserIsTrusted(k, None)

\* Mutant: only the last pinned root is protected.
LastRootKept(target, signer) == PinnedRoots = {} \/ PinnedRoots # {target}

\* assertAuthoritySurvives
AuthorityWouldSurvive(target, signer) ==
  \/ PinnedRoots = {}
  \/ PinnedRoots # {target} /\ EndorserIsTrusted(signer, target)

\* The keys met going up from k, k included: every set that holds k and the
\* endorser of each of its members contains them.
ChainFrom(k) ==
  {a \in Keys : \A T \in SUBSET Keys :
     k \in T /\ (\A x \in T : parent[x] # None => parent[x] \in T) => a \in T}

\* assertNoEndorsementCycle
WouldCloseCycle(target, endorser) == target \in ChainFrom(endorser)

-----------------------------------------------------------------------------
(* Relay handlers. None of them starts while the relay is in a handler. *)

RelayIdle == ~relayAt.busy

registerOperatorKey(k, e) ==
  /\ RelayIdle
  /\ e # None => Live(e) /\ EndorserIsTrusted(e, None)
  /\ life[k] = "absent"
  /\ life' = [life EXCEPT ![k] = "live"]
  /\ parent' = [parent EXCEPT ![k] = e]
  /\ UNCHANGED <<agentVars, grant, relayAt, hostAt>>

\* Mutant: endorseOperatorKey without assertNoEndorsementCycle.
EndorsementUnchecked(t, e) == e # t /\ Live(t) /\ Live(e)

\* The checks endorseOperatorKey makes on target and endorser before it asks
\* about authority.
EndorsementAllowed(t, e) == e # t /\ Live(t) /\ Live(e) /\ ~WouldCloseCycle(t, e)

\* endorseOperatorKey when the ordinary rule accepts the endorser: nothing it
\* read is written by the host, so check and commit are one step.
endorseOperatorKey(t, e) ==
  /\ RelayIdle
  /\ EndorsementAllowed(t, e)
  /\ EndorserIsTrusted(e, None)
  /\ parent' = [parent EXCEPT ![t] = e]
  /\ UNCHANGED <<life, agentVars, grant, relayAt, hostAt>>

\* requireRecoveryGrant: the newest grant of this endorser, and only if it is
\* armed, names this target, and the target is still unendorsed.
UsableGrant(g, t, e) ==
  /\ grant[g] = [state |-> "armed", endorser |-> e, target |-> t]
  /\ \A h \in Grants : grant[h].endorser = e => h <= g
  /\ parent[t] = None

\* endorseOperatorKey when the ordinary rule refuses the endorser: it finds
\* its grant, ...
endorseByGrantCheck(t, e, g) ==
  /\ RelayIdle
  /\ EndorsementAllowed(t, e)
  /\ ~EndorserIsTrusted(e, None)
  /\ UsableGrant(g, t, e)
  /\ relayAt' = Pending(e, t, g)
  /\ UNCHANGED <<keyVars, agentVars, grant, hostAt>>

\* ... then consumes it and records the endorsement in one transaction, or
\* rolls both back when the grant was cancelled meanwhile. The transaction
\* compares expires_at with the instant the handler started, so a grant that
\* ran out since the check still counts.
endorseByGrantCommit ==
  /\ relayAt.busy
  /\ \/ /\ grant[relayAt.id].state \in {"armed", "expired"}
        /\ grant' = [grant EXCEPT ![relayAt.id].state = "consumed"]
        /\ parent' = [parent EXCEPT ![relayAt.target] = relayAt.endorser]
     \/ /\ grant[relayAt.id].state \notin {"armed", "expired"}
        /\ UNCHANGED <<grant, parent>>
  /\ relayAt' = Idle
  /\ UNCHANGED <<life, agentVars, hostAt>>

\* A live target, or a legacy tombstone that a signature now replaces.
RevocationAllowed(t, s) ==
  /\ \/ Live(t) /\ LiveKeys # {t}
     \/ life[t] = "unsigned"
  /\ s # t
  /\ Live(s)
  /\ EndorserIsTrusted(s, None)
  /\ AuthorityWouldSurvive(t, s)

revokeOperatorKey(t, s) ==
  /\ RelayIdle
  /\ RevocationAllowed(t, s)
  /\ life' = [life EXCEPT ![t] = "signed"]
  /\ UNCHANGED <<parent, agentVars, grant, relayAt, hostAt>>

\* An agent enrols or rotates; a rotated-out key is never revoked by the relay.
setAgentIdentityKey(i) ==
  /\ RelayIdle
  /\ agentLife[i] = "absent"
  /\ agentLife' = [agentLife EXCEPT ![i] = "live"]
  /\ UNCHANGED <<keyVars, agentParent, grant, relayAt, hostAt>>

endorseAgentKey(i, e) ==
  /\ RelayIdle
  /\ agentLife[i] = "live"
  /\ Live(e)
  /\ EndorserIsTrusted(e, None)
  /\ agentParent' = [agentParent EXCEPT ![i] = e]
  /\ UNCHANGED <<keyVars, agentLife, grant, relayAt, hostAt>>

-----------------------------------------------------------------------------
(* The host CLI, and the clock that ends a grant *)

\* The grant armed in the fleet, or 0.
ArmedGrant == IF \E g \in Grants : grant[g].state = "armed"
              THEN CHOOSE g \in Grants : grant[g].state = "armed" ELSE 0

\* createOperatorRecoveryGrant reads the clock and both keys, ...
armCheck(e, t) ==
  /\ ~hostAt.busy
  /\ e # t
  /\ Live(e)
  /\ Live(t)
  /\ parent[t] = None
  /\ hostAt' = Pending(e, t, ArmedGrant)
  /\ UNCHANGED <<keyVars, agentVars, grant, relayAt>>

\* Mutant: the transaction of "arm" does not look for an armed grant.
ArmedForNobody(g) == FALSE

\* The transaction of "arm" finds a grant unused, uncancelled and unexpired at
\* the instant the CLI read the clock.
ArmedForHost(g) ==
  grant[g].state = "armed" \/ (grant[g].state = "expired" /\ g = hostAt.id)

\* ... then inserts the grant unless one is already armed for the fleet.
armCommit(g) ==
  /\ hostAt.busy
  /\ \/ /\ \A h \in Grants : ~ArmedForHost(h)
        /\ \A h \in Grants : grant[h].state = "none" <=> h >= g
        /\ grant' = [grant EXCEPT ![g] = [state |-> "armed", endorser |-> hostAt.endorser,
                                          target |-> hostAt.target]]
     \/ /\ \E h \in Grants : ArmedForHost(h)
        /\ UNCHANGED grant
  /\ hostAt' = Idle
  /\ UNCHANGED <<keyVars, agentVars, relayAt>>

cancelGrant(g) ==
  /\ grant[g].state \in {"armed", "expired"}
  /\ grant' = [grant EXCEPT ![g].state = "cancelled"]
  /\ UNCHANGED <<keyVars, agentVars, relayAt, hostAt>>

\* expires_at passes.
grantExpires(g) ==
  /\ grant[g].state = "armed"
  /\ grant' = [grant EXCEPT ![g].state = "expired"]
  /\ UNCHANGED <<keyVars, agentVars, relayAt, hostAt>>

-----------------------------------------------------------------------------
Next ==
  \/ \E k \in Keys, e \in Keys \cup {None} : registerOperatorKey(k, e)
  \/ \E t, e \in Keys : endorseOperatorKey(t, e)
  \/ \E t, e \in Keys, g \in Grants : endorseByGrantCheck(t, e, g)
  \/ endorseByGrantCommit
  \/ \E t, s \in Keys : revokeOperatorKey(t, s)
  \/ \E i \in AgentKeys : setAgentIdentityKey(i)
  \/ \E i \in AgentKeys, e \in Keys : endorseAgentKey(i, e)
  \/ \E e, t \in Keys : armCheck(e, t)
  \/ \E g \in Grants : armCommit(g)
  \/ \E g \in Grants : cancelGrant(g)
  \/ \E g \in Grants : grantExpires(g)

Spec == Init /\ [][Next]_vars

-----------------------------------------------------------------------------
(* Properties *)

ProcessState == [busy : BOOLEAN, endorser : Keys \cup {None},
                 target : Keys \cup {None}, id : 0..MaxGrants]

TypeOK ==
  /\ life \in [Keys -> {"absent", "live", "unsigned", "signed"}]
  /\ parent \in [Keys -> Keys \cup {None}]
  /\ agentLife \in [AgentKeys -> {"absent", "live"}]
  /\ agentParent \in [AgentKeys -> Keys \cup {None}]
  /\ grant \in [Grants -> [state : GrantStates, endorser : Keys \cup {None},
                           target : Keys \cup {None}]]
  /\ relayAt \in ProcessState
  /\ hostAt \in ProcessState

\* Once an agent is endorsed, some live key may still endorse: no order of
\* registrations, endorsements, recoveries and revocations leaves the fleet
\* without a key that could sign its way back.
AuthoritySurvives == PinnedRoots # {} => \E k \in Keys : MayEndorse(k)

\* No endorsement chain ever closes on itself.
ChainsEnd ==
  \A k \in Keys : parent[k] # None => k \notin ChainFrom(parent[k])

\* The key tables in one piece: whatever keys an earlier release had revoked
\* without a signature, somebody may still endorse and every chain has an end.
KeysSound == TypeOK /\ AuthoritySurvives /\ ChainsEnd

\* At most one grant is armed at a time, and a consumed grant is the reason
\* its target once hung on its endorser: it was consumed together with that
\* endorsement, so no later grant could have named the same target.
GrantsExclusive ==
  /\ \A g, h \in Grants : grant[g].state = "armed" /\ grant[h].state = "armed" => g = h
  /\ \A g, h \in Grants :
       /\ grant[g].state = "consumed" /\ grant[h].state = "consumed"
       /\ grant[g].target = grant[h].target
       => g = h

\* What moves authority. Endorsing or registering an operator key, by the
\* ordinary rule or by a grant, never costs any key its authority: only a
\* revocation or moving an agent key can. A revocation leaves its signer able
\* to endorse, takes the target's authority for good, and no tombstone that
\* carries a signature changes.
AuthorityMoves ==
  [][/\ \A k \in Keys :
          /\ life' = life \/ \E j \in Keys : life[j] = "absent" /\ life'[j] = "live"
          /\ agentParent' = agentParent
          /\ MayEndorse(k)
          => MayEndorse(k)'
     /\ \A t \in Keys :
          /\ life[t] = "signed" => life'[t] = "signed"
          /\ life'[t] = "signed" /\ life[t] # "signed" =>
               /\ ~MayEndorse(t)'
               /\ \E s \in Keys \ {t} : MayEndorse(s) /\ MayEndorse(s)']_vars
=============================================================================
