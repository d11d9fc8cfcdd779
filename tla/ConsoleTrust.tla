---------------------------- MODULE ConsoleTrust ----------------------------
(***************************************************************************)
(* The operator console's reading of the key tables: what the Security     *)
(* screen (packages/relay/frontend/src/SecurityScreen.jsx) offers to sign  *)
(* in a browser that holds one operator key, decided by the helpers of     *)
(* operatorTrust.js from what the relay has just listed. The console only  *)
(* shapes the buttons: what it sends is checked again by the operations of *)
(* OperatorKeys, on the tables of that moment.                             *)
(*                                                                         *)
(* Abstracted: wording and labels, the passphrase and the stored seed, and *)
(* the order of the list, so trustRootKey is any of the keys it may pick.  *)
(* The relay publishes its verdict on every key, so the one-hop reading    *)
(* endorseAuthority keeps for relays that do not is left out.              *)
(***************************************************************************)
EXTENDS OperatorKeys, FiniteSets

AgentRows == {i \in AgentKeys : agentLife[i] = "live"}

\* GET /v1/operator/keys publishes, key by key, whether it may endorse.
Trusted == {k \in Keys : MayEndorse(k)}

\* The endorsement of an agent's key; a healthy one hangs on a live key.
endorserStatus(i) ==
  IF agentParent[i] = None THEN "unendorsed"
  ELSE IF agentParent[i] \in LiveKeys THEN "endorsed" ELSE "revoked"

dependentsOf(k) == Cardinality({i \in AgentRows : agentParent[i] = k})

\* trustRootKey: a live key that most agents are endorsed by.
trustRootKey ==
  {k \in LiveKeys : dependentsOf(k) > 0 /\ \A j \in LiveKeys : dependentsOf(j) <= dependentsOf(k)}

trustHealth == \A i \in AgentRows : endorserStatus(i) = "endorsed"

\* deviceKeySigningState: the key is listed and not revoked.
canSign(b) == b \in LiveKeys

revokeGuard(t, b) == LiveKeys # {t} /\ t # b

\* The armed grant the relay lists, if it is for b to endorse t.
activeRecoveryGrant(t, b) ==
  \E g \in Grants : grant[g] = [state |-> "armed", endorser |-> b, target |-> t]

\* Mutant: a live key may endorse.
endorseAuthorityLive(t, b, trusted) == canSign(b)

\* May b endorse t, or an agent (t = None)? The relay's verdict, or the grant.
endorseAuthority(t, b, trusted) ==
  canSign(b) /\ (b \in trusted \/ activeRecoveryGrant(t, b))

\* A recovery is for a target nobody has endorsed.
rescueGuard(t, b, trusted) ==
  /\ t # b
  /\ endorseAuthority(t, b, trusted)
  /\ Live(t)
  /\ b \in trusted \/ parent[t] = None

-----------------------------------------------------------------------------
(* The buttons of the screen, in the browser that holds b *)

EndorseOffered(t, b, trusted) ==
  parent[t] = None /\ dependentsOf(t) = 0 /\ rescueGuard(t, b, trusted)

RevokeOffered(t, b, trusted) ==
  /\ life[t] \in {"live", "unsigned"}
  /\ canSign(b) /\ endorseAuthority(None, b, trusted)
  /\ revokeGuard(t, b)

AgentsOffered(b, trusted) == canSign(b) /\ endorseAuthority(None, b, trusted)

-----------------------------------------------------------------------------
\* The relay's answer to an endorsement of operator key t signed with b.
RelayEndorses(t, b) ==
  /\ EndorsementAllowed(t, b)
  /\ (\E g \in Grants : UsableGrant(g, t, b)) \/ EndorserIsTrusted(b, None)

\* The console and the relay agree, in every browser and every state of the
\* tables. A button that is offered works: the relay refuses only to close a
\* chain on itself, or to let a revocation cut off its own signer or the last
\* root, which the console does not look at. No revocation is withheld that the
\* relay would take, and an endorsement only from a key that may endorse as it
\* is, or whose endorser on record has lost its authority since: the row of
\* such a key has no Endorse button, although the relay would take the
\* endorsement. The device the screen sends the operator to can act, and a
\* fleet it shows as healthy hangs on keys that may endorse.
ConsoleAgrees ==
  LET trusted == Trusted IN
  /\ \A b \in LiveKeys, t \in {k \in Keys : life[k] # "absent"} :
       /\ EndorseOffered(t, b, trusted) => RelayEndorses(t, b) \/ WouldCloseCycle(t, b)
       /\ ~EndorseOffered(t, b, trusted) /\ RelayEndorses(t, b)
            => t \in trusted \/ parent[t] \notin trusted \cup {None}
       /\ RevokeOffered(t, b, trusted) => RevocationAllowed(t, b) \/ ~AuthorityWouldSurvive(t, b)
       /\ ~RevokeOffered(t, b, trusted) => ~RevocationAllowed(t, b)
  /\ \A b \in trustRootKey : AgentsOffered(b, trusted) /\ b \in trusted
  /\ trustHealth => \A i \in AgentRows : agentParent[i] \in trusted
=============================================================================
