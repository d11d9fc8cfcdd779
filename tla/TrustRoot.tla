----------------------------- MODULE TrustRoot ------------------------------
(***************************************************************************)
(* An agent's trust root: the operator keys it pins, the tombstones of the *)
(* ones it saw revoked, and how both follow the key list that comes with   *)
(* every inbox batch. packages/sdk/src/identity/verification.ts and        *)
(* store.ts, with the config seed of openclaw-plugin/src/connection.ts.    *)
(*                                                                         *)
(* The code trusts signatures and not the relay, so the relay here may     *)
(* serve any part of what operators ever signed, any unsigned "revoked"    *)
(* flag, and its entries in any order. The order decides two things only:  *)
(* which pin is met last when all of them are revoked in one batch, and    *)
(* which keys are met after their endorser. poll states both directly.     *)
(*                                                                         *)
(* Abstracted: public keys (a key is its id), signature bytes (a signed    *)
(* statement is a member of a set that only grows), log lines, a fleet id  *)
(* that is missing (nothing then verifies) and un-revokes without their    *)
(* bind fields (refused like unsigned ones).                               *)
(***************************************************************************)
EXTENDS OperatorKeyIds, Naturals, FiniteSets

CONSTANTS
  MaxAt,     \* bound: revocation instants are 1..MaxAt
  MaxSigned  \* bound: statements ever signed

ASSUME TrustRootAssumption ==
  /\ None \notin Keys
  /\ MaxAt \in Nat
  /\ MaxSigned \in Nat

VARIABLES
  endorsed,   \* signed endorsements <<endorser, key>>
  revoked,    \* signed revocations <<signer, key, revokedAt>>
  unrevoked,  \* signed un-revokes <<signer, key, revokedAt being cleared>>
  seed,       \* operatorPubkey of the agent's config
  id,         \* the identity in memory
  disk,       \* the identity file
  up,         \* the process holds an identity
  tofu        \* history: every key adopted on first use

signed == <<endorsed, revoked, unrevoked>>
trustVars == <<endorsed, revoked, unrevoked, seed, id, disk, up, tofu>>

\* Tombstones are instants; 0 is no tombstone.
Identity == [pinned : SUBSET Keys, tomb : [Keys -> 0..MaxAt],
             admitted : [Keys -> Keys \cup {None, "tofu"}], tofuAt : BOOLEAN]

NewIdentity == [pinned |-> {}, tomb |-> [k \in Keys |-> 0],
                admitted |-> [k \in Keys |-> None], tofuAt |-> FALSE]

Tombstoned(i) == {k \in Keys : i.tomb[k] # 0}

TrustInit ==
  /\ endorsed = {} /\ revoked = {} /\ unrevoked = {}
  /\ seed \in SUBSET Keys
  /\ id = NewIdentity
  /\ disk = NewIdentity
  /\ up = FALSE
  /\ tofu = {}

-----------------------------------------------------------------------------
(* Operators sign, on their own devices; no key speaks about itself, the    *)
(* relay refuses to store that.                                            *)

\* Bound, not in the code.
CanSign == Cardinality(endorsed) + Cardinality(revoked) + Cardinality(unrevoked) < MaxSigned

signEndorsement(e, k) ==
  /\ CanSign /\ e # k
  /\ endorsed' = endorsed \cup {<<e, k>>}
  /\ UNCHANGED <<revoked, unrevoked, seed, id, disk, up, tofu>>

signRevocation(s, k, at) ==
  /\ CanSign /\ s # k
  /\ revoked' = revoked \cup {<<s, k, at>>}
  /\ UNCHANGED <<endorsed, unrevoked, seed, id, disk, up, tofu>>

signUnrevoke(s, k, at) ==
  /\ CanSign /\ s # k
  /\ unrevoked' = unrevoked \cup {<<s, k, at>>}
  /\ UNCHANGED <<endorsed, revoked, seed, id, disk, up, tofu>>

-----------------------------------------------------------------------------
(* One key list applied *)

\* Mutant: the un-revoke is not compared with the tombstone that stands.
ClearedAny(i, U) == {u[2] : u \in {v \in U : v[1] \in i.pinned}}

\* clearTombstonesOnSignedUnrevoke: tombstones a pinned key's un-revoke names
\* by their exact instant.
Cleared(i, U) == {u[2] : u \in {v \in U : v[1] \in i.pinned /\ i.tomb[v[2]] = v[3]}}

\* Revocations that a key pinned before this batch signed.
Proven(i, R) == {r \in R : r[1] \in i.pinned}

\* Mutant: the last pin may be revoked too.
SparesNone(i, P) == {{}}

\* isLastPinnedKey: when every pin is revoked in this batch, the one met last
\* is refused.
Spares(i, P) == IF i.pinned # {} /\ i.pinned \subseteq P THEN {{k} : k \in i.pinned} ELSE {{}}

\* dropRevokedKey keeps the instant of a tombstone that already stands.
TombOf(i, U, R, D, k) ==
  IF k \in Tombstoned(i) \ Cleared(i, U) THEN i.tomb[k]
  ELSE IF k \in D THEN CHOOSE at \in 1..MaxAt : \E r \in Proven(i, R) : r[2] = k /\ r[3] = at
  ELSE 0

\* Keys of the proven revocations.
ProvenKeys(i, R) == {r[2] : r \in Proven(i, R)}

\* applyRelayKeyClaims: U and R are the signed statements the relay serves,
\* S the pin spared.
Claimed(i, U, R, S) ==
  LET D == ProvenKeys(i, R) \ S
  IN [pinned   |-> i.pinned \ D,
      tomb     |-> [k \in Keys |-> TombOf(i, U, R, D, k)],
      admitted |-> [k \in Keys |-> IF k \in D THEN None ELSE i.admitted[k]],
      tofuAt   |-> i.tofuAt]

\* Claimed revoked by a statement that does not prove it: not to be newly
\* adopted in this batch.
Advisory(i, R) == {r[2] : r \in R} \ ProvenKeys(i, R)

Adoptable(i, adv) == Keys \ (i.pinned \cup Tombstoned(i) \cup adv)

\* The single adoption pass, in some order: Q holds every candidate endorsed
\* by a pin, and each of its keys hangs on a pin through keys of Q.
ChainAdopts(i, C, E, Q) ==
  /\ Q \subseteq C
  /\ \A k \in C : (\E e \in i.pinned : <<e, k>> \in E) => k \in Q
  /\ \A X \in SUBSET Q : X # {} =>
       \E k \in X, e \in i.pinned \cup (Q \ X) : <<e, k>> \in E

\* First use: nothing pinned, never latched.
FirstUse(i, T) ==
  [pinned   |-> T,
   tomb     |-> i.tomb,
   admitted |-> [k \in Keys |-> IF k \in T THEN "tofu" ELSE i.admitted[k]],
   tofuAt   |-> TRUE]

Chained(i, E, Q) ==
  [pinned   |-> i.pinned \cup Q,
   tomb     |-> i.tomb,
   admitted |-> [k \in Keys |->
                   IF k \in Q THEN CHOOSE e \in Keys : <<e, k>> \in E ELSE i.admitted[k]],
   tofuAt   |-> i.tofuAt]

\* An entry carries at most one statement of each kind.
OnePerKey(S) == \A x, y \in S : x[2] = y[2] => x = y

\* syncPinnedOperatorKeys over one batch, then the save, which may fail: the
\* memory keeps the change, the file does not. The batch carries the
\* statements E, R and U; L are the new keys it lists without an unsigned
\* "revoked", the others being absent or advisory, which is the same here.
poll(L, E, R, U, saves) ==
  /\ up
  /\ \E S \in Spares(id, ProvenKeys(id, R)) :
       LET c == Claimed(id, U, R, S)
           C == Adoptable(c, Advisory(id, R)) \cap L
       IN IF c.pinned = {} /\ ~c.tofuAt /\ C # {}
          THEN id' = FirstUse(c, C) /\ tofu' = tofu \cup C
          ELSE /\ \E Q \in SUBSET C : ChainAdopts(c, C, E, Q) /\ id' = Chained(c, E, Q)
               /\ tofu' = tofu
  /\ disk' = IF saves /\ (id' # id \/ Cleared(id, U) # {}) THEN id' ELSE disk
  /\ UNCHANGED <<signed, seed, up>>

-----------------------------------------------------------------------------
(* The process starts, or starts again *)

\* Mutant: the config seed overrides the tombstones.
SeededAlways(i) == [i EXCEPT !.pinned = @ \cup seed]

\* registerAndBootstrapIdentity: the seed is pinned, but never over a
\* tombstone.
Seeded(i) == [i EXCEPT !.pinned = (@ \cup seed) \ (seed \cap Tombstoned(i))]

\* The file is loaded and the seed applied; a save that fails there leaves
\* the process without an identity.
connect(saves) ==
  /\ LET i == Seeded(disk)
     IN \/ /\ i = disk \/ saves
           /\ id' = i /\ disk' = i /\ up' = TRUE
        \/ /\ i # disk /\ ~saves
           /\ id' = disk /\ up' = FALSE
           /\ UNCHANGED disk
  /\ UNCHANGED <<signed, seed, tofu>>

-----------------------------------------------------------------------------
\* A listed key that is pinned, and an un-revoke of a key without a tombstone,
\* are skipped by the code, so no batch here holds them.
TrustNext ==
  \/ \E e, k \in Keys : signEndorsement(e, k)
  \/ \E s, k \in Keys, at \in 1..MaxAt : signRevocation(s, k, at)
  \/ \E s, k \in Keys, at \in 1..MaxAt : signUnrevoke(s, k, at)
  \/ \E L \in SUBSET (Keys \ id.pinned) :
     \E E \in SUBSET {x \in endorsed : x[2] \in L}, R \in SUBSET revoked,
        U \in SUBSET {x \in unrevoked : x[2] \in Tombstoned(id)}, saves \in BOOLEAN :
       /\ OnePerKey(E) /\ OnePerKey(R) /\ OnePerKey(U)
       /\ poll(L, E, R, U, saves)
  \/ \E saves \in BOOLEAN : connect(saves)

TrustSpec == TrustInit /\ [][TrustNext]_trustVars

-----------------------------------------------------------------------------
(* Properties *)

TrustTypeOK ==
  /\ endorsed \subseteq Keys \X Keys
  /\ revoked \subseteq Keys \X Keys \X (1..MaxAt)
  /\ unrevoked \subseteq Keys \X Keys \X (1..MaxAt)
  /\ seed \subseteq Keys
  /\ id \in Identity /\ disk \in Identity
  /\ up \in BOOLEAN
  /\ tofu \subseteq Keys

\* The step is a start of the process.
Connects == \E saves \in BOOLEAN : connect(saves)

\* A key is never trusted and tombstoned at once, in memory or on disk:
\* every way in (seed, first use, chain) consults the tombstones, and the
\* last-root refusal writes none.
DeadKeysUntrusted ==
  \A i \in {id, disk} : i.pinned \cap Tombstoned(i) = {}

\* Whatever lists the relay serves, and across restarts and failed saves,
\* every pinned key hangs by operators' signatures on the configured seed or
\* on a key adopted on first use.
TrustIsRooted ==
  \A T \in SUBSET Keys :
    /\ seed \cup tofu \subseteq T
    /\ \A x \in endorsed : x[1] \in T => x[2] \in T
    => id.pinned \cup disk.pinned \subseteq T

\* What memory and file say of trust: no key is pinned and tombstoned, and
\* every pin is rooted, after any batches, failed saves and restarts.
TrustSound == TrustTypeOK /\ DeadKeysUntrusted /\ TrustIsRooted

\* No batch leaves an agent that had a trust root without one, not even when
\* pins sign each other's revocation and all of it arrives at once; nor does
\* a restart on the file.
RootNeverLost ==
  [][/\ disk.pinned # {} => disk'.pinned # {}
     /\ id.pinned # {} => id'.pinned # {} \/ Connects]_trustVars

\* A pin goes only by a pinned key's signed revocation, leaving a tombstone;
\* a tombstone goes, or changes its instant, only by a pinned key's signed
\* un-revoke of exactly that instant.
Moves ==
  /\ \A k \in id.pinned \ id'.pinned :
       /\ \E s \in id.pinned, at \in 1..MaxAt : <<s, k, at>> \in revoked
       /\ id'.tomb[k] # 0
  /\ \A k \in Tombstoned(id) : id'.tomb[k] # id.tomb[k] =>
       \E s \in id.pinned : <<s, k, id.tomb[k]>> \in unrevoked

\* Whatever a batch claims, in whatever order, trust is lost and regained by
\* pinned keys' signatures only; a restart may fall back on the file.
TrustMovesBySignature == [][Moves \/ Connects]_trustVars
=============================================================================
