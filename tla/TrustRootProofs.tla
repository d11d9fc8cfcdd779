-------------------------- MODULE TrustRootProofs ---------------------------
(***************************************************************************)
(* The trust root's safety for any number of keys, statements and batches. *)
(***************************************************************************)
EXTENDS TrustRoot, TLAPS

\* The parts of a batch, as TrustNext takes them from what was signed.
LEMMA NextCases ==
  ASSUME [TrustNext]_trustVars
  PROVE  \/ \E e, k \in Keys : signEndorsement(e, k)
         \/ \E s, k \in Keys, at \in 1..MaxAt : signRevocation(s, k, at)
         \/ \E s, k \in Keys, at \in 1..MaxAt : signUnrevoke(s, k, at)
         \/ \E L \in SUBSET Keys, E \in SUBSET endorsed, R \in SUBSET revoked,
               U \in SUBSET unrevoked, saves \in BOOLEAN : poll(L, E, R, U, saves)
         \/ \E saves \in BOOLEAN : connect(saves)
         \/ UNCHANGED trustVars
  BY DEF TrustNext

LEMMA IdentityFields ==
  ASSUME NEW i \in Identity
  PROVE  /\ i.pinned \subseteq Keys /\ i.tomb \in [Keys -> 0..MaxAt]
         /\ i.admitted \in [Keys -> Keys \cup {None, "tofu"}] /\ i.tofuAt \in BOOLEAN
         /\ i = [pinned |-> i.pinned, tomb |-> i.tomb, admitted |-> i.admitted, tofuAt |-> i.tofuAt]
  BY DEF Identity

-----------------------------------------------------------------------------
(* What the parts of a batch do to an identity *)

Revocations == SUBSET (Keys \X Keys \X (1..MaxAt))

\* c is what the claims U and R leave of i when the pins S are spared.
ClaimsAre(i, U, R, S, c) ==
  /\ c \in Identity
  /\ c.pinned = i.pinned \ (ProvenKeys(i, R) \ S)
  /\ \A k \in Keys : c.tomb[k] = TombOf(i, U, R, ProvenKeys(i, R) \ S, k)

LEMMA ClaimedFields ==
  ASSUME NEW i \in Identity, NEW U, NEW R \in Revocations, NEW S
  PROVE  ClaimsAre(i, U, R, S, Claimed(i, U, R, S))
<1> DEFINE D == ProvenKeys(i, R) \ S
<1>1. ASSUME NEW k \in Keys PROVE TombOf(i, U, R, D, k) \in 0..MaxAt
  <2>1. CASE k \in Tombstoned(i) \ Cleared(i, U)
    BY <2>1 DEF TombOf, Identity
  <2>2. CASE k \notin Tombstoned(i) \ Cleared(i, U) /\ k \in D
    <3>1. PICK r \in Proven(i, R) : r[2] = k
      BY <2>2 DEF ProvenKeys
    <3>2. r[3] \in 1..MaxAt
      BY <3>1 DEF Proven, Revocations
    <3>3. (CHOOSE at \in 1..MaxAt : \E x \in Proven(i, R) : x[2] = k /\ x[3] = at) \in 1..MaxAt
      BY <3>1, <3>2
    <3> QED
      BY <2>2, <3>3 DEF TombOf
  <2>3. CASE k \notin Tombstoned(i) \ Cleared(i, U) /\ k \notin D
    BY <2>3, TrustRootAssumption DEF TombOf
  <2> QED
    BY <2>1, <2>2, <2>3
<1> DEFINE T == [k \in Keys |-> TombOf(i, U, R, D, k)]
           A == [k \in Keys |-> IF k \in D THEN None ELSE i.admitted[k]]
<1>2. T \in [Keys -> 0..MaxAt] /\ A \in [Keys -> Keys \cup {None, "tofu"}]
  BY <1>1, IdentityFields
<1>3. Claimed(i, U, R, S) = [pinned |-> i.pinned \ D, tomb |-> T, admitted |-> A,
                             tofuAt |-> i.tofuAt]
  BY DEF Claimed
<1>4. \A k \in Keys : T[k] = TombOf(i, U, R, D, k)
  OBVIOUS
<1>5. i.pinned \ D \in SUBSET Keys /\ i.tofuAt \in BOOLEAN
  BY IdentityFields
<1> HIDE DEF D, T, A
<1>6. Claimed(i, U, R, S) \in Identity
  BY <1>2, <1>3, <1>5 DEF Identity
<1>7. Claimed(i, U, R, S).pinned = i.pinned \ D /\ Claimed(i, U, R, S).tomb = T
  BY <1>3
<1> QED
  BY <1>4, <1>6, <1>7 DEF D, ClaimsAre

LEMMA AdoptFields ==
  ASSUME NEW i \in Identity, NEW C \in SUBSET Keys
  PROVE  /\ FirstUse(i, C) \in Identity
         /\ FirstUse(i, C).pinned = C /\ FirstUse(i, C).tomb = i.tomb
<1> DEFINE A == [k \in Keys |-> IF k \in C THEN "tofu" ELSE i.admitted[k]]
<1>1. A \in [Keys -> Keys \cup {None, "tofu"}]
  BY IdentityFields
<1>2. FirstUse(i, C) = [pinned |-> C, tomb |-> i.tomb, admitted |-> A, tofuAt |-> TRUE]
  BY DEF FirstUse
<1> HIDE DEF A
<1> QED
  BY <1>1, <1>2, IdentityFields DEF Identity

LEMMA ChainFields ==
  ASSUME NEW i \in Identity, NEW C \in SUBSET Keys, NEW E, NEW Q, Q \subseteq C,
         ChainAdopts(i, C, E, Q)
  PROVE  /\ Chained(i, E, Q) \in Identity
         /\ Chained(i, E, Q).pinned = i.pinned \cup Q /\ Chained(i, E, Q).tomb = i.tomb
<1> DEFINE A == [k \in Keys |-> IF k \in Q THEN CHOOSE e \in Keys : <<e, k>> \in E
                                ELSE i.admitted[k]]
<1>1. ASSUME NEW k \in Q PROVE \E e \in Keys : <<e, k>> \in E
  <2>1. {k} \in SUBSET Q /\ {k} # {}
    BY <1>1
  <2>2. PICK j \in {k}, e \in i.pinned \cup (Q \ {k}) : <<e, j>> \in E
    BY <2>1 DEF ChainAdopts
  <2> QED
    BY <2>2, IdentityFields
<1>2. A \in [Keys -> Keys \cup {None, "tofu"}]
  BY <1>1, IdentityFields
<1>3. Chained(i, E, Q) = [pinned |-> i.pinned \cup Q, tomb |-> i.tomb, admitted |-> A,
                          tofuAt |-> i.tofuAt]
  BY DEF Chained
<1> HIDE DEF A
<1> QED
  BY <1>2, <1>3, IdentityFields DEF Identity

LEMMA SeededFields ==
  ASSUME TrustTypeOK, NEW i \in Identity
  PROVE  /\ Seeded(i) \in Identity /\ Seeded(i).tomb = i.tomb
         /\ Seeded(i).pinned = (i.pinned \cup seed) \ (seed \cap Tombstoned(i))
<1>1. (i.pinned \cup seed) \ (seed \cap Tombstoned(i)) \in SUBSET Keys
  BY IdentityFields DEF TrustTypeOK
<1> QED
  BY <1>1 DEF Identity, Seeded

-----------------------------------------------------------------------------
(* One batch *)

Clean(i) == i.pinned \cap Tombstoned(i) = {}

\* T holds the roots and follows every endorsement.
Rooting(T) ==
  /\ seed \cup tofu \subseteq T
  /\ \A x \in endorsed : x[1] \in T => x[2] \in T

RootedIn(i) == \A T \in SUBSET Keys : Rooting(T) => i.pinned \subseteq T

Kept(R, S) == id.pinned \ (ProvenKeys(id, R) \ S)

\* Every key of Q hangs on a pin that was kept, through keys of Q.
Grounded(E, R, S, Q) ==
  \A X \in SUBSET Q : X # {} => \E k \in X, e \in Kept(R, S) \cup (Q \ X) : <<e, k>> \in E

\* The identity a poll leaves: what survives the claims, plus a set Q of new,
\* untombstoned keys adopted on first use or along the chain.
PollsTo(E, R, U, S, Q) ==
  /\ id' \in Identity
  /\ id'.pinned = Kept(R, S) \cup Q
  /\ \A k \in Keys : id'.tomb[k] = TombOf(id, U, R, ProvenKeys(id, R) \ S, k)
  /\ \A k \in Q : id'.tomb[k] = 0
  /\ tofu' = tofu \cup Q \/ (tofu' = tofu /\ Grounded(E, R, S, Q))

LEMMA PollResult ==
  ASSUME TrustTypeOK, NEW L \in SUBSET Keys, NEW E \in SUBSET endorsed, NEW R \in SUBSET revoked,
         NEW U \in SUBSET unrevoked, NEW saves \in BOOLEAN, poll(L, E, R, U, saves)
  PROVE  \E S \in Spares(id, ProvenKeys(id, R)), Q \in SUBSET Keys :
           PollsTo(E, R, U, S, Q)
<1>0. id \in Identity /\ R \in Revocations
  BY DEF TrustTypeOK, Revocations
<1>1. PICK S \in Spares(id, ProvenKeys(id, R)) :
        LET c == Claimed(id, U, R, S)
            C == Adoptable(c, Advisory(id, R)) \cap L
        IN IF c.pinned = {} /\ ~c.tofuAt /\ C # {}
           THEN id' = FirstUse(c, C) /\ tofu' = tofu \cup C
           ELSE /\ \E Q \in SUBSET C : ChainAdopts(c, C, E, Q) /\ id' = Chained(c, E, Q)
                /\ tofu' = tofu
  BY Zenon DEF poll
<1> DEFINE c == Claimed(id, U, R, S)
           C == Adoptable(c, Advisory(id, R)) \cap L
<1>2. /\ c \in Identity
      /\ c.pinned = Kept(R, S)
      /\ \A k \in Keys : c.tomb[k] = TombOf(id, U, R, ProvenKeys(id, R) \ S, k)
  <2>1. ClaimsAre(id, U, R, S, c)
    BY <1>0, ClaimedFields
  <2> QED
    BY <2>1 DEF Kept, ClaimsAre
<1>3. C \in SUBSET Keys /\ \A k \in C : c.tomb[k] = 0
  BY DEF Adoptable, Tombstoned
<1>4. \/ c.pinned = {} /\ id' = FirstUse(c, C) /\ tofu' = tofu \cup C
      \/ /\ \E Q \in SUBSET C : ChainAdopts(c, C, E, Q) /\ id' = Chained(c, E, Q)
         /\ tofu' = tofu
  BY <1>1
<1> HIDE DEF c, C
<1>5. CASE c.pinned = {} /\ id' = FirstUse(c, C) /\ tofu' = tofu \cup C
  <2>1. id' \in Identity /\ id'.pinned = C /\ id'.tomb = c.tomb
    BY <1>2, <1>3, <1>5, AdoptFields
  <2>2. id'.pinned = Kept(R, S) \cup C
    BY <1>2, <1>5, <2>1
  <2>3. /\ \A k \in Keys : id'.tomb[k] = TombOf(id, U, R, ProvenKeys(id, R) \ S, k)
        /\ \A k \in C : id'.tomb[k] = 0
    BY <1>2, <1>3, <2>1
  <2> QED
    BY <1>3, <1>5, <2>1, <2>2, <2>3 DEF PollsTo
<1>6. CASE /\ \E Q \in SUBSET C : ChainAdopts(c, C, E, Q) /\ id' = Chained(c, E, Q)
           /\ tofu' = tofu
  <2>1. PICK Q \in SUBSET C : ChainAdopts(c, C, E, Q) /\ id' = Chained(c, E, Q)
    BY <1>6
  <2>2. id' \in Identity /\ id'.pinned = c.pinned \cup Q /\ id'.tomb = c.tomb
    <3>1. PICK i \in Identity, D \in SUBSET Keys : i = c /\ D = C
      BY <1>2, <1>3
    <3>2. Q \subseteq D /\ ChainAdopts(i, D, E, Q)
      BY <2>1, <3>1
    <3>3. /\ Chained(i, E, Q) \in Identity
          /\ Chained(i, E, Q).pinned = i.pinned \cup Q /\ Chained(i, E, Q).tomb = i.tomb
      BY <3>2, ChainFields
    <3> QED
      BY <2>1, <3>1, <3>3
  <2>3. /\ \A k \in Keys : id'.tomb[k] = TombOf(id, U, R, ProvenKeys(id, R) \ S, k)
        /\ \A k \in Q : id'.tomb[k] = 0
    BY <1>2, <1>3, <2>1, <2>2
  <2>4. Grounded(E, R, S, Q)
    BY <1>2, <2>1 DEF ChainAdopts, Grounded
  <2>5. Q \in SUBSET Keys
    BY <1>3, <2>1
  <2> QED
    BY <1>2, <1>6, <2>2, <2>3, <2>4, <2>5 DEF PollsTo
<1> QED
  BY <1>4, <1>5, <1>6

LEMMA PollKeepsClean ==
  ASSUME TrustTypeOK, Clean(id), NEW L \in SUBSET Keys, NEW E \in SUBSET endorsed,
         NEW R \in SUBSET revoked, NEW U \in SUBSET unrevoked, NEW saves \in BOOLEAN,
         poll(L, E, R, U, saves)
  PROVE  Clean(id)'
<1>1. PICK S \in Spares(id, ProvenKeys(id, R)), Q \in SUBSET Keys :
        PollsTo(E, R, U, S, Q)
  BY PollResult
<1>2. ASSUME NEW k \in id.pinned, k \notin ProvenKeys(id, R) \ S PROVE id'.tomb[k] = 0
  <2>1. k \in Keys /\ k \notin Tombstoned(id)
    BY <1>2 DEF TrustTypeOK, Identity, Clean
  <2> QED
    BY <1>1, <1>2, <2>1 DEF PollsTo, TombOf
<1>3. \A k \in id'.pinned : id'.tomb[k] = 0
  BY <1>1, <1>2 DEF PollsTo, Kept
<1> QED
  BY <1>3 DEF Clean, Tombstoned

\* Chain adoption stays within every set that holds the pins and follows the
\* endorsements: otherwise the adopted keys outside it would hang on nothing.
LEMMA PollKeepsRooted ==
  ASSUME TrustTypeOK, RootedIn(id), NEW L \in SUBSET Keys, NEW E \in SUBSET endorsed,
         NEW R \in SUBSET revoked, NEW U \in SUBSET unrevoked, NEW saves \in BOOLEAN,
         poll(L, E, R, U, saves)
  PROVE  RootedIn(id)' /\ tofu \subseteq tofu' /\ tofu' \subseteq Keys
<1>1. PICK S \in Spares(id, ProvenKeys(id, R)), Q \in SUBSET Keys :
        PollsTo(E, R, U, S, Q)
  BY PollResult
<1>2. seed' = seed /\ endorsed' = endorsed
  BY DEF poll, signed
<1>3. tofu \subseteq tofu' /\ tofu' \subseteq Keys
  BY <1>1 DEF TrustTypeOK, PollsTo
<1>4. ASSUME NEW T \in SUBSET Keys, Rooting(T)' PROVE id'.pinned \subseteq T
  <2>1. id.pinned \subseteq T
    BY <1>2, <1>3, <1>4 DEF Rooting, RootedIn
  <2>2. CASE tofu' = tofu \cup Q
    BY <1>1, <1>4, <2>1, <2>2 DEF Rooting, PollsTo, Kept
  <2>3. CASE Grounded(E, R, S, Q)
    <3>1. SUFFICES ASSUME Q \ T # {} PROVE FALSE
      BY <1>1, <2>1 DEF PollsTo, Kept
    <3>2. PICK k \in Q \ T, e \in id.pinned \cup (Q \ (Q \ T)) : <<e, k>> \in E
      <4>1. Q \ T \in SUBSET Q
        OBVIOUS
      <4> QED
        BY <2>3, <3>1, <4>1 DEF Grounded, Kept
    <3>3. e \in T
      BY <2>1, <3>2
    <3>4. <<e, k>> \in endorsed /\ <<e, k>>[1] = e /\ <<e, k>>[2] = k
      BY <3>2
    <3> QED
      BY <1>2, <1>4, <3>2, <3>3, <3>4 DEF Rooting
  <2> QED
    BY <1>1, <2>2, <2>3 DEF PollsTo
<1> QED
  BY <1>3, <1>4 DEF RootedIn

LEMMA PollKeepsRoot ==
  ASSUME TrustTypeOK, NEW L \in SUBSET Keys, NEW E \in SUBSET endorsed, NEW R \in SUBSET revoked,
         NEW U \in SUBSET unrevoked, NEW saves \in BOOLEAN, poll(L, E, R, U, saves),
         id.pinned # {}
  PROVE  id'.pinned # {}
<1>1. PICK S \in Spares(id, ProvenKeys(id, R)), Q \in SUBSET Keys :
        PollsTo(E, R, U, S, Q)
  BY PollResult
<1>2. CASE id.pinned \subseteq ProvenKeys(id, R)
  <2>1. PICK k \in id.pinned : S = {k}
    BY <1>2 DEF Spares
  <2> QED
    BY <1>1, <2>1 DEF PollsTo, Kept
<1>3. CASE ~(id.pinned \subseteq ProvenKeys(id, R))
  BY <1>1, <1>3 DEF PollsTo, Kept
<1> QED
  BY <1>2, <1>3

-----------------------------------------------------------------------------
(* The inductive invariant *)

\* While the process runs, a root in its file is a root in its memory: what a
\* save writes never forgets the root the file had.
FileRootHeld == up /\ disk.pinned # {} => id.pinned # {}

SafeInv ==
  /\ TrustTypeOK
  /\ Clean(id) /\ Clean(disk)
  /\ RootedIn(id) /\ RootedIn(disk)
  /\ FileRootHeld

LEMMA SafeInit == TrustInit => SafeInv
<1> SUFFICES ASSUME TrustInit PROVE SafeInv
  OBVIOUS
<1> DEFINE Z == [k \in Keys |-> 0]
           A == [k \in Keys |-> None]
<1>1. Z \in [Keys -> 0..MaxAt] /\ A \in [Keys -> Keys \cup {None, "tofu"}]
  BY TrustRootAssumption
<1>2. NewIdentity = [pinned |-> {}, tomb |-> Z, admitted |-> A, tofuAt |-> FALSE]
  BY DEF NewIdentity
<1> HIDE DEF Z, A
<1>3. NewIdentity \in Identity /\ NewIdentity.pinned = {}
  BY <1>1, <1>2 DEF Identity
<1>4. TrustTypeOK
  BY <1>3 DEF TrustInit, TrustTypeOK
<1>5. id.pinned = {} /\ disk.pinned = {}
  BY <1>3 DEF TrustInit
<1> QED
  BY <1>4, <1>5 DEF SafeInv, Clean, RootedIn, FileRootHeld

\* A new signature only makes it harder to be a rooting set.
LEMMA SigningKeepsSafe ==
  ASSUME SafeInv,
         \/ \E e, k \in Keys : signEndorsement(e, k)
         \/ \E s, k \in Keys, at \in 1..MaxAt : signRevocation(s, k, at)
         \/ \E s, k \in Keys, at \in 1..MaxAt : signUnrevoke(s, k, at)
  PROVE  SafeInv' /\ UNCHANGED <<id, disk>>
<1>1. UNCHANGED <<seed, id, disk, up, tofu>>
  BY DEF signEndorsement, signRevocation, signUnrevoke
<1>2. /\ endorsed \subseteq endorsed' /\ endorsed' \subseteq Keys \X Keys
      /\ revoked' \subseteq Keys \X Keys \X (1..MaxAt)
      /\ unrevoked' \subseteq Keys \X Keys \X (1..MaxAt)
  BY DEF signEndorsement, signRevocation, signUnrevoke, SafeInv, TrustTypeOK
<1>3. TrustTypeOK'
  BY <1>1, <1>2 DEF SafeInv, TrustTypeOK
<1>4. ASSUME NEW T \in SUBSET Keys, Rooting(T)' PROVE Rooting(T)
  BY <1>1, <1>2, <1>4 DEF Rooting
<1>5. RootedIn(id)' /\ RootedIn(disk)'
  BY <1>1, <1>4 DEF SafeInv, RootedIn
<1> QED
  BY <1>1, <1>3, <1>5 DEF SafeInv, Clean, Tombstoned, FileRootHeld

LEMMA ConnectKeepsSafe ==
  ASSUME SafeInv, NEW saves \in BOOLEAN, connect(saves)
  PROVE  SafeInv' /\ (disk.pinned # {} => disk'.pinned # {})
<1> DEFINE i == Seeded(disk)
<1>1. UNCHANGED <<endorsed, revoked, unrevoked, seed, tofu>>
  BY DEF connect, signed
<1>2. i \in Identity /\ i.tomb = disk.tomb
      /\ i.pinned = (disk.pinned \cup seed) \ (seed \cap Tombstoned(disk))
  BY SeededFields DEF SafeInv, TrustTypeOK
<1>3. id' \in {disk, i} /\ disk' \in {disk, i} /\ up' \in BOOLEAN /\ (up' => id' = disk')
  BY DEF connect
<1> HIDE DEF i
<1>4. TrustTypeOK'
  BY <1>1, <1>2, <1>3 DEF SafeInv, TrustTypeOK
<1>5. Clean(i)
  BY <1>2 DEF SafeInv, Clean, Tombstoned
<1>6. Clean(id)' /\ Clean(disk)'
  BY <1>3, <1>5 DEF SafeInv, Clean, Tombstoned
<1>7. RootedIn(i)
  BY <1>2 DEF SafeInv, RootedIn, Rooting
<1>8. RootedIn(id)' /\ RootedIn(disk)'
  BY <1>1, <1>3, <1>7 DEF SafeInv, RootedIn, Rooting
<1>9. disk.pinned \subseteq disk'.pinned
  BY <1>2, <1>3 DEF SafeInv, Clean
<1> QED
  BY <1>3, <1>4, <1>6, <1>8, <1>9 DEF SafeInv, FileRootHeld

LEMMA PollKeepsSafe ==
  ASSUME SafeInv, NEW L \in SUBSET Keys, NEW E \in SUBSET endorsed, NEW R \in SUBSET revoked,
         NEW U \in SUBSET unrevoked, NEW saves \in BOOLEAN, poll(L, E, R, U, saves)
  PROVE  /\ SafeInv'
         /\ disk.pinned # {} => disk'.pinned # {}
         /\ id.pinned # {} => id'.pinned # {}
<1>1. TrustTypeOK /\ Clean(id) /\ RootedIn(id)
  BY DEF SafeInv
<1>2. /\ UNCHANGED <<endorsed, revoked, unrevoked, seed, up>> /\ up
      /\ disk' \in {disk, id'}
  BY DEF poll, signed
<1>3. id' \in Identity
  BY <1>1, PollResult DEF PollsTo
<1>4. Clean(id)'
  BY <1>1, PollKeepsClean
<1>5. RootedIn(id)' /\ tofu \subseteq tofu' /\ tofu' \subseteq Keys
  BY <1>1, PollKeepsRooted
<1>6. id.pinned # {} => id'.pinned # {}
  BY <1>1, PollKeepsRoot
<1>7. TrustTypeOK'
  BY <1>1, <1>2, <1>3, <1>5 DEF TrustTypeOK
<1>8. Clean(disk)'
  BY <1>2, <1>4 DEF SafeInv, Clean, Tombstoned
<1>9. RootedIn(disk)'
  BY <1>2, <1>5 DEF SafeInv, RootedIn, Rooting
<1>10. disk.pinned # {} => id.pinned # {}
  BY <1>2 DEF SafeInv, FileRootHeld
<1>11. /\ disk.pinned # {} => disk'.pinned # {}
       /\ FileRootHeld'
  BY <1>2, <1>6, <1>10 DEF FileRootHeld
<1> QED
  BY <1>4, <1>5, <1>6, <1>7, <1>8, <1>9, <1>11 DEF SafeInv

\* One step of the specification keeps the invariant and the root.
LEMMA SafeStep ==
  ASSUME SafeInv, [TrustNext]_trustVars
  PROVE  /\ SafeInv'
         /\ disk.pinned # {} => disk'.pinned # {}
         /\ id.pinned # {} => id'.pinned # {} \/ Connects
<1>1. CASE \/ \E e, k \in Keys : signEndorsement(e, k)
           \/ \E s, k \in Keys, at \in 1..MaxAt : signRevocation(s, k, at)
           \/ \E s, k \in Keys, at \in 1..MaxAt : signUnrevoke(s, k, at)
  BY <1>1, SigningKeepsSafe
<1>2. CASE \E L \in SUBSET Keys, E \in SUBSET endorsed, R \in SUBSET revoked,
              U \in SUBSET unrevoked, saves \in BOOLEAN : poll(L, E, R, U, saves)
  BY <1>2, PollKeepsSafe
<1>3. CASE \E saves \in BOOLEAN : connect(saves)
  BY <1>3, ConnectKeepsSafe DEF Connects
<1>4. CASE UNCHANGED trustVars
  BY <1>4 DEF trustVars, SafeInv, TrustTypeOK, Clean, Tombstoned, RootedIn, Rooting, FileRootHeld
<1> QED
  BY <1>1, <1>2, <1>3, <1>4, NextCases

LEMMA PollMovesBySignature ==
  ASSUME SafeInv, NEW L \in SUBSET Keys, NEW E \in SUBSET endorsed, NEW R \in SUBSET revoked,
         NEW U \in SUBSET unrevoked, NEW saves \in BOOLEAN, poll(L, E, R, U, saves)
  PROVE  Moves
<1>0. TrustTypeOK /\ Clean(id)
  BY DEF SafeInv
<1>1. PICK S \in Spares(id, ProvenKeys(id, R)), Q \in SUBSET Keys :
        PollsTo(E, R, U, S, Q)
  BY <1>0, PollResult
<1> DEFINE D == ProvenKeys(id, R) \ S
<1>2. ASSUME NEW k \in id.pinned \ id'.pinned
      PROVE  /\ \E s \in id.pinned, at \in 1..MaxAt : <<s, k, at>> \in revoked
             /\ id'.tomb[k] # 0
  <2>1. k \in D /\ k \in Keys /\ k \notin Tombstoned(id)
    BY <1>0, <1>1, <1>2 DEF PollsTo, Kept, TrustTypeOK, Identity, Clean
  <2>2. PICK r \in Proven(id, R) : r[2] = k
    BY <2>1 DEF ProvenKeys
  <2>3. r \in Keys \X Keys \X (1..MaxAt) /\ r \in revoked /\ r[1] \in id.pinned
    BY <1>0, <2>2 DEF Proven, TrustTypeOK
  <2>4. r = <<r[1], k, r[3]>> /\ r[3] \in 1..MaxAt
    BY <2>2, <2>3
  <2> DEFINE a == CHOOSE at \in 1..MaxAt : \E x \in Proven(id, R) : x[2] = k /\ x[3] = at
  <2>5. a \in 1..MaxAt
    BY <2>2, <2>4
  <2>6. id'.tomb[k] = a
    BY <1>1, <2>1 DEF PollsTo, TombOf
  <2> HIDE DEF a
  <2>7. id'.tomb[k] # 0
    BY <2>5, <2>6
  <2> QED
    BY <2>3, <2>4, <2>7
<1>3. ASSUME NEW k \in Tombstoned(id), id'.tomb[k] # id.tomb[k]
      PROVE  \E s \in id.pinned : <<s, k, id.tomb[k]>> \in unrevoked
  <2>1. k \in Keys /\ k \in Cleared(id, U)
    BY <1>1, <1>3 DEF PollsTo, TombOf, Tombstoned
  <2>2. PICK u \in U : u[2] = k /\ u[1] \in id.pinned /\ id.tomb[u[2]] = u[3]
    BY <2>1 DEF Cleared
  <2>3. u \in Keys \X Keys \X (1..MaxAt) /\ u \in unrevoked
    BY <1>0, <2>2 DEF TrustTypeOK
  <2>4. u = <<u[1], k, id.tomb[k]>>
    BY <2>2, <2>3
  <2> QED
    BY <2>2, <2>3, <2>4
<1> QED
  BY <1>2, <1>3 DEF Moves

LEMMA StepMovesBySignature ==
  ASSUME SafeInv, [TrustNext]_trustVars
  PROVE  Moves \/ Connects
<1>1. CASE \E L \in SUBSET Keys, E \in SUBSET endorsed, R \in SUBSET revoked,
              U \in SUBSET unrevoked, saves \in BOOLEAN : poll(L, E, R, U, saves)
  BY <1>1, PollMovesBySignature
<1>2. CASE UNCHANGED id
  BY <1>2 DEF Moves
<1> QED
  BY <1>1, <1>2, NextCases
     DEF signEndorsement, signRevocation, signUnrevoke, Connects, trustVars

\* The invariant holds throughout.
THEOREM TrustRootSafe == TrustSpec => []SafeInv
  BY SafeInit, SafeStep, PTL DEF TrustSpec

\* Memory, file and history keep their types.
THEOREM TrustRootTypeOK == TrustSpec => []TrustTypeOK
<1>1. SafeInv => TrustTypeOK
  BY DEF SafeInv
<1> QED
  BY <1>1, TrustRootSafe, PTL

\* No key is ever trusted and tombstoned at once, in memory or on disk, for
\* any number of keys and any history of signatures, lists and restarts.
THEOREM DeadKeysStayUntrusted == TrustSpec => []DeadKeysUntrusted
<1>1. SafeInv => DeadKeysUntrusted
  BY DEF SafeInv, Clean, DeadKeysUntrusted
<1> QED
  BY <1>1, TrustRootSafe, PTL

\* Every pinned key hangs by operators' signatures on the configured seed or
\* on a key adopted on first use.
THEOREM TrustStaysRooted == TrustSpec => []TrustIsRooted
<1>1. SafeInv => TrustIsRooted
  BY DEF SafeInv, RootedIn, Rooting, TrustIsRooted
<1> QED
  BY <1>1, TrustRootSafe, PTL

\* No batch and no restart leaves an agent that had a trust root without one.
THEOREM RootStays == TrustSpec => RootNeverLost
<1>1. SafeInv /\ [TrustNext]_trustVars
        => [/\ disk.pinned # {} => disk'.pinned # {}
            /\ id.pinned # {} => id'.pinned # {} \/ Connects]_trustVars
  BY SafeStep
<1> QED
  BY <1>1, TrustRootSafe, PTL DEF TrustSpec, RootNeverLost

\* Trust moves by signature only: no unsigned claim, list order, failed save
\* or repeated batch unpins a key or clears a tombstone.
THEOREM TrustMovesSigned == TrustSpec => TrustMovesBySignature
<1>1. SafeInv /\ [TrustNext]_trustVars => [Moves \/ Connects]_trustVars
  BY StepMovesBySignature
<1> QED
  BY <1>1, TrustRootSafe, PTL DEF TrustSpec, TrustMovesBySignature

\* Memory and file never pin a tombstoned key nor a key without a root, for
\* any number of keys, instants, batches, failed saves and restarts.
THEOREM TrustStaysSound == TrustSpec => []TrustSound
<1>1. TrustTypeOK /\ DeadKeysUntrusted /\ TrustIsRooted => TrustSound
  BY DEF TrustSound
<1> QED
  BY TrustRootTypeOK, DeadKeysStayUntrusted, TrustStaysRooted, <1>1, PTL
=============================================================================
