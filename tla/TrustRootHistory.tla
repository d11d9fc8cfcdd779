------------------------- MODULE TrustRootHistory ---------------------------
(***************************************************************************)
(* TrustRoot with a memory of the revocations the agent honoured: the      *)
(* identity file keeps one instant per key and cannot tell.                *)
(***************************************************************************)
EXTENDS TrustRoot, TLC

VARIABLE honoured  \* the latest revocation of each key the agent honoured

historyVars == <<trustVars, honoured>>

KeySymmetry == Permutations(Keys)

\* The instant of k's proven revocation in this batch, when it is news and
\* was not refused for being the last root's.
HonouredAt(R, k) ==
  LET later == {r[3] : r \in {x \in Proven(id, R) : x[2] = k /\ x[3] > honoured[k]}}
  IN IF later # {} /\ id'.tomb[k] # 0 THEN CHOOSE at \in later : TRUE ELSE honoured[k]

HistoryInit == TrustInit /\ honoured = [k \in Keys |-> 0]

HistoryNext ==
  \/ /\ \/ \E e, k \in Keys : signEndorsement(e, k)
        \/ \E s, k \in Keys, at \in 1..MaxAt : signRevocation(s, k, at) \/ signUnrevoke(s, k, at)
        \/ Connects
     /\ UNCHANGED honoured
  \/ \E L \in SUBSET (Keys \ id.pinned) :
     \E E \in SUBSET {x \in endorsed : x[2] \in L}, R \in SUBSET revoked,
        U \in SUBSET {x \in unrevoked : x[2] \in Tombstoned(id)}, saves \in BOOLEAN :
       /\ OnePerKey(E) /\ OnePerKey(R) /\ OnePerKey(U)
       /\ poll(L, E, R, U, saves)
       /\ honoured' = [k \in Keys |-> HonouredAt(R, k)]

HistorySpec == HistoryInit /\ [][HistoryNext]_historyVars

\* The comment on the compare-and-swap (#52): an un-revoke captured for an
\* old revocation does not undo a newer one the agent has honoured since.
NewerRevocationStands ==
  [][\A k \in Tombstoned(id) :
       id'.tomb[k] = 0 => id.tomb[k] >= honoured[k] \/ Connects]_historyVars
=============================================================================
