--------------------------- MODULE AutoReplyProofs ---------------------------
(***************************************************************************)
(* The auto-reply loop for any messages, conversations, budgets and caps,  *)
(* and a stop at any await.                                                *)
(***************************************************************************)
EXTENDS AutoReply, FiniteSetTheorems, SequenceTheorems, TLAPS

-----------------------------------------------------------------------------
(* Sequences *)

LEMMA FunctionIsSeq ==
  ASSUME NEW n \in Nat, NEW S, NEW f \in [1..n -> S]
  PROVE  f \in Seq(S) /\ Len(f) = n /\ DOMAIN f = 1..n
<1>1. f \in Seq(S)
  BY SeqDef
<1>2. Len(f) \in Nat /\ DOMAIN f = 1..Len(f)
  BY <1>1, LenProperties
<1>3. 1..Len(f) = 1..n
  BY <1>2
<1>4. Len(f) = n
  <2>1. PICK l \in Nat : l = Len(f)
    BY <1>2
  <2>2. \A k \in Int : k \in 1..l <=> k \in 1..n
    BY <1>3, <2>1
  <2>3. (l <= n) /\ (n <= l)
    BY <2>2
  <2> QED
    BY <2>1, <2>3
<1> QED
  BY <1>1, <1>4

\* The place of i among the members of K.
Place(K, i) == Cardinality({j \in K : j <= i})

\* The members of a set of numbers have the places 1, 2, ..., each once.
LEMMA Places ==
  ASSUME NEW n \in Nat, NEW K \in SUBSET (1..n)
  PROVE  /\ IsFiniteSet(K) /\ Cardinality(K) \in Nat
         /\ \A i \in K : Place(K, i) \in 1..Cardinality(K)
         /\ \A i, j \in K : Place(K, i) = Place(K, j) => i = j
         /\ \A k \in 1..Cardinality(K) : \E i \in K : Place(K, i) = k
<1>1. IsFiniteSet(K) /\ Cardinality(K) \in Nat
  <2>1. PICK I : I = 1..n
    OBVIOUS
  <2>2. IsFiniteSet(I)
    BY <2>1, FS_Interval
  <2>3. IsFiniteSet(K)
    BY <2>1, <2>2, FS_Subset
  <2> QED
    BY <2>3, FS_CardinalityType
<1>2. ASSUME NEW i \in K
      PROVE  IsFiniteSet({j \in K : j <= i}) /\ Place(K, i) \in 1..Cardinality(K)
  <2>1. PICK L \in SUBSET K : L = {j \in K : j <= i}
    OBVIOUS
  <2>2. IsFiniteSet(L) /\ Cardinality(L) <= Cardinality(K) /\ Cardinality(L) \in Nat
    BY <1>1, FS_Subset, FS_CardinalityType
  <2>3. i \in L
    BY <2>1
  <2>4. Cardinality(L) # 0
    BY <2>2, <2>3, FS_EmptySet
  <2> QED
    BY <1>1, <2>1, <2>2, <2>4 DEF Place
<1>3. ASSUME NEW i \in K, NEW j \in K, i < j PROVE Place(K, i) # Place(K, j)
  <2>1. PICK A \in SUBSET K, B \in SUBSET K : A = {k \in K : k <= i} /\ B = {k \in K : k <= j}
    OBVIOUS
  <2>2. B \in SUBSET K /\ IsFiniteSet(B)
    BY <1>1, <2>1, FS_Subset
  <2>3. \A k \in K : k \in Int
    OBVIOUS
  <2>4. \A k \in A : k \in B
    BY <1>3, <2>1, <2>3
  <2>5. j \in B /\ j \notin A
    BY <1>3, <2>1, <2>3
  <2>6. Cardinality(A) # Cardinality(B)
    BY <2>2, <2>4, <2>5, FS_Subset
  <2> QED
    BY <2>1, <2>6 DEF Place
<1>4. \A i, j \in K : Place(K, i) = Place(K, j) => i = j
  BY <1>3
<1>5. PICK T : T = 1..Cardinality(K)
  OBVIOUS
<1>6. IsFiniteSet(T) /\ Cardinality(T) = Cardinality(K)
  BY <1>1, <1>5, FS_Interval
<1>7. PICK p \in [K -> T] : \A i \in K : p[i] = Place(K, i)
  <2>1. [i \in K |-> Place(K, i)] \in [K -> T]
    BY <1>2, <1>5
  <2> QED
    BY <2>1
<1>8. p \in Injection(K, T)
  BY <1>4, <1>7 DEF Injection, IsInjective
<1>9. p \in Surjection(K, T)
  BY <1>6, <1>8, FS_Injection
<1>10. \A k \in T : \E i \in K : p[i] = k
  BY <1>9 DEF Surjection
<1> QED
  BY <1>1, <1>2, <1>4, <1>5, <1>7, <1>10

LEMMA Least ==
  ASSUME NEW n \in Nat, NEW S \in SUBSET (1..n), S # {}
  PROVE  \E i \in S : \A j \in S : i <= j
<1>1. /\ IsFiniteSet(S) /\ Cardinality(S) \in Nat
      /\ \A i \in S : Place(S, i) \in 1..Cardinality(S)
      /\ \A i, j \in S : Place(S, i) = Place(S, j) => i = j
      /\ \A k \in 1..Cardinality(S) : \E i \in S : Place(S, i) = k
  BY ONLY Places, n \in Nat, S \in SUBSET (1..n)
<1>2. 1 \in 1..Cardinality(S)
  <2>1. PICK k \in S : Place(S, k) \in 1..Cardinality(S)
    BY <1>1
  <2> QED
    BY <1>1, <2>1
<1>3. PICK i \in S : Place(S, i) = 1
  BY <1>1, <1>2
<1>4. \A j \in S : i <= j
  <2> SUFFICES ASSUME NEW j \in S, ~(i <= j) PROVE FALSE
    OBVIOUS
  <2>1. \A k \in S : k \in Int
    OBVIOUS
  <2>2. j <= i /\ j # i
    <3>1. i \in Int /\ j \in Int
      BY <2>1
    <3> QED
      BY <3>1
  <2>3. PICK A \in SUBSET S, B \in SUBSET S : A = {k \in S : k <= j} /\ B = {k \in S : k <= i}
    OBVIOUS
  <2>4. A \subseteq B
    <3>1. \A k \in S : k <= j => k <= i
      BY <2>1, <2>2
    <3> QED
      BY <2>3, <3>1
  <2>5. IsFiniteSet(B)
    BY <1>1, FS_Subset
  <2>6. Cardinality(A) <= Cardinality(B)
    BY <2>4, <2>5, FS_Subset
  <2>7. Place(S, j) = 1
    BY <1>1, <1>3, <2>3, <2>6 DEF Place
  <2> QED
    BY <1>1, <1>3, <2>2, <2>7
<1> QED
  BY <1>4

\* The numbers of a set, each once.
LEMMA InOrderIs ==
  ASSUME NEW n \in Nat, NEW S \in SUBSET (1..n)
  PROVE  /\ InOrder(S) \in Seq(S) /\ Len(InOrder(S)) = Cardinality(S)
         /\ IsFiniteSet(S) /\ Cardinality(S) \in Nat
         /\ DOMAIN InOrder(S) = 1..Cardinality(S)
         /\ \A i \in S : \E k \in 1..Cardinality(S) : InOrder(S)[k] = i
         /\ \A j, k \in 1..Cardinality(S) : InOrder(S)[j] = InOrder(S)[k] => j = k
<1>1. PICK c \in Nat : c = Cardinality(S) /\ IsFiniteSet(S)
  BY Places
<1>2. /\ \A i \in S : Place(S, i) \in 1..c
      /\ \A i, j \in S : Place(S, i) = Place(S, j) => i = j
      /\ \A k \in 1..c : \E i \in S : Place(S, i) = k
  BY <1>1, Places
<1>3. PICK f : f = InOrder(S)
  OBVIOUS
<1>4. f = [k \in 1..c |-> CHOOSE i \in S : Place(S, i) = k]
  BY <1>1, <1>3 DEF InOrder, Place
<1>5. \A k \in 1..c : f[k] \in S /\ Place(S, f[k]) = k
  BY <1>2, <1>4
<1>6. f \in Seq(S) /\ Len(f) = c /\ DOMAIN f = 1..c
  <2>1. f \in [1..c -> S]
    BY <1>4, <1>5
  <2> QED
    BY <2>1, FunctionIsSeq
<1>7. \A i \in S : \E k \in 1..c : f[k] = i
  BY <1>2, <1>5
<1>8. \A j, k \in 1..c : f[j] = f[k] => j = k
  BY <1>5
<1> QED
  BY <1>1, <1>3, <1>6, <1>7, <1>8

\* Only(s, K) has the entries of s at the places K, each once.
LEMMA OnlyIs ==
  ASSUME NEW T, NEW s \in Seq(T), NEW K \in SUBSET DOMAIN s
  PROVE  \E p \in [DOMAIN Only(s, K) -> K] :
           /\ Only(s, K) \in Seq(T) /\ Len(Only(s, K)) <= Len(s)
           /\ \A n \in DOMAIN Only(s, K) : Only(s, K)[n] = s[p[n]]
           /\ \A k \in K : \E n \in DOMAIN Only(s, K) : p[n] = k
           /\ \A m, n \in DOMAIN Only(s, K) : p[m] = p[n] => m = n
<1>1. PICK l \in Nat : l = Len(s) /\ DOMAIN s = 1..l
  OBVIOUS
<1>2. PICK c \in Nat, p \in Seq(K) :
        /\ p = InOrder(K) /\ c = Cardinality(K) /\ Len(p) = c /\ DOMAIN p = 1..c
        /\ \A i \in K : \E k \in 1..c : p[k] = i
        /\ \A j, k \in 1..c : p[j] = p[k] => j = k
  <2>1. K \in SUBSET (1..l)
    BY <1>1
  <2>2. PICK c \in Nat, p \in Seq(K) : p = InOrder(K) /\ c = Cardinality(K)
    BY <2>1, InOrderIs
  <2>3. /\ Len(p) = c /\ DOMAIN p = 1..c
        /\ \A i \in K : \E k \in 1..c : p[k] = i
        /\ \A j, k \in 1..c : p[j] = p[k] => j = k
    BY <2>1, <2>2, InOrderIs
  <2> QED
    BY <2>2, <2>3
<1>3. c <= l
  <2>1. PICK I : I = 1..l
    OBVIOUS
  <2>2. IsFiniteSet(I) /\ Cardinality(I) = l
    BY <2>1, FS_Interval
  <2>3. Cardinality(K) <= Cardinality(I)
    BY <1>1, <2>1, <2>2, FS_Subset
  <2> QED
    BY <1>2, <2>2, <2>3
<1>4. PICK f : f = Only(s, K)
  OBVIOUS
<1>5. f = [n \in 1..c |-> s[p[n]]]
  BY <1>2, <1>4 DEF Only
<1>6. \A n \in 1..c : p[n] \in K /\ s[p[n]] \in T
  BY <1>1, <1>2
<1>7. f \in Seq(T) /\ Len(f) = c /\ DOMAIN f = 1..c
  <2>1. f \in [1..c -> T]
    BY <1>5, <1>6
  <2> QED
    BY <2>1, FunctionIsSeq
<1>8. p \in [DOMAIN f -> K]
  BY <1>2, <1>7
<1> QED
  <2>1. /\ f \in Seq(T) /\ Len(f) <= Len(s)
        /\ \A n \in DOMAIN f : f[n] = s[p[n]]
        /\ \A k \in K : \E n \in DOMAIN f : p[n] = k
        /\ \A m, n \in DOMAIN f : p[m] = p[n] => m = n
    BY <1>1, <1>2, <1>3, <1>5, <1>7
  <2> QED
    BY ONLY <1>4, <1>8, <2>1

\* The last n entries.
LEMMA LastNIs ==
  ASSUME NEW T, NEW s \in Seq(T), NEW n \in Nat
  PROVE  \E d \in Nat :
           /\ LastN(s, n) \in Seq(T) /\ Len(LastN(s, n)) <= n
           /\ d = Len(s) - Len(LastN(s, n))
           /\ DOMAIN LastN(s, n) = 1..(Len(s) - d)
           /\ n > 0 /\ Len(s) > 0 => Len(LastN(s, n)) > 0
           /\ \A i \in 1..(Len(s) - d) : LastN(s, n)[i] = s[d + i]
<1>1. PICK l \in Nat : l = Len(s) /\ DOMAIN s = 1..l
  OBVIOUS
<1>2. PICK m \in Nat : m = IF n < l THEN n ELSE l
  OBVIOUS
<1>3. PICK f : f = LastN(s, n)
  OBVIOUS
<1>4. f = SubSeq(s, l - m + 1, l)
  BY <1>1, <1>2, <1>3 DEF LastN
<1>5. \A i \in (l - m + 1)..l : s[i] \in T
  BY <1>1, <1>2
<1>6. l - m + 1 \in Int /\ l \in Int
  OBVIOUS
<1>7. /\ f \in Seq(T) /\ Len(f) = IF l - m + 1 <= l THEN l - (l - m + 1) + 1 ELSE 0
      /\ \A i \in 1..(l - (l - m + 1) + 1) : f[i] = s[l - m + 1 + i - 1]
  BY ONLY <1>4, <1>5, <1>6, SubSeqProperties
<1>8. Len(f) = m /\ DOMAIN f = 1..m /\ \A i \in 1..m : f[i] = s[l - m + i]
  BY <1>2, <1>7
<1>9. l - m \in Nat /\ l - (l - m) = m
  BY <1>2
<1> QED
  <2>1. PICK d \in Nat : d = l - m
    BY <1>9
  <2>2. Len(s) - d = m
    BY <1>1, <2>1
  <2>3. /\ Len(f) <= n /\ d = Len(s) - Len(f)
        /\ n > 0 /\ Len(s) > 0 => Len(f) > 0
    BY <1>1, <1>2, <1>8, <2>1
  <2>4. DOMAIN f = 1..(Len(s) - d) /\ \A i \in 1..(Len(s) - d) : f[i] = s[d + i]
    BY <1>8, <2>1, <2>2
  <2> QED
    BY ONLY <1>3, <1>7, <2>1, <2>3, <2>4

-----------------------------------------------------------------------------
(* The stash *)

Entry == [msg : Ids, gen : Int]
StashEntry == [conv : Convs, held : Seq(Entry), age : Nat]

\* What an entry of the Map holds: some messages of its conversation, no more
\* than fit.  Its age stops counting once it is past the retry window.
GoodEntry(st) ==
  /\ st \in StashEntry
  /\ st.age <= RetryTtl + 1
  /\ Len(st.held) \in 1..PerConvCap
  /\ \A n \in DOMAIN st.held : Conv(st.held[n].msg) = st.conv

\* The Map: no more conversations than fit, each once.
GoodStash(s) ==
  /\ s \in Seq(StashEntry)
  /\ Len(s) <= ConvCap
  /\ \A k \in DOMAIN s : GoodEntry(s[k])
  /\ \A j, k \in DOMAIN s : s[j].conv = s[k].conv => j = k

LEMMA EntryHolds ==
  ASSUME NEW st, GoodEntry(st)
  PROVE  /\ HeldMsgs(st) \subseteq Ids /\ Range(st.held) \subseteq Entry
         /\ HeldMsgs(st) = {e.msg : e \in Range(st.held)}
         /\ \A i \in HeldMsgs(st) : Conv(i) = st.conv
         /\ st.conv \in Convs /\ st.age \in Nat
<1>1. PICK h \in Seq(Entry) : h = st.held
  BY DEF GoodEntry, StashEntry
<1>2. \A n \in DOMAIN h : h[n] \in Entry /\ h[n].msg \in Ids /\ Conv(h[n].msg) = st.conv
  <2>1. \A n \in DOMAIN h : h[n] \in Entry
    BY LenProperties
  <2>2. \A e \in Entry : e.msg \in Ids
    BY DEF Entry
  <2> QED
    BY <1>1, <2>1, <2>2 DEF GoodEntry
<1>3. Range(h) = {h[n] : n \in DOMAIN h}
  BY DEF Range
<1> QED
  <2>1. HeldMsgs(st) = {h[n].msg : n \in DOMAIN h}
    BY <1>1 DEF HeldMsgs
  <2>2. {h[n].msg : n \in DOMAIN h} = {e.msg : e \in Range(h)}
    BY <1>3
  <2>3. st.conv \in Convs /\ st.age \in Nat
    BY DEF GoodEntry, StashEntry
  <2> QED
    BY <1>1, <1>2, <1>3, <2>1, <2>2, <2>3

LEMMA StashHolds ==
  ASSUME NEW s, GoodStash(s)
  PROVE  /\ Stashed(s) \subseteq Ids /\ StashConvs(s) \subseteq Convs
         /\ \A i \in Stashed(s) : Conv(i) \in StashConvs(s)
         /\ \A i : i \in Stashed(s) <=> \E k \in DOMAIN s : i \in HeldMsgs(s[k])
         /\ \A k \in DOMAIN s : HeldMsgs(s[k]) \subseteq Stashed(s) /\ s[k].conv \in StashConvs(s)
         /\ \A k \in DOMAIN s : HeldMsgs(s[k]) = {i \in Stashed(s) : Conv(i) = s[k].conv}
<1>1. \A k \in DOMAIN s : /\ HeldMsgs(s[k]) \subseteq Ids /\ s[k].conv \in Convs
                          /\ \A i \in HeldMsgs(s[k]) : Conv(i) = s[k].conv
  BY EntryHolds DEF GoodStash
<1>2. \A j, k \in DOMAIN s : s[j].conv = s[k].conv => j = k
  BY DEF GoodStash
<1> QED
  BY <1>1, <1>2 DEF Stashed, StashConvs

LEMMA OnlyKeeps ==
  ASSUME NEW s, GoodStash(s), NEW K \in SUBSET DOMAIN s
  PROVE  /\ GoodStash(Only(s, K))
         /\ Stashed(Only(s, K)) = UNION {HeldMsgs(s[k]) : k \in K}
         /\ StashConvs(Only(s, K)) = {s[k].conv : k \in K}
<1>1. s \in Seq(StashEntry) /\ Len(s) <= ConvCap /\ Len(s) \in Nat /\ ConvCap \in Nat
  BY LenProperties, AutoReplyAssumption DEF GoodStash
<1>2. PICK f : f = Only(s, K)
  OBVIOUS
<1>3. PICK p \in [DOMAIN f -> K] :
        /\ f \in Seq(StashEntry) /\ Len(f) <= Len(s)
        /\ \A n \in DOMAIN f : f[n] = s[p[n]]
        /\ \A k \in K : \E n \in DOMAIN f : p[n] = k
        /\ \A m, n \in DOMAIN f : p[m] = p[n] => m = n
  BY ONLY <1>1, <1>2, OnlyIs, K \in SUBSET DOMAIN s
<1>4. \A n \in DOMAIN f : p[n] \in K /\ p[n] \in DOMAIN s
  OBVIOUS
<1>5. Len(f) <= ConvCap
  BY <1>1, <1>3, LenProperties
<1>6. \A n \in DOMAIN f : GoodEntry(f[n])
  BY <1>3, <1>4 DEF GoodStash
<1>7. \A m, n \in DOMAIN f : f[m].conv = f[n].conv => m = n
  BY <1>3, <1>4 DEF GoodStash
<1>8. GoodStash(f)
  BY <1>3, <1>5, <1>6, <1>7 DEF GoodStash
<1>9. Stashed(f) = UNION {HeldMsgs(s[k]) : k \in K}
  BY <1>3, <1>4 DEF Stashed
<1>10. StashConvs(f) = {s[k].conv : k \in K}
  BY <1>3, <1>4 DEF StashConvs
<1> QED
  BY <1>2, <1>8, <1>9, <1>10

LEMMA ClearKeeps ==
  ASSUME NEW s, GoodStash(s), NEW C
  PROVE  /\ GoodStash(ClearDeferred(s, C))
         /\ Stashed(ClearDeferred(s, C)) = {i \in Stashed(s) : Conv(i) \notin C}
         /\ StashConvs(ClearDeferred(s, C)) = StashConvs(s) \ C
<1>1. PICK K \in SUBSET DOMAIN s : K = {k \in DOMAIN s : s[k].conv \notin C}
  OBVIOUS
<1>2. ClearDeferred(s, C) = Only(s, K)
  BY <1>1 DEF ClearDeferred
<1>3. UNION {HeldMsgs(s[k]) : k \in K} = {i \in Stashed(s) : Conv(i) \notin C}
  BY <1>1, StashHolds
<1>4. {s[k].conv : k \in K} = StashConvs(s) \ C
  BY <1>1 DEF StashConvs
<1> QED
  BY <1>2, <1>3, <1>4, OnlyKeeps

LEMMA StashOfIs ==
  ASSUME NEW s, GoodStash(s), NEW c \in StashConvs(s)
  PROVE  /\ GoodEntry(StashOf(s, c)) /\ StashOf(s, c).conv = c
         /\ HeldMsgs(StashOf(s, c)) = {i \in Stashed(s) : Conv(i) = c}
<1>1. \E k \in DOMAIN s : s[k].conv = c
  BY DEF StashConvs
<1>2. PICK k \in DOMAIN s : s[k].conv = c /\ StashOf(s, c) = s[k]
  BY <1>1 DEF StashOf
<1> QED
  BY <1>2, StashHolds DEF GoodStash

LEMMA AgedKeeps ==
  ASSUME NEW s, GoodStash(s), NEW t, t = [k \in DOMAIN s |-> Aged(s[k])]
  PROVE  GoodStash(t) /\ Stashed(t) = Stashed(s) /\ StashConvs(t) = StashConvs(s)
<1>1. s \in Seq(StashEntry) /\ Len(s) <= ConvCap /\ Len(s) \in Nat /\ DOMAIN s = 1..Len(s)
  BY LenProperties DEF GoodStash
<1>2. \A k \in DOMAIN s : /\ GoodEntry(t[k]) /\ t[k].conv = s[k].conv
                          /\ t[k].held = s[k].held /\ t[k] \in StashEntry
  <2> SUFFICES ASSUME NEW k \in DOMAIN s
               PROVE  /\ GoodEntry(t[k]) /\ t[k].conv = s[k].conv
                      /\ t[k].held = s[k].held /\ t[k] \in StashEntry
    OBVIOUS
  <2>1. GoodEntry(s[k])
    BY DEF GoodStash
  <2>2. PICK a : a = IF Expired(s[k]) THEN s[k].age ELSE s[k].age + 1
    OBVIOUS
  <2>3. a \in Nat /\ a <= RetryTtl + 1
    BY <2>1, <2>2, AutoReplyAssumption DEF GoodEntry, StashEntry, Expired
  <2>4. t[k] = [s[k] EXCEPT !.age = a]
    BY <2>2 DEF Aged
  <2>5. t[k] \in StashEntry /\ t[k].conv = s[k].conv /\ t[k].held = s[k].held
    BY <2>1, <2>3, <2>4 DEF GoodEntry, StashEntry
  <2>6. t[k].age = a
    BY <2>1, <2>4 DEF GoodEntry, StashEntry
  <2> QED
    BY <2>1, <2>3, <2>5, <2>6 DEF GoodEntry
<1>3. t \in Seq(StashEntry) /\ Len(t) = Len(s) /\ DOMAIN t = DOMAIN s
  <2>1. t \in [1..Len(s) -> StashEntry]
    BY <1>1, <1>2
  <2> QED
    BY <1>1, <2>1, FunctionIsSeq
<1>4. GoodStash(t)
  BY <1>1, <1>2, <1>3 DEF GoodStash
<1>5. Stashed(t) = Stashed(s) /\ StashConvs(t) = StashConvs(s)
  BY <1>2, <1>3 DEF Stashed, StashConvs, HeldMsgs
<1> QED
  BY <1>4, <1>5

\* Messages of conversation c, out of M, in some order.
Queue(h, c, M) ==
  /\ h \in Seq(Entry)
  /\ \A n \in DOMAIN h : Conv(h[n].msg) = c /\ h[n].msg \in M

LEMMA IdsAre == \E n \in Nat : Ids = 1..n
<1>1. Messages \in Seq(Range(Messages))
  BY AutoReplyAssumption
<1>2. Len(Messages) \in Nat /\ DOMAIN Messages = 1..Len(Messages)
  BY <1>1, LenProperties
<1> QED
  BY <1>2 DEF Ids

LEMMA OrderOfIds ==
  ASSUME NEW S \in SUBSET Ids
  PROVE  /\ IsFiniteSet(S) /\ Cardinality(S) \in Nat
         /\ InOrder(S) \in [1..Cardinality(S) -> S]
         /\ \A i \in S : \E k \in 1..Cardinality(S) : InOrder(S)[k] = i
         /\ \A j, k \in 1..Cardinality(S) : InOrder(S)[j] = InOrder(S)[k] => j = k
         /\ S # {} => Cardinality(S) > 0
<1>1. PICK n \in Nat : Ids = 1..n
  BY IdsAre
<1>2. S \in SUBSET (1..n)
  BY <1>1
<1>3. PICK f, c : f = InOrder(S) /\ c = Cardinality(S)
  OBVIOUS
<1>4. /\ f \in Seq(S) /\ Len(f) = c
      /\ IsFiniteSet(S) /\ c \in Nat
      /\ DOMAIN f = 1..c
      /\ \A i \in S : \E k \in 1..c : f[k] = i
      /\ \A j, k \in 1..c : f[j] = f[k] => j = k
  BY ONLY <1>2, <1>3, InOrderIs, n \in Nat
<1>5. f \in [1..c -> S]
  BY <1>4, LenProperties
<1>6. S # {} => c > 0
  BY <1>4
<1> QED
  BY <1>3, <1>4, <1>5, <1>6

LEMMA ExistingIs ==
  ASSUME NEW s, GoodStash(s), NEW held \in SUBSET Ids, NEW c \in Convs
  PROVE  /\ Existing(s, held, c).age \in Nat /\ Existing(s, held, c).age <= RetryTtl + 1
         /\ Queue(Existing(s, held, c).held, c, Stashed(s))
<1>1. CASE Existing(s, held, c) = StashOf(s, c) /\ c \in StashConvs(s)
  <2>1. PICK st : st = StashOf(s, c)
    OBVIOUS
  <2>2. GoodEntry(st) /\ st.conv = c /\ HeldMsgs(st) \subseteq Stashed(s)
    BY <1>1, <2>1, StashOfIs
  <2>3. Queue(st.held, c, Stashed(s)) /\ st.age \in Nat /\ st.age <= RetryTtl + 1
    BY <2>2 DEF Queue, GoodEntry, StashEntry, HeldMsgs
  <2> QED
    BY <1>1, <2>1, <2>3
<1>2. CASE Existing(s, held, c) = [conv |-> c, held |-> <<>>, age |-> 0]
  BY <1>2, AutoReplyAssumption DEF Queue
<1> QED
  BY <1>1, <1>2 DEF Existing

LEMMA IncomingIs ==
  ASSUME NEW held \in SUBSET Ids, NEW c \in ConvsOf(held), NEW gen \in Nat
  PROVE  Queue(Incoming(held, c, gen), c, held) /\ Len(Incoming(held, c, gen)) > 0
<1>1. PICK S \in SUBSET Ids : S = {i \in held : Conv(i) = c}
  OBVIOUS
<1>2. S # {}
  BY <1>1 DEF ConvsOf
<1>3. PICK l, p : p = InOrder(S) /\ l \in Nat /\ l > 0 /\ p \in [1..l -> S]
  BY <1>2, OrderOfIds
<1>4. PICK f : f = Incoming(held, c, gen)
  OBVIOUS
<1>5. f = [n \in 1..l |-> [msg |-> p[n], gen |-> VerdictGen(p[n], gen)]]
  BY <1>1, <1>3, <1>4 DEF Incoming
<1>6. \A n \in 1..l : p[n] \in S /\ VerdictGen(p[n], gen) \in Int
  BY <1>3 DEF VerdictGen, NoVerdict
<1>7. \A n \in 1..l : f[n] \in Entry /\ f[n].msg = p[n]
  BY <1>5, <1>6 DEF Entry
<1>8. f \in [1..l -> Entry]
  BY <1>3, <1>5, <1>7
<1>9. f \in Seq(Entry) /\ Len(f) = l /\ DOMAIN f = 1..l
  BY <1>3, <1>8, FunctionIsSeq
<1>10. Queue(f, c, held)
  BY <1>1, <1>6, <1>7, <1>9 DEF Queue
<1> QED
  BY <1>3, <1>4, <1>9, <1>10

LEMMA MergedIs ==
  ASSUME NEW s, GoodStash(s), NEW held \in SUBSET Ids, NEW c \in ConvsOf(held), NEW gen \in Nat
  PROVE  /\ GoodEntry(Merged(s, held, c, gen)) /\ Merged(s, held, c, gen).conv = c
         /\ HeldMsgs(Merged(s, held, c, gen)) \subseteq Stashed(s) \cup held
<1>1. c \in Convs
  BY AutoReplyAssumption DEF ConvsOf, Conv
<1>2. PICK old : /\ old = Existing(s, held, c) /\ old.age \in Nat /\ old.age <= RetryTtl + 1
                 /\ Queue(old.held, c, Stashed(s))
  BY <1>1, ExistingIs
<1>3. PICK a, b : a = old.held /\ b = Incoming(held, c, gen)
  OBVIOUS
<1>4. Queue(a, c, Stashed(s)) /\ Queue(b, c, held) /\ Len(b) > 0
  BY <1>2, <1>3, IncomingIs
<1>5. a \in Seq(Entry) /\ b \in Seq(Entry)
  BY <1>4 DEF Queue
<1>6. PICK q : q = a \o b
  OBVIOUS
<1>7. /\ q \in Seq(Entry) /\ Len(q) = Len(a) + Len(b)
      /\ \A n \in 1..(Len(a) + Len(b)) : q[n] = IF n <= Len(a) THEN a[n] ELSE b[n - Len(a)]
  BY ONLY <1>5, <1>6, ConcatProperties
<1>8. PICK la \in Nat, lb \in Nat : la = Len(a) /\ lb = Len(b) /\ DOMAIN a = 1..la /\ DOMAIN b = 1..lb
  BY <1>5, LenProperties
<1>9. \A n \in 1..(la + lb) : Conv(q[n].msg) = c /\ q[n].msg \in Stashed(s) \cup held
  <2> SUFFICES ASSUME NEW n \in 1..(la + lb)
               PROVE  Conv(q[n].msg) = c /\ q[n].msg \in Stashed(s) \cup held
    OBVIOUS
  <2>1. CASE n <= la
    <3>1. n \in DOMAIN a /\ q[n] = a[n]
      BY <1>7, <1>8, <2>1
    <3> QED
      BY <1>4, <3>1 DEF Queue
  <2>2. CASE ~(n <= la)
    <3>1. n - la \in DOMAIN b /\ q[n] = b[n - la]
      BY <1>7, <1>8, <2>2
    <3> QED
      BY <1>4, <3>1 DEF Queue
  <2> QED
    BY <2>1, <2>2
<1>10. PerConvCap \in Nat /\ PerConvCap > 0
  BY AutoReplyAssumption
<1>11. PICK h : h = LastN(q, PerConvCap)
  OBVIOUS
<1>12. PICK d \in Nat :
         /\ h \in Seq(Entry) /\ Len(h) <= PerConvCap
         /\ d = Len(q) - Len(h)
         /\ DOMAIN h = 1..(Len(q) - d)
         /\ PerConvCap > 0 /\ Len(q) > 0 => Len(h) > 0
         /\ \A i \in 1..(Len(q) - d) : h[i] = q[d + i]
  BY ONLY <1>7, <1>10, <1>11, LastNIs
<1>13. Len(h) \in 1..PerConvCap
  <2>1. Len(q) > 0
    BY <1>4, <1>7, <1>8
  <2>2. Len(h) \in Nat
    BY <1>12, LenProperties
  <2> QED
    BY <1>10, <1>12, <2>1, <2>2
<1>14. \A n \in DOMAIN h : Conv(h[n].msg) = c /\ h[n].msg \in Stashed(s) \cup held
  <2> SUFFICES ASSUME NEW n \in DOMAIN h
               PROVE  Conv(h[n].msg) = c /\ h[n].msg \in Stashed(s) \cup held
    OBVIOUS
  <2>1. PICK l \in Nat : l = Len(q) /\ l = la + lb
    BY <1>7, <1>8
  <2>2. n \in 1..(l - d) /\ h[n] = q[d + n]
    BY <1>12, <2>1
  <2>3. d + n \in 1..(la + lb)
    BY <2>1, <2>2
  <2> QED
    BY <1>9, <2>2, <2>3
<1>15. PICK mg : mg = Merged(s, held, c, gen)
  OBVIOUS
<1>16. mg = [conv |-> c, age |-> old.age, held |-> h]
  BY <1>2, <1>3, <1>6, <1>11, <1>15 DEF Merged
<1>17. mg \in StashEntry
  BY <1>1, <1>2, <1>12, <1>16 DEF StashEntry
<1>18. GoodEntry(mg) /\ mg.conv = c
  BY <1>2, <1>13, <1>14, <1>16, <1>17 DEF GoodEntry
<1>19. HeldMsgs(mg) \subseteq Stashed(s) \cup held
  BY <1>14, <1>16 DEF HeldMsgs
<1> QED
  BY <1>15, <1>18, <1>19

LEMMA FirstIs ==
  ASSUME NEW held \in SUBSET Ids, NEW c \in ConvsOf(held)
  PROVE  First(held, c) \in held /\ Conv(First(held, c)) = c
<1>1. PICK n \in Nat : Ids = 1..n
  BY IdsAre
<1>2. PICK S \in SUBSET (1..n) : S = {i \in held : Conv(i) = c}
  BY <1>1
<1>3. S # {}
  BY <1>2 DEF ConvsOf
<1>4. PICK i \in S : \A j \in S : i <= j
  BY <1>3, Least
<1>5. i \in held /\ Conv(i) = c /\ \A j \in held : Conv(j) = c => i <= j
  BY <1>2, <1>4
<1> QED
  BY <1>5 DEF First

\* Holding conversations back keeps the Map sound; nothing enters it that was
\* not there or held back.
LEMMA StashDeferredKeeps ==
  ASSUME NEW s, GoodStash(s), NEW held \in SUBSET Ids, NEW gen \in Nat,
         NEW put, put = StashDeferred(s, held, gen)
  PROVE  /\ GoodStash(put.stash)
         /\ Stashed(put.stash) \subseteq Stashed(s) \cup held
         /\ put.dropped = (Stashed(s) \cup held) \ Stashed(put.stash)
<1>1. PICK F \in SUBSET Ids : F = {First(held, c) : c \in ConvsOf(held)}
  BY FirstIs
<1>2. \A i \in F : Conv(i) \in ConvsOf(held)
  BY <1>1, FirstIs
<1>3. \A i, j \in F : Conv(i) = Conv(j) => i = j
  BY <1>1, FirstIs
<1>4. PICK l, p : /\ p = InOrder(F) /\ l \in Nat /\ p \in [1..l -> F]
                  /\ \A j, k \in 1..l : p[j] = p[k] => j = k
  BY OrderOfIds
<1>5. PICK b : b = [n \in 1..l |-> Merged(s, held, Conv(p[n]), gen)]
  OBVIOUS
<1>6. \A n \in 1..l : p[n] \in F /\ Conv(p[n]) \in ConvsOf(held)
  BY <1>2, <1>4
<1>7. \A n \in 1..l : /\ GoodEntry(b[n]) /\ b[n].conv = Conv(p[n])
                      /\ HeldMsgs(b[n]) \subseteq Stashed(s) \cup held
  BY <1>5, <1>6, MergedIs
<1>8. b \in Seq(StashEntry) /\ Len(b) = l /\ DOMAIN b = 1..l
  <2>1. \A n \in 1..l : b[n] \in StashEntry
    BY <1>7 DEF GoodEntry
  <2>2. b \in [1..l -> StashEntry]
    BY <1>5, <2>1
  <2> QED
    BY <1>4, <2>2, FunctionIsSeq
<1>9. PICK a : a = ClearDeferred(s, ConvsOf(held))
  OBVIOUS
<1>10. GoodStash(a) /\ Stashed(a) \subseteq Stashed(s) /\ StashConvs(a) \cap ConvsOf(held) = {}
  BY <1>9, ClearKeeps
<1>11. PICK la \in Nat : la = Len(a) /\ DOMAIN a = 1..la
  BY <1>10, LenProperties DEF GoodStash
<1>12. \A n \in 1..la : /\ GoodEntry(a[n]) /\ a[n].conv \notin ConvsOf(held)
                        /\ HeldMsgs(a[n]) \subseteq Stashed(s) \cup held
  BY <1>10, <1>11, StashHolds DEF GoodStash
<1>13. a \in Seq(StashEntry)
  BY <1>10 DEF GoodStash
<1>14. PICK q : q = a \o b
  OBVIOUS
<1>15. /\ q \in Seq(StashEntry) /\ Len(q) = Len(a) + Len(b)
       /\ \A n \in 1..(Len(a) + Len(b)) : q[n] = IF n <= Len(a) THEN a[n] ELSE b[n - Len(a)]
  BY ONLY <1>8, <1>13, <1>14, ConcatProperties
<1>16. PICK lq \in Nat : lq = la + l /\ lq = Len(q)
  BY <1>4, <1>8, <1>11, <1>15
<1>17. \A n \in 1..lq : \/ n \in 1..la /\ q[n] = a[n]
                        \/ n - la \in 1..l /\ q[n] = b[n - la]
  BY <1>4, <1>8, <1>11, <1>15, <1>16
<1>18. \A n \in 1..lq : GoodEntry(q[n]) /\ HeldMsgs(q[n]) \subseteq Stashed(s) \cup held
  BY <1>7, <1>12, <1>17
<1>19. ASSUME NEW m \in 1..lq, NEW n \in 1..lq, q[m].conv = q[n].conv PROVE m = n
  <2>1. CASE m \in 1..la /\ q[m] = a[m] /\ n \in 1..la /\ q[n] = a[n]
    BY <1>10, <1>11, <1>19, <2>1 DEF GoodStash
  <2>2. CASE m \in 1..la /\ q[m] = a[m] /\ n - la \in 1..l /\ q[n] = b[n - la]
    BY <1>6, <1>7, <1>12, <1>19, <2>2
  <2>3. CASE n \in 1..la /\ q[n] = a[n] /\ m - la \in 1..l /\ q[m] = b[m - la]
    BY <1>6, <1>7, <1>12, <1>19, <2>3
  <2>4. CASE m - la \in 1..l /\ q[m] = b[m - la] /\ n - la \in 1..l /\ q[n] = b[n - la]
    <3>1. p[m - la] = p[n - la]
      BY <1>3, <1>6, <1>7, <1>19, <2>4
    <3>2. m - la = n - la
      BY <1>4, <2>4, <3>1
    <3> QED
      BY <3>2
  <2> QED
    BY <1>17, <2>1, <2>2, <2>3, <2>4
<1>20. PICK h : h = LastN(q, ConvCap)
  OBVIOUS
<1>21. ConvCap \in Nat
  BY AutoReplyAssumption
<1>22. PICK d \in Nat :
         /\ h \in Seq(StashEntry) /\ Len(h) <= ConvCap
         /\ d = Len(q) - Len(h)
         /\ DOMAIN h = 1..(Len(q) - d)
         /\ \A i \in 1..(Len(q) - d) : h[i] = q[d + i]
  <2>1. PICK T : T = StashEntry
    OBVIOUS
  <2>2. q \in Seq(T)
    BY <1>15, <2>1
  <2>3. PICK d \in Nat :
          /\ h \in Seq(T) /\ Len(h) <= ConvCap
          /\ d = Len(q) - Len(h)
          /\ DOMAIN h = 1..(Len(q) - d)
          /\ \A i \in 1..(Len(q) - d) : h[i] = q[d + i]
    BY ONLY <1>20, <1>21, <2>2, LastNIs
  <2> QED
    BY <2>1, <2>3
<1>23. \A n \in DOMAIN h : d + n \in 1..lq /\ h[n] = q[d + n] /\ n \in Int
  <2>1. DOMAIN h = 1..(lq - d) /\ \A n \in 1..(lq - d) : h[n] = q[d + n]
    BY <1>16, <1>22
  <2>2. \A n \in 1..(lq - d) : d + n \in 1..lq /\ n \in Int
    OBVIOUS
  <2> QED
    BY <2>1, <2>2
<1>24. \A n \in DOMAIN h : GoodEntry(h[n]) /\ HeldMsgs(h[n]) \subseteq Stashed(s) \cup held
  BY <1>18, <1>23
<1>25. \A m, n \in DOMAIN h : h[m].conv = h[n].conv => m = n
  <2> SUFFICES ASSUME NEW m \in DOMAIN h, NEW n \in DOMAIN h, h[m].conv = h[n].conv PROVE m = n
    OBVIOUS
  <2>1. d + m = d + n
    BY <1>19, <1>23
  <2> QED
    BY <1>23, <2>1
<1>26. GoodStash(h) /\ Stashed(h) \subseteq Stashed(s) \cup held
  BY <1>22, <1>24, <1>25 DEF GoodStash, Stashed
<1>27. put.stash = h /\ put.dropped = (Stashed(s) \cup held) \ Stashed(h)
  <2>1. DOMAIN p = 1..l
    BY <1>4
  <2> QED
    BY <1>1, <1>4, <1>5, <1>9, <1>14, <1>20, <2>1 DEF StashDeferred
<1> QED
  BY <1>26, <1>27

-----------------------------------------------------------------------------
(* The loop's state *)

Turns == [msgs : SUBSET Ids, covered : SUBSET Convs, shown : SUBSET Entry, gen : Nat]
Plans == [floored : SUBSET Ids, release : SUBSET Convs, held : SUBSET Ids]
Pcs == {"idle", "polled", "notice", "acking", "acquiring", "turn", "releasing",
        "lateTurn", "retry", "retryTurn"}
Chosen == Settings \cup {CHOOSE s \in Settings : TRUE}
Ticks ==
  [pc : Pcs, batch : SUBSET Ids, settings : Chosen, real : SUBSET Ids, kept : SUBSET Ids,
   latched : SUBSET Convs, notices : SUBSET Convs, todo : SUBSET Convs, plan : Plans, turn : Turns]
Latches ==
  [used : [Convs -> Nat], escalated : SUBSET Convs, recent : [Peers -> Nat],
   refreshes : [Convs -> Nat]]
Mems ==
  [seen : SUBSET Ids, stash : Seq(StashEntry), latch : Latches, gen : Gens,
   stopped : BOOLEAN, unhanded : SUBSET Ids, covering : SUBSET Convs]
Fates ==
  [started : [Ids -> Nat], dead : SUBSET Ids, declined : SUBSET Ids, suppressed : SUBSET Ids,
   lost : SUBSET Ids, told : SUBSET Convs, resets : [Convs -> Nat], peerTurns : [Convs -> Nat]]

Typed ==
  /\ scope \subseteq Ids /\ acked \subseteq scope
  /\ floor \in [Convs -> {"free", "self", "other"}] /\ leaked \subseteq Convs
  /\ tick \in Ticks /\ tick.batch \subseteq scope
  /\ mem \in Mems /\ GoodStash(mem.stash)
  /\ fate \in Fates

\* A turn shows the passing verdicts of one generation.
StampsMatch == \A e \in tick.turn.shown : e.gen = tick.turn.gen

\* A tick's locals mean something only in the part of the tick that uses them.
Shaped ==
  /\ tick.pc = "idle" => tick = IdleTick
  /\ tick.pc \notin {"acquiring", "turn", "releasing"} => tick.plan = NoPlan
  /\ tick.pc \notin {"turn", "lateTurn", "retryTurn"} => tick.turn = NoTurn
  /\ mem.covering = IF tick.pc = "turn" THEN tick.turn.covered ELSE {}
  /\ mem.unhanded = IF tick.pc \in {"acking", "acquiring"} /\ ~mem.stopped THEN tick.kept ELSE {}
  /\ mem.stopped => StashConvs(mem.stash) \subseteq mem.covering
  /\ tick.pc \in {"lateTurn", "retry"} /\ ~mem.stopped => tick.todo \subseteq StashConvs(mem.stash)
  /\ StampsMatch

\* The floors this tick still has to hand back.
Owed == tick.plan.release \cup (IF tick.pc = "retryTurn" THEN tick.todo ELSE {})

FloorsKept ==
  /\ {c \in Convs : floor[c] = "self"} = leaked \cup Owed
  /\ leaked \cap Owed = {}
  /\ tick.pc = "acquiring" => /\ tick.plan.release \cap tick.todo = {}
                              /\ tick.plan.release \subseteq ConvsOf(tick.plan.floored)

\* Every message the loop has seen is in its hands, or has one fate.
Fated(seen, hand, f) ==
  LET ran == {i \in Ids : f.started[i] > 0}
  IN /\ \A i \in Ids : f.started[i] <= 1
     /\ hand \cup f.dead \cup ran \subseteq seen
     /\ seen \subseteq hand \cup f.dead \cup ran \cup f.suppressed \cup f.lost
     /\ hand \cap (f.dead \cup ran) = {}
     /\ f.dead \cap ran = {}

\* What asks for a turn was seen or declined.
Judged(S, seen, f) == \A i \in S : Messages[i].trigger => i \in seen \cup f.declined

\* Where the messages of a tick are: not yet seen, unhanded, planned, in a turn.
Placed ==
  LET H == Stashed(mem.stash)
  IN /\ tick.pc = "notice" =>
          /\ tick.kept \subseteq tick.real
          /\ tick.real \cap mem.seen = {}
          /\ Judged(tick.batch, mem.seen \cup tick.real, fate)
     /\ tick.pc = "acking" => Judged(tick.batch, mem.seen, fate)
     /\ mem.unhanded \cap H = {}
     /\ tick.pc = "acquiring" =>
          /\ tick.kept = tick.plan.floored \cup tick.plan.held \cup {i \in tick.kept : Conv(i) \in tick.todo}
          /\ tick.plan.floored \cap tick.plan.held = {}
          /\ ConvsOf(tick.plan.floored \cup tick.plan.held) \cap tick.todo = {}
     /\ tick.pc = "turn" =>
          /\ tick.turn.msgs = tick.plan.floored \cup {i \in H : Conv(i) \in tick.turn.covered}
          /\ tick.plan.floored \cap H = {}
     /\ tick.pc \in {"lateTurn", "retryTurn"} => tick.turn.msgs \cap H = {}

LoopInv ==
  /\ Typed
  /\ Shaped
  /\ FloorsKept
  /\ Fated(mem.seen, InHand, fate)
  /\ Judged(acked, mem.seen, fate)
  /\ Placed

-----------------------------------------------------------------------------
(* What the operators of a step return *)

LEMMA Constants ==
  /\ NoTurn \in Turns /\ NoPlan \in Plans /\ FreshLatch \in Latches
  /\ IdleTick \in Ticks
  /\ IdleTick.pc = "idle" /\ IdleTick.plan = NoPlan /\ IdleTick.turn = NoTurn
  /\ IdleTick.batch = {} /\ IdleTick.todo = {} /\ IdleTick.kept = {}
  /\ NoTurn.msgs = {} /\ NoTurn.covered = {} /\ NoTurn.shown = {}
  /\ NoPlan.release = {} /\ NoPlan.floored = {} /\ NoPlan.held = {}
<1>1. NoTurn \in Turns /\ NoPlan \in Plans /\ FreshLatch \in Latches
  BY DEF NoTurn, Turns, NoPlan, Plans, FreshLatch, Latches
<1>2. IdleTick \in Ticks
  BY <1>1 DEF IdleTick, Ticks, Pcs, Chosen
<1> QED
  BY <1>1, <1>2 DEF IdleTick, NoTurn, NoPlan

LEMMA FiniteIds == \A S \in SUBSET Ids : IsFiniteSet(S) /\ Cardinality(S) \in Nat
  BY OrderOfIds

LEMMA ResetIs ==
  ASSUME NEW l \in Latches, NEW C
  PROVE  ResetPeerLatch(l, C) \in Latches
<1>1. [c \in Convs |-> IF c \in C THEN 0 ELSE l.used[c]] \in [Convs -> Nat]
  BY DEF Latches
<1> QED
  BY <1>1 DEF ResetPeerLatch, Latches

LEMMA RefreshIs ==
  ASSUME NEW l \in Latches, NEW batch \in SUBSET Ids, NEW gen
  PROVE  RefreshBudgetForProgressSignals(l, batch, gen) \in Latches
<1> DEFINE Signals(c) == {i \in batch : Refreshes(i, gen) /\ Conv(i) = c}
<1> DEFINE refreshed == {c \in Convs : Signals(c) # {} /\ l.refreshes[c] < RefreshMax}
<1> DEFINE After(c) == l.refreshes[c] + Cardinality(Signals(c))
<1> DEFINE r == [c \in Convs |-> IF c \notin refreshed THEN l.refreshes[c]
                           ELSE IF After(c) < RefreshMax THEN After(c) ELSE RefreshMax]
<1>1. RefreshMax \in Nat
  BY AutoReplyAssumption
<1>2. \A c \in Convs : After(c) \in Nat /\ l.refreshes[c] \in Nat
  BY FiniteIds DEF Latches
<1>3. r \in [Convs -> Nat]
  BY <1>1, <1>2
<1>4. [l EXCEPT !.refreshes = r] \in Latches
  BY <1>3 DEF Latches
<1>5. RefreshBudgetForProgressSignals(l, batch, gen) = ResetPeerLatch([l EXCEPT !.refreshes = r], refreshed)
  BY DEF RefreshBudgetForProgressSignals
<1> QED
  BY <1>4, <1>5, ResetIs

LEMMA RateGateIs ==
  ASSUME NEW l \in Latches, NEW real \in SUBSET Ids
  PROVE  /\ ApplyPeerRateGate(l, real).kept \subseteq real
         /\ ApplyPeerRateGate(l, real).latch \in Latches
<1> DEFINE peers == {i \in real : ~FromOperator(i)}
<1> DEFINE Ahead(i) == {j \in peers : j < i /\ Messages[j].from = Messages[i].from}
<1> DEFINE open == {i \in peers : l.recent[Messages[i].from] + Cardinality(Ahead(i)) < RateMax}
<1> DEFINE r == [p \in Peers |-> l.recent[p] + Cardinality({i \in open : Messages[i].from = p})]
<1>1. \A p \in Peers : l.recent[p] \in Nat /\ Cardinality({i \in open : Messages[i].from = p}) \in Nat
  BY FiniteIds DEF Latches
<1>2. r \in [Peers -> Nat]
  BY <1>1
<1>3. [l EXCEPT !.recent = r] \in Latches
  BY <1>2 DEF Latches
<1>4. ApplyPeerRateGate(l, real) = [kept |-> (real \ peers) \cup open, latch |-> [l EXCEPT !.recent = r]]
  BY DEF ApplyPeerRateGate
<1> QED
  BY <1>3, <1>4

LEMMA LatchIs ==
  ASSUME NEW l \in Latches, NEW s, NEW K \in SUBSET Ids
  PROVE  /\ ApplyPeerLatch(l, s, K).kept \subseteq K
         /\ ApplyPeerLatch(l, s, K).latched \subseteq Convs
         /\ ApplyPeerLatch(l, s, K).latch \in Latches
<1> DEFINE peers == {i \in K : ~FromOperator(i)}
<1> DEFINE Ahead(i) == {j \in peers : j < i /\ Conv(j) = Conv(i)}
<1> DEFINE open == {i \in peers : PeerLatchOpen(s, Conv(i), l.used[Conv(i)] + Cardinality(Ahead(i)))}
<1> DEFINE u == [c \in Convs |-> l.used[c] + Cardinality({i \in open : Conv(i) = c})]
<1>1. \A c \in Convs : l.used[c] \in Nat /\ Cardinality({i \in open : Conv(i) = c}) \in Nat
  BY FiniteIds DEF Latches
<1>2. u \in [Convs -> Nat]
  BY <1>1
<1>3. [l EXCEPT !.used = u] \in Latches
  BY <1>2 DEF Latches
<1>4. ResetPeerLatch([l EXCEPT !.used = u], ConvsOf(open) \cap Uncapped(s)) \in Latches
  BY <1>3, ResetIs
<1>5. ApplyPeerLatch(l, s, K) =
        [kept |-> (K \ peers) \cup open, latched |-> ConvsOf(peers \ open),
         latch |-> ResetPeerLatch([l EXCEPT !.used = u], ConvsOf(open) \cap Uncapped(s))]
  BY DEF ApplyPeerLatch
<1>6. ConvsOf(peers \ open) \subseteq Convs
  BY AutoReplyAssumption DEF ConvsOf, Conv
<1> QED
  BY <1>4, <1>5, <1>6

\* A flush parts with everything but the stashes the turn in flight covers.
LEMMA FlushIs ==
  ASSUME NEW m \in Mems, GoodStash(m.stash), NEW fl, fl = FlushOnStop(m)
  PROVE  \E s : /\ GoodStash(s)
                /\ fl.mem = [m EXCEPT !.unhanded = {}, !.stash = s] /\ fl.mem \in Mems
                /\ Stashed(s) = {i \in Stashed(m.stash) : Conv(i) \in m.covering}
                /\ StashConvs(s) = StashConvs(m.stash) \cap m.covering
                /\ fl.dead = m.unhanded \cup (Stashed(m.stash) \ Stashed(s))
<1>1. PICK K \in SUBSET DOMAIN m.stash : K = {k \in DOMAIN m.stash : m.stash[k].conv \in m.covering}
  OBVIOUS
<1>2. PICK s : s = Only(m.stash, K)
  OBVIOUS
<1>3. /\ GoodStash(s) /\ Stashed(s) = UNION {HeldMsgs(m.stash[k]) : k \in K}
      /\ StashConvs(s) = {m.stash[k].conv : k \in K}
  BY <1>2, OnlyKeeps
<1>4. StashConvs(s) = StashConvs(m.stash) \cap m.covering
  BY <1>1, <1>3 DEF StashConvs
<1>5. Stashed(s) = {i \in Stashed(m.stash) : Conv(i) \in m.covering}
  BY <1>1, <1>3, StashHolds
<1>6. UNION {HeldMsgs(m.stash[k]) : k \in DOMAIN m.stash \ K} = Stashed(m.stash) \ Stashed(s)
  BY <1>1, <1>5, StashHolds
<1>7. /\ fl.mem = [m EXCEPT !.unhanded = {}, !.stash = s]
      /\ fl.dead = m.unhanded \cup (Stashed(m.stash) \ Stashed(s))
  BY <1>1, <1>2, <1>6 DEF FlushOnStop
<1>8. fl.mem \in Mems
  BY <1>3, <1>7 DEF Mems, GoodStash
<1> QED
  BY <1>3, <1>4, <1>5, <1>7, <1>8

\* The end of a tick lets go of its locals; after a stop, of the stashes too.
LEMMA EndsIs ==
  ASSUME NEW m \in Mems, GoodStash(m.stash), NEW f \in Fates, TickEnds(m, f)
  PROVE  /\ tick' = IdleTick /\ mem' \in Mems /\ fate' \in Fates /\ GoodStash(mem'.stash)
         /\ mem'.unhanded = {} /\ mem'.covering = {} /\ mem'.seen = m.seen
         /\ mem'.stopped = m.stopped /\ mem'.gen = m.gen /\ mem'.latch = m.latch
         /\ Stashed(mem'.stash) = IF m.stopped THEN {} ELSE Stashed(m.stash)
         /\ m.stopped => StashConvs(mem'.stash) = {}
         /\ fate' = [f EXCEPT !.dead = f.dead \cup (Stashed(m.stash) \ Stashed(mem'.stash))]
<1>1. PICK cl : cl = [m EXCEPT !.unhanded = {}, !.covering = {}]
  OBVIOUS
<1>2. /\ cl \in Mems /\ cl.unhanded = {} /\ cl.covering = {} /\ cl.seen = m.seen
      /\ cl.stopped = m.stopped /\ cl.gen = m.gen /\ cl.latch = m.latch /\ cl.stash = m.stash
  BY <1>1 DEF Mems
<1>3. PICK fl : fl = FlushOnStop(cl)
  OBVIOUS
<1>4. PICK s : /\ GoodStash(s)
               /\ fl.mem = [cl EXCEPT !.unhanded = {}, !.stash = s] /\ fl.mem \in Mems
               /\ Stashed(s) = {i \in Stashed(cl.stash) : Conv(i) \in cl.covering}
               /\ StashConvs(s) = StashConvs(cl.stash) \cap cl.covering
               /\ fl.dead = cl.unhanded \cup (Stashed(cl.stash) \ Stashed(s))
  BY <1>2, <1>3, FlushIs
<1>5. Stashed(s) = {} /\ StashConvs(s) = {} /\ fl.dead = Stashed(m.stash)
  BY <1>2, <1>4
<1>6. Stashed(m.stash) \subseteq Ids
  BY StashHolds
<1>7. CASE m.stopped
  <2>1. tick' = IdleTick /\ mem' = fl.mem /\ fate' = [f EXCEPT !.dead = f.dead \cup fl.dead]
    BY <1>1, <1>3, <1>7 DEF TickEnds
  <2>2. /\ mem'.unhanded = {} /\ mem'.covering = {} /\ mem'.seen = m.seen /\ mem'.stash = s
        /\ mem'.stopped = m.stopped /\ mem'.gen = m.gen /\ mem'.latch = m.latch
    BY <1>2, <1>4, <2>1 DEF Mems
  <2>3. fate' \in Fates
    BY <1>5, <1>6, <2>1 DEF Fates
  <2> QED
    BY <1>4, <1>5, <1>7, <2>1, <2>2, <2>3
<1>8. CASE ~m.stopped
  <2>1. tick' = IdleTick /\ mem' = cl /\ fate' = f
    BY <1>1, <1>8 DEF TickEnds
  <2>2. f = [f EXCEPT !.dead = f.dead \cup {}]
    BY DEF Fates
  <2> QED
    BY <1>2, <1>8, <2>1, <2>2
<1> QED
  BY <1>7, <1>8

LEMMA OldestIs ==
  ASSUME NEW s, GoodStash(s), NEW K, K = Expireds(s), K # {}
  PROVE  Oldest(s, K) \in K
<1>1. PICK n \in Nat : DOMAIN s = 1..n
  BY LenProperties DEF GoodStash
<1>2. K \in SUBSET (1..n)
  BY <1>1 DEF Expireds
<1>3. PICK i \in K : \A j \in K : i <= j
  BY <1>2, Least
<1>4. \A j \in K : s[j].age = RetryTtl + 1
  <2> SUFFICES ASSUME NEW j \in K PROVE s[j].age = RetryTtl + 1
    OBVIOUS
  <2>1. GoodEntry(s[j]) /\ Expired(s[j])
    BY DEF Expireds, GoodStash
  <2>2. s[j].age \in Nat /\ s[j].age <= RetryTtl + 1
    BY <2>1, EntryHolds DEF GoodEntry
  <2> QED
    BY <2>1, <2>2, AutoReplyAssumption DEF Expired
<1>5. \A j \in K : s[j].age = s[i].age /\ i <= j
  BY <1>3, <1>4
<1> QED
  BY <1>5 DEF Oldest

LEMMA HeldTurnIs ==
  ASSUME NEW st, GoodEntry(st), NEW gen \in Nat, NEW t, t = HeldTurn(st, {}, gen)
  PROVE  /\ t \in Turns /\ t.msgs = HeldMsgs(st)
         /\ \A e \in t.shown : e.gen = t.gen
<1>1. HeldMsgs(st) \subseteq Ids /\ Range(st.held) \subseteq Entry
  BY EntryHolds
<1>2. t = [msgs |-> HeldMsgs(st), covered |-> {}, gen |-> gen,
           shown |-> {e \in Range(st.held) : e.gen = gen}]
  BY DEF HeldTurn, EntryVerdict
<1>3. t \in Turns
  BY <1>1, <1>2 DEF Turns
<1> QED
  BY <1>2, <1>3

LEMMA CoveringTurnIs ==
  ASSUME NEW s, GoodStash(s), NEW F \in SUBSET Ids, NEW gen \in Nat,
         NEW t, t = CoveringTurn(s, F, gen)
  PROVE  /\ t \in Turns /\ t.covered \subseteq Convs
         /\ \A i : i \in t.msgs <=> i \in F \/ (i \in Stashed(s) /\ Conv(i) \in t.covered)
         /\ \A e \in t.shown : e.gen = t.gen
<1>1. PICK C : C = ConvsOf(F) \cap StashConvs(s)
  OBVIOUS
<1>2. PICK held : held = UNION {Range(StashOf(s, c).held) : c \in C}
  OBVIOUS
<1>3. \A c \in C : /\ c \in StashConvs(s) /\ GoodEntry(StashOf(s, c))
                   /\ HeldMsgs(StashOf(s, c)) = {i \in Stashed(s) : Conv(i) = c}
  BY <1>1, StashOfIs
<1>4. \A c \in C : /\ Range(StashOf(s, c).held) \subseteq Entry
                   /\ HeldMsgs(StashOf(s, c)) = {e.msg : e \in Range(StashOf(s, c).held)}
  BY <1>3, EntryHolds
<1>5. held \subseteq Entry
  BY <1>2, <1>4
<1>6. {e.msg : e \in held} = {i \in Stashed(s) : Conv(i) \in C}
  <2>1. \A i : i \in {e.msg : e \in held} <=> \E c \in C : i \in {e.msg : e \in Range(StashOf(s, c).held)}
    BY <1>2
  <2>2. \A i : i \in {e.msg : e \in held} <=> \E c \in C : i \in {j \in Stashed(s) : Conv(j) = c}
    BY <1>3, <1>4, <2>1
  <2> QED
    BY <2>2
<1>7. PICK fresh : fresh = {[msg |-> i, gen |-> gen] : i \in F \cap checks.accepted}
  OBVIOUS
<1>8. fresh \subseteq Entry /\ \A e \in fresh : e.gen = gen
  BY <1>7 DEF Entry
<1>9. t = [msgs |-> F \cup {e.msg : e \in held}, covered |-> C, gen |-> gen,
           shown |-> fresh \cup {e \in held : e.gen = gen}]
  BY <1>1, <1>2, <1>7 DEF CoveringTurn, EntryVerdict
<1>10. C \subseteq Convs /\ Stashed(s) \subseteq Ids
  BY <1>1, StashHolds
<1>11. t \in Turns
  BY <1>5, <1>6, <1>8, <1>9, <1>10 DEF Turns
<1> QED
  BY <1>6, <1>8, <1>9, <1>10, <1>11

LEMMA StartedIs ==
  ASSUME NEW f \in Fates, NEW turn \in Turns, NEW g, g = Started(f, turn)
  PROVE  /\ g \in Fates
         /\ \A i \in Ids : g.started[i] = f.started[i] + (IF i \in turn.msgs THEN 1 ELSE 0)
         /\ g.dead = f.dead /\ g.declined = f.declined /\ g.suppressed = f.suppressed
         /\ g.lost = f.lost /\ g.told = f.told /\ g.resets = f.resets
<1>1. PICK P : P = {c \in ConvsOf(turn.msgs) :
                     \A i \in turn.msgs : Conv(i) = c => ~FromOperator(i)}
  OBVIOUS
<1>2. PICK st : st = [i \in Ids |-> f.started[i] + (IF i \in turn.msgs THEN 1 ELSE 0)]
  OBVIOUS
<1>3. PICK pt : pt = [c \in Convs |-> f.peerTurns[c] + (IF c \in P THEN 1 ELSE 0)]
  OBVIOUS
<1>4. st \in [Ids -> Nat] /\ pt \in [Convs -> Nat]
  BY <1>2, <1>3 DEF Fates
<1>5. g = [f EXCEPT !.started = st, !.peerTurns = pt]
  BY <1>1, <1>2, <1>3 DEF Started
<1>6. g \in Fates /\ g.started = st
  BY <1>4, <1>5 DEF Fates
<1>7. /\ g.dead = f.dead /\ g.declined = f.declined /\ g.suppressed = f.suppressed
      /\ g.lost = f.lost /\ g.told = f.told /\ g.resets = f.resets
  BY <1>5 DEF Fates
<1> QED
  BY <1>2, <1>6, <1>7

\* Deferred messages are served from the stash: an expired one leaves it for a
\* turn, the rest wait for their floors.
LEMMA ServiceIs ==
  ASSUME NEW t \in Ticks, NEW m \in Mems, GoodStash(m.stash), NEW f \in Fates,
         t.turn = NoTurn, ServiceDeferred(t, m, f)
  PROVE  /\ fate' = f /\ mem' \in Mems /\ GoodStash(mem'.stash)
         /\ mem'.seen = m.seen /\ mem'.gen = m.gen /\ mem'.latch = m.latch
         /\ mem'.stopped = m.stopped /\ mem'.unhanded = m.unhanded /\ mem'.covering = m.covering
         /\ tick' \in Ticks /\ tick'.pc \in {"lateTurn", "retry"}
         /\ tick'.plan = t.plan /\ tick'.batch = t.batch
         /\ tick'.todo \subseteq StashConvs(mem'.stash)
         /\ tick'.pc = "retry" => tick'.turn = NoTurn
         /\ tick'.turn.msgs \cup Stashed(mem'.stash) = Stashed(m.stash)
         /\ tick'.turn.msgs \cap Stashed(mem'.stash) = {}
         /\ \A e \in tick'.turn.shown : e.gen = tick'.turn.gen
<1>1. PICK todo, K : todo = RetryableDeferred(m.stash) /\ K = Expireds(m.stash)
  OBVIOUS
<1>2. fate' = f
  BY DEF ServiceDeferred
<1>3. m.gen \in Nat
  BY AutoReplyAssumption DEF Mems
<1>4. CASE K # {}
  <2>1. PICK k \in K : k = Oldest(m.stash, K)
    BY <1>1, <1>4, OldestIs
  <2>2. PICK late : late = m.stash[k]
    OBVIOUS
  <2>3. k \in DOMAIN m.stash /\ GoodEntry(late)
    BY <1>1, <2>2 DEF Expireds, GoodStash
  <2>4. HeldMsgs(late) = {i \in Stashed(m.stash) : Conv(i) = late.conv}
    BY <2>2, <2>3, StashHolds
  <2>5. PICK turn : turn = HeldTurn(late, {}, m.gen)
    OBVIOUS
  <2>6. turn \in Turns /\ turn.msgs = HeldMsgs(late) /\ \A e \in turn.shown : e.gen = turn.gen
    BY <1>3, <2>3, <2>5, HeldTurnIs
  <2>7. PICK s : s = ClearDeferred(m.stash, {late.conv})
    OBVIOUS
  <2>8. /\ GoodStash(s) /\ Stashed(s) = {i \in Stashed(m.stash) : Conv(i) \notin {late.conv}}
        /\ StashConvs(s) = StashConvs(m.stash) \ {late.conv}
    BY <2>7, ClearKeeps
  <2>9. /\ tick' = [t EXCEPT !.pc = "lateTurn", !.todo = todo, !.turn = turn]
        /\ mem' = [m EXCEPT !.stash = s]
    BY <1>1, <1>4, <2>1, <2>2, <2>5, <2>7 DEF ServiceDeferred
  <2>10. \A j \in DOMAIN m.stash \ K : m.stash[j].conv # late.conv
    BY <2>1, <2>2, <2>3 DEF GoodStash
  <2>11. todo \subseteq StashConvs(s)
    BY <1>1, <2>8, <2>10, StashHolds DEF RetryableDeferred
  <2>12. todo \subseteq Convs
    BY <2>8, <2>11, StashHolds
  <2>13. /\ mem' \in Mems /\ mem'.stash = s
         /\ mem'.seen = m.seen /\ mem'.gen = m.gen /\ mem'.latch = m.latch
         /\ mem'.stopped = m.stopped /\ mem'.unhanded = m.unhanded /\ mem'.covering = m.covering
    BY <2>8, <2>9 DEF Mems, GoodStash
  <2>14. /\ tick' \in Ticks /\ tick'.pc = "lateTurn" /\ tick'.plan = t.plan /\ tick'.batch = t.batch
         /\ tick'.todo = todo /\ tick'.turn = turn
    BY <2>6, <2>9, <2>12 DEF Ticks, Pcs
  <2> QED
    BY <1>2, <2>4, <2>6, <2>8, <2>11, <2>13, <2>14
<1>5. CASE K = {}
  <2>1. tick' = [t EXCEPT !.pc = "retry", !.todo = todo] /\ mem' = m
    BY <1>1, <1>5 DEF ServiceDeferred
  <2>2. todo \subseteq StashConvs(m.stash) /\ todo \subseteq Convs
    BY <1>1, StashHolds DEF RetryableDeferred
  <2>3. /\ tick' \in Ticks /\ tick'.pc = "retry" /\ tick'.plan = t.plan /\ tick'.batch = t.batch
        /\ tick'.todo = todo /\ tick'.turn = t.turn
    BY <2>1, <2>2 DEF Ticks, Pcs
  <2> QED
    BY <1>2, <2>1, <2>2, <2>3, Constants
<1> QED
  BY <1>4, <1>5

-----------------------------------------------------------------------------
(* The ways a step of the tick goes on *)

Self == {c \in Convs : floor[c] = "self"}

\* The relay's side of a step.
RelayTyped ==
  /\ scope \subseteq Ids /\ acked \subseteq scope
  /\ floor \in [Convs -> {"free", "self", "other"}] /\ leaked \subseteq Convs

\* The tick ends with every message of m accounted for.
LEMMA EndKeeps ==
  ASSUME NEW m \in Mems, GoodStash(m.stash), NEW f \in Fates, TickEnds(m, f),
         RelayTyped', Self' = leaked',
         Fated(m.seen, Stashed(m.stash), f), Judged(acked', m.seen, f)
  PROVE  LoopInv'
<1>1. /\ tick' = IdleTick /\ mem' \in Mems /\ fate' \in Fates /\ GoodStash(mem'.stash)
      /\ mem'.unhanded = {} /\ mem'.covering = {} /\ mem'.seen = m.seen
      /\ mem'.stopped = m.stopped
      /\ Stashed(mem'.stash) = IF m.stopped THEN {} ELSE Stashed(m.stash)
      /\ m.stopped => StashConvs(mem'.stash) = {}
      /\ fate' = [f EXCEPT !.dead = f.dead \cup (Stashed(m.stash) \ Stashed(mem'.stash))]
  BY EndsIs
<1>2. /\ fate'.started = f.started /\ fate'.declined = f.declined
      /\ fate'.suppressed = f.suppressed /\ fate'.lost = f.lost
      /\ fate'.dead = f.dead \cup (Stashed(m.stash) \ Stashed(mem'.stash))
  BY <1>1 DEF Fates
<1>3. Typed'
  BY <1>1, Constants DEF Typed, RelayTyped
<1>4. Shaped'
  BY <1>1, Constants DEF Shaped, StampsMatch
<1>5. FloorsKept'
  <2>1. Owed' = {}
    BY <1>1, Constants DEF Owed
  <2> QED
    BY <1>1, <2>1, Constants DEF FloorsKept, Self
<1>6. InHand' = Stashed(mem'.stash)
  BY <1>1, Constants DEF InHand
<1>7. Fated(mem'.seen, Stashed(mem'.stash), fate')
  BY <1>1, <1>2 DEF Fated
<1>8. Judged(acked', mem'.seen, fate')
  BY <1>1, <1>2 DEF Judged
<1>9. Placed'
  BY <1>1, Constants DEF Placed
<1> QED
  BY <1>3, <1>4, <1>5, <1>6, <1>7, <1>8, <1>9 DEF LoopInv

\* The tick goes on to what is held back.
LEMMA ServiceKeeps ==
  ASSUME NEW t \in Ticks, NEW m \in Mems, GoodStash(m.stash), NEW f \in Fates,
         t.turn = NoTurn, t.plan = NoPlan, t.batch = {}, ServiceDeferred(t, m, f),
         ~m.stopped, m.unhanded = {}, m.covering = {},
         RelayTyped', Self' = leaked',
         Fated(m.seen, Stashed(m.stash), f), Judged(acked', m.seen, f)
  PROVE  LoopInv'
<1>1. /\ fate' = f /\ mem' \in Mems /\ GoodStash(mem'.stash)
      /\ mem'.seen = m.seen
      /\ mem'.stopped = m.stopped /\ mem'.unhanded = m.unhanded /\ mem'.covering = m.covering
      /\ tick' \in Ticks /\ tick'.pc \in {"lateTurn", "retry"}
      /\ tick'.plan = t.plan /\ tick'.batch = t.batch
      /\ tick'.todo \subseteq StashConvs(mem'.stash)
      /\ tick'.pc = "retry" => tick'.turn = NoTurn
      /\ tick'.turn.msgs \cup Stashed(mem'.stash) = Stashed(m.stash)
      /\ tick'.turn.msgs \cap Stashed(mem'.stash) = {}
      /\ \A e \in tick'.turn.shown : e.gen = tick'.turn.gen
  BY ServiceIs
<1>2. Typed'
  BY <1>1 DEF Typed, RelayTyped
<1>3. Shaped'
  BY <1>1 DEF Shaped, StampsMatch
<1>4. FloorsKept'
  <2>1. Owed' = {}
    BY <1>1, Constants DEF Owed
  <2> QED
    BY <1>1, <2>1 DEF FloorsKept, Self
<1>5. InHand' = Stashed(m.stash)
  BY <1>1 DEF InHand
<1>6. Fated(mem'.seen, InHand', fate') /\ Judged(acked', mem'.seen, fate')
  BY <1>1, <1>5
<1>7. Placed'
  BY <1>1 DEF Placed
<1> QED
  BY <1>2, <1>3, <1>4, <1>6, <1>7 DEF LoopInv

\* The batch is marked seen and its acknowledgement starts.
LEMMA HandOverKeeps ==
  ASSUME NEW t \in Ticks, NEW m \in Mems, GoodStash(m.stash), NEW f \in Fates,
         HandOver(t, m, f), RelayTyped', Self' = leaked',
         t.turn = NoTurn, t.plan = NoPlan, t.batch \subseteq scope',
         ~m.stopped, m.unhanded = {}, m.covering = {},
         t.kept \subseteq t.real, t.real \cap m.seen = {},
         Judged(t.batch, m.seen \cup t.real, f),
         Fated(m.seen, Stashed(m.stash), f), Judged(acked', m.seen, f)
  PROVE  LoopInv'
<1>1. /\ tick' = [t EXCEPT !.pc = "acking", !.real = {}, !.settings = IdleTick.settings]
      /\ mem' = [m EXCEPT !.seen = m.seen \cup t.real, !.unhanded = t.kept]
      /\ fate' = [f EXCEPT !.suppressed = f.suppressed \cup (t.real \ t.kept)]
  BY DEF HandOver
<1>2. /\ tick' \in Ticks /\ tick'.pc = "acking" /\ tick'.turn = NoTurn /\ tick'.plan = NoPlan
      /\ tick'.batch = t.batch /\ tick'.kept = t.kept
  <2>1. IdleTick.settings \in Chosen
    BY DEF IdleTick, Chosen
  <2> QED
    BY <1>1, <2>1 DEF Ticks, Pcs
<1>3. /\ mem' \in Mems /\ mem'.seen = m.seen \cup t.real /\ mem'.unhanded = t.kept
      /\ mem'.covering = {} /\ mem'.stash = m.stash /\ ~mem'.stopped
  BY <1>1 DEF Mems, Ticks
<1>4. /\ fate' \in Fates /\ fate'.started = f.started /\ fate'.declined = f.declined
      /\ fate'.suppressed = f.suppressed \cup (t.real \ t.kept) /\ fate'.lost = f.lost
      /\ fate'.dead = f.dead
  BY <1>1 DEF Fates, Ticks
<1>5. Typed'
  BY <1>2, <1>3, <1>4 DEF Typed, RelayTyped
<1>6. Shaped'
  BY <1>2, <1>3, Constants DEF Shaped, StampsMatch
<1>7. FloorsKept'
  <2>1. Owed' = {}
    BY <1>2, Constants DEF Owed
  <2> QED
    BY <1>2, <2>1 DEF FloorsKept, Self
<1>8. InHand' = Stashed(m.stash) \cup t.kept
  BY <1>2, <1>3, Constants DEF InHand
<1>9. Fated(mem'.seen, InHand', fate')
  <2>1. /\ t.kept \cap Stashed(m.stash) = {} /\ t.kept \cap f.dead = {}
        /\ t.kept \cap {i \in Ids : f.started[i] > 0} = {}
    BY DEF Fated
  <2> QED
    BY <1>3, <1>4, <1>8, <2>1 DEF Fated
<1>10. Judged(acked', mem'.seen, fate') /\ Judged(tick'.batch, mem'.seen, fate')
  BY <1>2, <1>3, <1>4 DEF Judged
<1>11. t.kept \cap Stashed(m.stash) = {}
  BY DEF Fated
<1>12. Placed'
  BY <1>2, <1>3, <1>10, <1>11 DEF Placed
<1> QED
  BY <1>5, <1>6, <1>7, <1>9, <1>10, <1>12 DEF LoopInv

-----------------------------------------------------------------------------
(* Every step keeps the invariant *)

LEMMA LoopInit == Init => LoopInv
<1> SUFFICES ASSUME Init PROVE LoopInv
  OBVIOUS
<1>1. /\ scope \subseteq Ids /\ acked = {} /\ leaked = {} /\ tick = IdleTick /\ fate = NoFate
      /\ floor = [c \in Convs |-> "free"]
      /\ \E g \in Gens :
           mem = [seen |-> {}, stash |-> <<>>, latch |-> FreshLatch, gen |-> g,
                  stopped |-> FALSE, unhanded |-> {}, covering |-> {}]
  BY AutoReplyAssumption DEF Init
<1>2. GoodStash(mem.stash) /\ Stashed(mem.stash) = {} /\ StashConvs(mem.stash) = {}
  BY <1>1, AutoReplyAssumption DEF GoodStash, Stashed, StashConvs
<1>3. mem \in Mems
  BY <1>1, <1>2, Constants, AutoReplyAssumption DEF Mems, GoodStash
<1>4. fate \in Fates
  BY <1>1 DEF NoFate, Fates
<1>5. Typed
  BY <1>1, <1>2, <1>3, <1>4, Constants DEF Typed
<1>6. Shaped
  BY <1>1, <1>2, Constants DEF Shaped, StampsMatch
<1>7. FloorsKept
  BY <1>1, Constants DEF FloorsKept, Owed
<1>8. Fated(mem.seen, InHand, fate)
  BY <1>1, <1>2, Constants DEF Fated, InHand, NoFate
<1>9. Judged(acked, mem.seen, fate) /\ Placed
  BY <1>1, <1>2, Constants DEF Judged, Placed
<1> QED
  BY <1>5, <1>6, <1>7, <1>8, <1>9 DEF LoopInv

LEMMA PollStep == LoopInv /\ Poll => LoopInv'
<1> SUFFICES ASSUME LoopInv, Poll PROVE LoopInv'
  OBVIOUS
<1>1. /\ tick.pc = "idle" /\ ~mem.stopped
      /\ scope' = scope /\ acked' = acked /\ floor' = floor /\ leaked' = leaked /\ mem' = mem /\ fate' = fate
  BY DEF Poll
<1>2. PICK S \in SUBSET (scope \ acked), s \in Settings :
        tick' = [IdleTick EXCEPT !.pc = "polled", !.settings = s, !.batch = S]
  BY DEF Poll
<1>3. Typed /\ Shaped /\ FloorsKept /\ Placed
  BY DEF LoopInv
<1>4. S \subseteq scope /\ S \subseteq Ids
  BY <1>3 DEF Typed
<1>5. /\ tick' \in Ticks /\ tick'.pc = "polled" /\ tick'.turn = NoTurn /\ tick'.plan = NoPlan
      /\ tick'.batch = S
  BY <1>2, <1>4, Constants DEF Ticks, Pcs, Chosen
<1>6. Typed'
  BY <1>1, <1>3, <1>4, <1>5 DEF Typed
<1>7. Shaped'
  BY <1>1, <1>3, <1>5, Constants DEF Shaped, StampsMatch
<1>8. FloorsKept'
  BY <1>1, <1>3, <1>5, Constants DEF FloorsKept, Owed, Shaped
<1>9. InHand' = InHand
  BY <1>1, <1>3, <1>5 DEF InHand, Shaped
<1>10. Placed'
  BY <1>1, <1>3, <1>5 DEF Placed
<1> QED
  BY <1>1, <1>6, <1>7, <1>8, <1>9, <1>10 DEF LoopInv

\* Outside the turns and the hand-over the loop holds its stash and no more.
LEMMA HandIsStash ==
  ASSUME LoopInv, tick.pc \notin {"acking", "acquiring", "turn", "lateTurn", "retryTurn"}
  PROVE  InHand = Stashed(mem.stash) /\ mem.unhanded = {} /\ mem.covering = {} /\ tick.turn = NoTurn
<1>1. mem.unhanded = {} /\ mem.covering = {} /\ tick.turn = NoTurn
  BY DEF LoopInv, Shaped
<1> QED
  BY <1>1, Constants DEF InHand

\* No floor is owed by a tick that has not asked for one.
LEMMA NothingOwed ==
  ASSUME LoopInv, tick.pc \notin {"acquiring", "turn", "releasing", "retryTurn"}
  PROVE  Self = leaked /\ Owed = {} /\ tick.plan = NoPlan
<1>1. tick.plan = NoPlan /\ Owed = {}
  BY Constants DEF LoopInv, Shaped, Owed
<1> QED
  BY <1>1 DEF LoopInv, FloorsKept, Self

LEMMA CountResetsIs ==
  ASSUME NEW f \in Fates, NEW a, NEW b, NEW g, g = CountResets(f, a, b)
  PROVE  /\ g \in Fates /\ g.started = f.started /\ g.dead = f.dead
         /\ g.declined = f.declined /\ g.suppressed = f.suppressed /\ g.lost = f.lost
         /\ g.peerTurns = f.peerTurns
<1>1. PICK C : C = {c \in Convs : b.used[c] < a.used[c] \/ c \in a.escalated \ b.escalated}
  OBVIOUS
<1>2. PICK r : r = [c \in Convs |-> f.resets[c] + (IF c \in C THEN 1 ELSE 0)]
  OBVIOUS
<1>3. r \in [Convs -> Nat]
  BY <1>2 DEF Fates
<1>4. g = [f EXCEPT !.resets = r, !.told = f.told \ C]
  BY <1>1, <1>2 DEF CountResets
<1> QED
  BY <1>3, <1>4 DEF Fates

LEMMA ProcessBatchStep == LoopInv /\ ProcessBatch => LoopInv'
<1> SUFFICES ASSUME LoopInv, ProcessBatch PROVE LoopInv'
  OBVIOUS
<1>1. /\ tick.pc = "polled"
      /\ scope' = scope /\ acked' = acked /\ floor' = floor /\ leaked' = leaked
  BY DEF ProcessBatch
<1>2. Typed /\ Shaped /\ FloorsKept /\ Placed
  BY DEF LoopInv
<1>3. InHand = Stashed(mem.stash) /\ mem.unhanded = {} /\ mem.covering = {} /\ tick.turn = NoTurn
  BY <1>1, HandIsStash
<1>4. Self = leaked /\ tick.plan = NoPlan
  BY <1>1, NothingOwed
<1>5. RelayTyped' /\ Self' = leaked'
  BY <1>1, <1>2, <1>4 DEF RelayTyped, Self, Typed
<1>6. tick \in Ticks /\ mem \in Mems /\ GoodStash(mem.stash) /\ fate \in Fates /\ tick.batch \subseteq scope
  BY <1>2 DEF Typed
<1>7. Fated(mem.seen, Stashed(mem.stash), fate) /\ Judged(acked', mem.seen, fate)
  BY <1>1, <1>3 DEF LoopInv
<1>8. CASE mem.stopped
  <2>1. TickEnds(mem, fate)
    BY <1>8 DEF ProcessBatch
  <2> QED
    BY <1>5, <1>6, <1>7, <2>1, EndKeeps
<1>9. CASE ~mem.stopped
  <2>0. PICK gen \in Gens : AdmitBatch(gen)
    BY <1>9 DEF ProcessBatch
  <2> DEFINE s == tick.settings
  <2> DEFINE real == {i \in tick.batch : RealInbound(i, s, gen)}
  <2> DEFINE declined == {i \in tick.batch : Messages[i].trigger /\ ~Autowakes(i, s, gen)}
  <2> DEFINE reconciled == RefreshBudgetForProgressSignals(
                             ReconcilePeerLatches(mem.latch, s), tick.batch, gen)
  <2> DEFINE spoken == ResetPeerLatch(reconciled, ConvsOf({i \in real : FromOperator(i)}))
  <2> DEFINE rated == ApplyPeerRateGate(spoken, real)
  <2> DEFINE gated == ApplyPeerLatch(rated.latch, s, rated.kept)
  <2> DEFINE notices == ToEscalate(gated.latch, gated.latched)
  <2> DEFINE latch == [gated.latch EXCEPT !.escalated = @ \cup gated.latched]
  <2> DEFINE M == [mem EXCEPT !.gen = gen, !.latch = latch]
  <2> DEFINE f == [CountResets(fate, mem.latch, spoken) EXCEPT !.declined = @ \cup declined]
  <2> DEFINE t == [tick EXCEPT !.real = real, !.kept = gated.kept,
                               !.latched = gated.latched, !.notices = notices]
  <2>1. IF notices = {} THEN HandOver(t, M, f)
        ELSE tick' = [t EXCEPT !.pc = "notice"] /\ mem' = M /\ fate' = f
    BY <2>0, Zenon DEF AdmitBatch
  <2>2. real \in SUBSET Ids /\ declined \in SUBSET Ids
    BY <1>6 DEF Ticks
  <2>3. spoken \in Latches
    <3>1. mem.latch \in Latches /\ tick.batch \in SUBSET Ids
      BY <1>6 DEF Mems, Ticks
    <3>2. ReconcilePeerLatches(mem.latch, s) \in Latches
      BY <3>1, ResetIs DEF ReconcilePeerLatches
    <3> HIDE DEF s, real
    <3>3. reconciled \in Latches
      BY <3>1, <3>2, RefreshIs
    <3> HIDE DEF reconciled
    <3> QED
      BY <3>3, ResetIs
  <2>4. real \cap mem.seen = {}
    BY DEF RealInbound
  <2>5. \A i \in tick.batch : Messages[i].trigger => i \in mem.seen \cup real \cup declined
    BY DEF RealInbound
  <2> HIDE DEF s, real, declined, reconciled, spoken
  <2>6. rated.kept \subseteq real /\ rated.latch \in Latches
    BY <2>2, <2>3, RateGateIs
  <2> HIDE DEF rated
  <2>7. gated.kept \subseteq real /\ gated.latched \subseteq Convs /\ gated.latch \in Latches
    BY <2>2, <2>6, LatchIs
  <2> HIDE DEF gated
  <2>8. notices \subseteq Convs /\ latch \in Latches
    BY <2>7 DEF ToEscalate, Latches
  <2> HIDE DEF notices, latch
  <2>10. PICK m : m = M
    OBVIOUS
  <2>11. /\ m \in Mems /\ m.seen = mem.seen /\ m.stash = mem.stash /\ ~m.stopped
         /\ m.unhanded = {} /\ m.covering = {}
    BY <1>3, <1>6, <1>9, <2>8, <2>10 DEF Mems
  <2>12. /\ f \in Fates /\ f.started = fate.started /\ f.dead = fate.dead
         /\ f.declined = fate.declined \cup declined
         /\ f.suppressed = fate.suppressed /\ f.lost = fate.lost
    <3>1. PICK g : g = CountResets(fate, mem.latch, spoken)
      OBVIOUS
    <3>2. /\ g \in Fates /\ g.started = fate.started /\ g.dead = fate.dead
          /\ g.declined = fate.declined
          /\ g.suppressed = fate.suppressed /\ g.lost = fate.lost
      <4>1. fate \in Fates
        BY <1>6
      <4> QED
        BY ONLY <3>1, <4>1, CountResetsIs
    <3>3. f = [g EXCEPT !.declined = g.declined \cup declined]
      BY <3>1
    <3> HIDE DEF f, M, t
    <3> QED
      BY <2>2, <3>2, <3>3 DEF Fates
  <2>13. /\ t \in Ticks /\ t.turn = NoTurn /\ t.plan = NoPlan /\ t.batch = tick.batch
         /\ t.real = real /\ t.kept = gated.kept
    BY <1>3, <1>4, <1>6, <2>2, <2>7, <2>8 DEF Ticks
  <2> HIDE DEF M, t, f
  <2>14. Fated(m.seen, Stashed(m.stash), f) /\ Judged(acked', m.seen, f)
    BY <1>7, <2>11, <2>12 DEF Fated, Judged
  <2>15. real \cap m.seen = {}
    BY <2>4, <2>11
  <2>16. Judged(t.batch, m.seen \cup real, f)
    BY <2>5, <2>11, <2>12, <2>13 DEF Judged
  <2>17. CASE notices = {}
    <3>1. HandOver(t, m, f)
      BY <2>1, <2>10, <2>17
    <3>2. GoodStash(m.stash) /\ t.batch \subseteq scope' /\ t.kept \subseteq t.real
      BY <1>1, <1>6, <2>7, <2>11, <2>13
    <3> QED
      BY <1>5, <2>11, <2>12, <2>13, <2>14, <2>15, <2>16, <3>1, <3>2, HandOverKeeps
  <2>18. CASE notices # {}
    <3>1. tick' = [t EXCEPT !.pc = "notice"] /\ mem' = m /\ fate' = f
      BY <2>1, <2>10, <2>18
    <3>2. /\ tick' \in Ticks /\ tick'.pc = "notice" /\ tick'.turn = NoTurn /\ tick'.plan = NoPlan
          /\ tick'.batch = tick.batch /\ tick'.real = real /\ tick'.kept = gated.kept
      BY <2>13, <3>1 DEF Ticks, Pcs
    <3>3. Typed'
      BY <1>1, <1>5, <1>6, <2>11, <2>12, <3>1, <3>2 DEF Typed, RelayTyped
    <3>4. Shaped'
      BY <2>11, <3>1, <3>2, Constants DEF Shaped, StampsMatch
    <3>5. FloorsKept'
      <4>1. Owed' = {}
        BY <3>2, Constants DEF Owed
      <4> QED
        BY <1>5, <3>2, <4>1 DEF FloorsKept, Self
    <3>6. InHand' = Stashed(m.stash)
      BY <2>11, <3>1, <3>2, Constants DEF InHand
    <3>7. Placed'
      BY <2>7, <2>11, <2>13, <2>15, <2>16, <3>1, <3>2 DEF Placed
    <3> QED
      BY <2>14, <3>1, <3>3, <3>4, <3>5, <3>6, <3>7 DEF LoopInv
  <2> QED
    BY <2>17, <2>18
<1> QED
  BY <1>8, <1>9

LEMMA NoticeStep ==
  ASSUME NEW c \in Convs, LoopInv, NoticeSettles(c)
  PROVE  LoopInv'
<1>1. /\ tick.pc = "notice"
      /\ scope' = scope /\ acked' = acked /\ floor' = floor /\ leaked' = leaked
  BY DEF NoticeSettles
<1>2. Typed /\ Shaped /\ FloorsKept /\ Placed
  BY DEF LoopInv
<1>3. InHand = Stashed(mem.stash) /\ mem.unhanded = {} /\ mem.covering = {} /\ tick.turn = NoTurn
  BY <1>1, HandIsStash
<1>4. Self = leaked /\ tick.plan = NoPlan
  BY <1>1, NothingOwed
<1>5. RelayTyped' /\ Self' = leaked'
  BY <1>1, <1>2, <1>4 DEF RelayTyped, Self, Typed
<1>6. tick \in Ticks /\ mem \in Mems /\ GoodStash(mem.stash) /\ fate \in Fates /\ tick.batch \subseteq scope
  BY <1>2 DEF Typed
<1>7. PICK f, t : /\ f = [fate EXCEPT !.told = fate.told \cup {c}]
                  /\ t = [tick EXCEPT !.notices = tick.notices \ {c}]
  OBVIOUS
<1>8. /\ f \in Fates /\ f.started = fate.started /\ f.dead = fate.dead
      /\ f.declined = fate.declined /\ f.suppressed = fate.suppressed /\ f.lost = fate.lost
  BY <1>6, <1>7 DEF Fates
<1>9. /\ t \in Ticks /\ t.turn = NoTurn /\ t.plan = NoPlan /\ t.batch = tick.batch
      /\ t.real = tick.real /\ t.kept = tick.kept /\ t.pc = "notice"
  BY <1>1, <1>3, <1>4, <1>6, <1>7 DEF Ticks
<1>10. Fated(mem.seen, Stashed(mem.stash), f) /\ Judged(acked', mem.seen, f)
  BY <1>1, <1>3, <1>8 DEF LoopInv, Fated, Judged
<1>11. /\ t.kept \subseteq t.real /\ t.real \cap mem.seen = {}
       /\ Judged(t.batch, mem.seen \cup t.real, f)
  BY <1>1, <1>2, <1>8, <1>9 DEF Placed, Judged
<1>12. CASE mem.stopped
  <2>1. TickEnds(mem, f)
    BY <1>7, <1>12 DEF NoticeSettles
  <2> QED
    BY <1>5, <1>6, <1>8, <1>10, <2>1, EndKeeps
<1>13. CASE ~mem.stopped /\ t.notices = {}
  <2>1. HandOver(t, mem, f)
    BY <1>7, <1>13 DEF NoticeSettles
  <2>2. t.batch \subseteq scope'
    BY <1>1, <1>6, <1>9
  <2> QED
    BY <1>3, <1>5, <1>6, <1>8, <1>9, <1>10, <1>11, <1>13, <2>1, <2>2, HandOverKeeps
<1>14. CASE ~mem.stopped /\ t.notices # {}
  <2>1. tick' = t /\ mem' = mem /\ fate' = f
    BY <1>7, <1>14 DEF NoticeSettles
  <2>2. Typed'
    BY <1>1, <1>5, <1>6, <1>8, <1>9, <2>1 DEF Typed, RelayTyped
  <2>3. Shaped'
    BY <1>3, <1>9, <1>14, <2>1, Constants DEF Shaped, StampsMatch
  <2>4. FloorsKept'
    <3>1. Owed' = {}
      BY <1>9, <2>1, Constants DEF Owed
    <3> QED
      BY <1>5, <1>9, <2>1, <3>1 DEF FloorsKept, Self
  <2>5. InHand' = Stashed(mem.stash)
    BY <1>3, <1>9, <2>1, Constants DEF InHand
  <2>6. Placed'
    BY <1>3, <1>9, <1>11, <2>1 DEF Placed
  <2> QED
    BY <1>10, <2>1, <2>2, <2>3, <2>4, <2>5, <2>6 DEF LoopInv
<1> QED
  BY <1>12, <1>13, <1>14

LEMMA AckStep ==
  ASSUME NEW ok \in BOOLEAN, LoopInv, AckSettles(ok)
  PROVE  LoopInv'
<1>1. /\ tick.pc = "acking" /\ scope' = scope /\ floor' = floor /\ leaked' = leaked
      /\ acked' = IF ok THEN acked \cup tick.batch ELSE acked
  BY DEF AckSettles
<1>2. Typed /\ Shaped /\ FloorsKept /\ Placed
  BY DEF LoopInv
<1>3. /\ mem.covering = {} /\ tick.turn = NoTurn
      /\ mem.unhanded = IF mem.stopped THEN {} ELSE tick.kept
  BY <1>1, <1>2 DEF Shaped
<1>4. Self = leaked /\ Owed = {} /\ tick.plan = NoPlan
  BY <1>1, NothingOwed
<1>5. RelayTyped' /\ Self' = leaked'
  BY <1>1, <1>2, <1>4 DEF RelayTyped, Self, Typed
<1>6. tick \in Ticks /\ mem \in Mems /\ GoodStash(mem.stash) /\ fate \in Fates
  BY <1>2 DEF Typed
<1>7. Judged(acked', mem.seen, fate)
  BY <1>1, <1>2 DEF LoopInv, Judged, Placed
<1>8. Fated(mem.seen, mem.unhanded \cup Stashed(mem.stash), fate)
  <2>1. InHand = mem.unhanded \cup Stashed(mem.stash)
    BY <1>3, Constants DEF InHand
  <2> QED
    BY <2>1 DEF LoopInv
<1>9. CASE mem.stopped
  <2>1. TickEnds(mem, fate)
    BY <1>9 DEF AckSettles
  <2>2. Fated(mem.seen, Stashed(mem.stash), fate)
    BY <1>3, <1>8, <1>9
  <2> QED
    BY <1>5, <1>6, <1>7, <2>1, <2>2, EndKeeps
<1>10. PICK t : t = Acked
  OBVIOUS
<1>11. /\ t \in Ticks /\ t.turn = NoTurn /\ t.plan = NoPlan /\ t.batch = {}
       /\ t.kept = tick.kept
  BY <1>3, <1>4, <1>6, <1>10 DEF Acked, Ticks
<1>12. CASE ~mem.stopped /\ tick.kept = {}
  <2>1. ServiceDeferred(t, mem, fate)
    BY <1>10, <1>12 DEF AckSettles
  <2>2. Fated(mem.seen, Stashed(mem.stash), fate) /\ mem.unhanded = {}
    BY <1>3, <1>8, <1>12
  <2> QED
    BY <1>3, <1>5, <1>6, <1>7, <1>11, <1>12, <2>1, <2>2, ServiceKeeps
<1>13. CASE ~mem.stopped /\ tick.kept # {}
  <2>1. /\ tick' = [t EXCEPT !.pc = "acquiring", !.todo = ConvsOf(tick.kept)]
        /\ mem' = mem /\ fate' = fate
    BY <1>10, <1>13 DEF AckSettles
  <2>2. ConvsOf(tick.kept) \subseteq Convs
    BY <1>6, AutoReplyAssumption DEF ConvsOf, Conv, Ticks
  <2>3. /\ tick' \in Ticks /\ tick'.pc = "acquiring" /\ tick'.turn = NoTurn /\ tick'.plan = NoPlan
        /\ tick'.batch = {} /\ tick'.kept = tick.kept /\ tick'.todo = ConvsOf(tick.kept)
    BY <1>11, <2>1, <2>2 DEF Ticks, Pcs
  <2>4. Typed'
    BY <1>5, <1>6, <2>1, <2>3 DEF Typed, RelayTyped
  <2>5. Shaped'
    BY <1>2, <1>3, <1>13, <2>1, <2>3, Constants DEF Shaped, StampsMatch
  <2>6. FloorsKept'
    <3>1. Owed' = {} /\ tick'.plan.release = {}
      BY <2>3, Constants DEF Owed
    <3> QED
      BY <1>5, <3>1 DEF FloorsKept, Self
  <2>7. InHand' = mem.unhanded \cup Stashed(mem.stash)
    BY <2>1, <2>3, Constants DEF InHand
  <2>8. Placed'
    <3>1. tick'.plan.floored = {} /\ tick'.plan.held = {}
      BY <2>3, Constants
    <3>2. tick.kept = {i \in tick.kept : Conv(i) \in ConvsOf(tick.kept)}
      BY DEF ConvsOf
    <3>3. ConvsOf({}) = {}
      BY DEF ConvsOf
    <3> QED
      BY <1>2, <2>1, <2>3, <3>1, <3>2, <3>3 DEF Placed
  <2> QED
    BY <1>7, <1>8, <2>1, <2>4, <2>5, <2>6, <2>7, <2>8 DEF LoopInv
<1> QED
  BY <1>9, <1>12, <1>13

\* One conversation joins the plan: its messages on one side or the other.
LEMMA AcquireStep ==
  ASSUME NEW c \in Convs, LoopInv, AcquireFloor(c)
  PROVE  LoopInv'
<1>1. /\ tick.pc = "acquiring" /\ c \in tick.todo
      /\ scope' = scope /\ acked' = acked /\ mem' = mem /\ fate' = fate
  BY DEF AcquireFloor
<1>2. Typed /\ Shaped /\ FloorsKept /\ Placed
  BY DEF LoopInv
<1>3. PICK msgs : msgs = KeptIn(c)
  OBVIOUS
<1>4. tick \in Ticks /\ tick.plan \in Plans
  BY <1>2 DEF Typed, Ticks
<1>5. msgs \subseteq tick.kept /\ msgs \subseteq Ids /\ \A i \in tick.kept : i \in msgs <=> Conv(i) = c
  BY <1>3, <1>4 DEF KeptIn, Ticks
<1>6. /\ tick'.pc = "acquiring" /\ tick'.todo = tick.todo \ {c} /\ tick' \in Ticks
      /\ tick'.kept = tick.kept /\ tick'.batch = tick.batch /\ tick'.turn = tick.turn
      /\ \/ tick'.plan.floored = tick.plan.floored \cup msgs /\ tick'.plan.held = tick.plan.held
         \/ tick'.plan.held = tick.plan.held \cup msgs /\ tick'.plan.floored = tick.plan.floored
      /\ \/ tick'.plan.release = tick.plan.release /\ floor' = floor /\ leaked' = leaked
         \/ /\ tick'.plan.release = tick.plan.release \cup {c}
            /\ floor' = [floor EXCEPT ![c] = "self"] /\ leaked' = leaked \ {c}
            /\ c \in ConvsOf(tick'.plan.floored)
         \/ /\ tick'.plan.release = tick.plan.release
            /\ floor' = [floor EXCEPT ![c] = "self"] /\ leaked' = leaked \cup {c}
  <2>1. PICK td : td = tick.todo \ {c} /\ td \in SUBSET Convs
    BY <1>4 DEF Ticks
  <2>2. PICK floored : floored = [tick EXCEPT !.todo = td, !.plan.floored = tick.plan.floored \cup msgs]
    OBVIOUS
  <2>3. PICK granted : granted = [floored EXCEPT !.plan.release = floored.plan.release \cup {c}]
    OBVIOUS
  <2>4. PICK held : held = [tick EXCEPT !.todo = td, !.plan.held = tick.plan.held \cup msgs]
    OBVIOUS
  <2>5. /\ floored \in Ticks /\ floored.pc = "acquiring" /\ floored.todo = td
        /\ floored.kept = tick.kept /\ floored.batch = tick.batch /\ floored.turn = tick.turn
        /\ floored.plan \in Plans
        /\ floored.plan.floored = tick.plan.floored \cup msgs /\ floored.plan.held = tick.plan.held
        /\ floored.plan.release = tick.plan.release
    BY <1>1, <1>4, <1>5, <2>1, <2>2 DEF Ticks, Plans
  <2>6. /\ granted \in Ticks /\ granted.pc = "acquiring" /\ granted.todo = td
        /\ granted.kept = tick.kept /\ granted.batch = tick.batch /\ granted.turn = tick.turn
        /\ granted.plan.floored = tick.plan.floored \cup msgs /\ granted.plan.held = tick.plan.held
        /\ granted.plan.release = tick.plan.release \cup {c}
    BY <2>3, <2>5 DEF Ticks, Plans
  <2>7. /\ held \in Ticks /\ held.pc = "acquiring" /\ held.todo = td
        /\ held.kept = tick.kept /\ held.batch = tick.batch /\ held.turn = tick.turn
        /\ held.plan.held = tick.plan.held \cup msgs /\ held.plan.floored = tick.plan.floored
        /\ held.plan.release = tick.plan.release
    BY <1>1, <1>4, <1>5, <2>1, <2>4 DEF Ticks, Plans
  <2>8. \/ tick' = floored /\ floor' = floor /\ leaked' = leaked
        \/ /\ tick' = granted /\ floor' = [floor EXCEPT ![c] = "self"] /\ leaked' = leaked \ {c}
           /\ msgs # {}
        \/ tick' = held /\ floor' = floor /\ leaked' = leaked
        \/ tick' = floored /\ floor' = [floor EXCEPT ![c] = "self"] /\ leaked' = leaked \cup {c}
    BY <1>3, <2>1, <2>2, <2>3, <2>4 DEF AcquireFloor
  <2>9. msgs # {} => c \in ConvsOf(tick.plan.floored \cup msgs)
    BY <1>5 DEF ConvsOf
  <2> QED
    BY <2>1, <2>5, <2>6, <2>7, <2>8, <2>9
<1>7. Typed'
  <2>1. floor' \in [Convs -> {"free", "self", "other"}] /\ leaked' \subseteq Convs
    BY <1>2, <1>6 DEF Typed
  <2> QED
    BY <1>1, <1>2, <1>6, <2>1 DEF Typed
<1>8. Shaped'
  BY <1>1, <1>2, <1>6 DEF Shaped, StampsMatch
<1>9. FloorsKept'
  <2>1. Owed = tick.plan.release /\ Owed' = tick'.plan.release
    BY <1>1, <1>6 DEF Owed
  <2>2. /\ {d \in Convs : floor[d] = "self"} = leaked \cup tick.plan.release
        /\ leaked \cap tick.plan.release = {} /\ tick.plan.release \cap tick.todo = {}
        /\ tick.plan.release \subseteq ConvsOf(tick.plan.floored)
    BY <1>1, <1>2, <2>1 DEF FloorsKept
  <2>3. floor \in [Convs -> {"free", "self", "other"}]
    BY <1>2 DEF Typed
  <2>4. {d \in Convs : floor'[d] = "self"} = leaked' \cup tick'.plan.release
    BY <1>6, <2>2, <2>3
  <2>5. leaked' \cap tick'.plan.release = {} /\ tick'.plan.release \cap tick'.todo = {}
    BY <1>1, <1>6, <2>2
  <2>6. ConvsOf(tick.plan.floored) \subseteq ConvsOf(tick'.plan.floored)
    BY <1>6 DEF ConvsOf
  <2>7. tick'.plan.release \subseteq ConvsOf(tick'.plan.floored)
    BY <1>6, <2>2, <2>6
  <2> QED
    BY <2>1, <2>4, <2>5, <2>7 DEF FloorsKept
<1>10. InHand' = InHand
  BY <1>1, <1>6 DEF InHand
<1>11. Placed'
  <2>1. /\ tick.kept = tick.plan.floored \cup tick.plan.held \cup {i \in tick.kept : Conv(i) \in tick.todo}
        /\ tick.plan.floored \cap tick.plan.held = {}
        /\ \A i \in tick.plan.floored \cup tick.plan.held : Conv(i) \notin tick.todo
    BY <1>1, <1>2 DEF Placed, ConvsOf
  <2>2. msgs \cap (tick.plan.floored \cup tick.plan.held) = {}
    BY <1>1, <1>5, <2>1
  <2>3. tick'.kept = tick'.plan.floored \cup tick'.plan.held \cup {i \in tick'.kept : Conv(i) \in tick'.todo}
    BY <1>1, <1>5, <1>6, <2>1
  <2>4. tick'.plan.floored \cap tick'.plan.held = {}
    BY <1>6, <2>1, <2>2
  <2>5. \A i \in tick'.plan.floored \cup tick'.plan.held : Conv(i) \notin tick'.todo
    BY <1>5, <1>6, <2>1
  <2>6. ConvsOf(tick'.plan.floored \cup tick'.plan.held) \cap tick'.todo = {}
    BY <2>5 DEF ConvsOf
  <2>7. mem'.unhanded \cap Stashed(mem'.stash) = {}
    BY <1>1, <1>2 DEF Placed
  <2> QED
    BY <1>6, <2>3, <2>4, <2>6, <2>7 DEF Placed
<1> QED
  BY <1>1, <1>7, <1>8, <1>9, <1>10, <1>11 DEF LoopInv

\* Handing floors back leaves none but those the relay will let expire.
LEMMA ReleaseKeeps ==
  ASSUME NEW C \in SUBSET Convs, ReleaseFloors(C), leaked \subseteq Convs,
         floor \in [Convs -> {"free", "self", "other"}],
         Self = leaked \cup C, leaked \cap C = {}
  PROVE  /\ floor' \in [Convs -> {"free", "self", "other"}] /\ leaked' \subseteq Convs
         /\ Self' = leaked'
<1>1. PICK failed \in SUBSET C :
        /\ floor' = [c \in Convs |-> IF c \in C \ failed THEN "free" ELSE floor[c]]
        /\ leaked' = (leaked \ C) \cup failed
  BY DEF ReleaseFloors
<1>2. floor' \in [Convs -> {"free", "self", "other"}] /\ leaked' \subseteq Convs
  BY <1>1
<1>3. \A c \in Convs : floor'[c] = "self" <=> c \in leaked'
  BY <1>1 DEF Self
<1> QED
  BY <1>2, <1>3 DEF Self

LEMMA PlanStep == LoopInv /\ PlanSettles => LoopInv'
<1> SUFFICES ASSUME LoopInv, PlanSettles PROVE LoopInv'
  OBVIOUS
<1>1. tick.pc = "acquiring" /\ tick.todo = {} /\ scope' = scope /\ acked' = acked
  BY DEF PlanSettles
<1>2. Typed /\ Shaped /\ FloorsKept /\ Placed
  BY DEF LoopInv
<1>3. /\ mem.covering = {} /\ tick.turn = NoTurn
      /\ mem.unhanded = IF mem.stopped THEN {} ELSE tick.kept
  BY <1>1, <1>2 DEF Shaped
<1>4. /\ tick \in Ticks /\ mem \in Mems /\ GoodStash(mem.stash) /\ fate \in Fates
      /\ tick.batch \subseteq scope /\ leaked \subseteq Convs
      /\ scope \subseteq Ids /\ acked \subseteq scope /\ floor \in [Convs -> {"free", "self", "other"}]
  BY <1>2 DEF Typed
<1>5. PICK F, R, D : F = tick.plan.floored /\ R = tick.plan.release /\ D = tick.plan.held
  OBVIOUS
<1>6. F \in SUBSET Ids /\ R \in SUBSET Convs /\ D \in SUBSET Ids
  BY <1>4, <1>5 DEF Ticks, Plans
<1>7. Self = leaked \cup R /\ leaked \cap R = {}
  BY <1>1, <1>2, <1>5 DEF FloorsKept, Owed, Self
<1>8. Fated(mem.seen, mem.unhanded \cup Stashed(mem.stash), fate)
  <2>1. InHand = mem.unhanded \cup Stashed(mem.stash)
    BY <1>3, Constants DEF InHand
  <2> QED
    BY <2>1 DEF LoopInv
<1>9. Judged(acked', mem.seen, fate)
  BY <1>1 DEF LoopInv
<1>10. CASE mem.stopped
  <2>1. ReleaseFloors(R) /\ TickEnds(mem, fate)
    BY <1>5, <1>10 DEF PlanSettles
  <2>2. RelayTyped' /\ Self' = leaked'
    BY <1>1, <1>4, <1>6, <1>7, <2>1, ReleaseKeeps DEF RelayTyped
  <2>3. Fated(mem.seen, Stashed(mem.stash), fate)
    BY <1>3, <1>8, <1>10
  <2> QED
    BY <1>4, <1>9, <2>1, <2>2, <2>3, EndKeeps
<1>11. CASE ~mem.stopped
  <2>1. PICK put : put = StashDeferred(mem.stash, D, mem.gen)
    OBVIOUS
  <2>2. mem.gen \in Nat
    BY <1>4, AutoReplyAssumption DEF Mems
  <2>3. PICK H, H2 : H = Stashed(mem.stash) /\ H2 = Stashed(put.stash)
    OBVIOUS
  <2>4. GoodStash(put.stash) /\ H2 \subseteq H \cup D /\ put.dropped = (H \cup D) \ H2
    <3>1. GoodStash(mem.stash)
      BY <1>4
    <3>2. /\ GoodStash(put.stash)
          /\ Stashed(put.stash) \subseteq Stashed(mem.stash) \cup D
          /\ put.dropped = (Stashed(mem.stash) \cup D) \ Stashed(put.stash)
      <4>1. PICK s, g : s = mem.stash /\ g = mem.gen
        OBVIOUS
      <4>2. GoodStash(s) /\ g \in Nat /\ put = StashDeferred(s, D, g) /\ D \in SUBSET Ids
        BY <1>6, <2>1, <2>2, <3>1, <4>1
      <4>3. /\ GoodStash(put.stash)
            /\ Stashed(put.stash) \subseteq Stashed(s) \cup D
            /\ put.dropped = (Stashed(s) \cup D) \ Stashed(put.stash)
        BY ONLY <4>2, StashDeferredKeeps
      <4> QED
        BY ONLY <4>1, <4>3
    <3> QED
      BY ONLY <2>3, <3>2
  <2>5. mem.unhanded = F \cup D /\ F \cap D = {} /\ (F \cup D) \cap H = {}
    BY <1>1, <1>2, <1>3, <1>5, <1>11, <2>3 DEF Placed
  <2>6. H \subseteq Ids /\ H2 \subseteq Ids
    BY <1>4, <2>3, <2>4, StashHolds
  <2>7. PICK m, f : /\ m = [mem EXCEPT !.stash = put.stash, !.unhanded = {}]
                    /\ f = [fate EXCEPT !.dead = fate.dead \cup put.dropped]
    OBVIOUS
  <2>8. /\ m \in Mems /\ m.stash = put.stash /\ m.unhanded = {} /\ m.seen = mem.seen
        /\ m.covering = {} /\ ~m.stopped /\ m.gen = mem.gen
    BY <1>3, <1>4, <1>11, <2>4, <2>7 DEF Mems, GoodStash
  <2>9. /\ f \in Fates /\ f.started = fate.started /\ f.dead = fate.dead \cup put.dropped
        /\ f.declined = fate.declined /\ f.suppressed = fate.suppressed /\ f.lost = fate.lost
    BY <1>4, <1>6, <2>4, <2>6, <2>7 DEF Fates
  <2>10. Fated(mem.seen, F \cup D \cup H, fate)
    BY <1>8, <2>3, <2>5
  <2>11. Fated(mem.seen, F \cup H2, f)
    BY <2>4, <2>5, <2>9, <2>10 DEF Fated
  <2>12. F \cap H2 = {}
    BY <2>4, <2>5
  <2>13. Judged(acked', mem.seen, f)
    BY <1>9, <2>9 DEF Judged
  <2>14. floor' = floor /\ leaked' = leaked
    BY <1>11 DEF PlanSettles
  <2>15. CASE F # {}
    <3>1. PICK turn : turn = CoveringTurn(put.stash, F, mem.gen)
      OBVIOUS
    <3>2. /\ turn \in Turns /\ turn.covered \subseteq Convs
          /\ turn.msgs = F \cup {i \in H2 : Conv(i) \in turn.covered}
          /\ \A e \in turn.shown : e.gen = turn.gen
      <4>1. /\ turn \in Turns /\ turn.covered \subseteq Convs
            /\ turn.msgs = F \cup {i \in Stashed(put.stash) : Conv(i) \in turn.covered}
            /\ \A e \in turn.shown : e.gen = turn.gen
        <5>1. PICK s, g : s = put.stash /\ g = mem.gen
          OBVIOUS
        <5>2. GoodStash(s) /\ g \in Nat /\ turn = CoveringTurn(s, F, g) /\ F \in SUBSET Ids
          BY <1>6, <2>2, <2>4, <3>1, <5>1
        <5>3. /\ turn \in Turns /\ turn.covered \subseteq Convs
              /\ \A i : i \in turn.msgs <=> i \in F \/ (i \in Stashed(s) /\ Conv(i) \in turn.covered)
              /\ \A e \in turn.shown : e.gen = turn.gen
          <6>1. turn \in Turns
            BY ONLY <5>2, CoveringTurnIs
          <6>2. turn.covered \subseteq Convs
            BY ONLY <5>2, CoveringTurnIs
          <6>3. \A i : i \in turn.msgs <=> i \in F \/ (i \in Stashed(s) /\ Conv(i) \in turn.covered)
            BY ONLY <5>2, CoveringTurnIs
          <6>4. \A e \in turn.shown : e.gen = turn.gen
            BY ONLY <5>2, CoveringTurnIs
          <6> QED
            BY ONLY <6>1, <6>2, <6>3, <6>4
        <5> QED
          BY ONLY <5>1, <5>3
      <4> QED
        BY ONLY <2>3, <4>1
    <3>3. /\ tick' = [tick EXCEPT !.pc = "turn", !.turn = turn]
          /\ mem' = [m EXCEPT !.covering = turn.covered] /\ fate' = f
      BY <1>5, <1>11, <2>1, <2>7, <2>15, <3>1 DEF PlanSettles
    <3>4. /\ tick' \in Ticks /\ tick'.pc = "turn" /\ tick'.turn = turn /\ tick'.plan = tick.plan
          /\ tick'.batch = tick.batch
      BY <1>4, <3>2, <3>3 DEF Ticks, Pcs
    <3>5. /\ mem' \in Mems /\ mem'.stash = put.stash /\ mem'.unhanded = {} /\ mem'.seen = mem.seen
          /\ mem'.covering = turn.covered /\ ~mem'.stopped
      BY <2>8, <3>2, <3>3 DEF Mems
    <3>6. Typed'
      BY <1>1, <1>4, <2>4, <2>9, <2>14, <3>3, <3>4, <3>5 DEF Typed
    <3>7. Shaped'
      BY <3>2, <3>4, <3>5 DEF Shaped, StampsMatch
    <3>8. FloorsKept'
      <4>1. Owed' = R
        BY <1>5, <3>4 DEF Owed
      <4> QED
        BY <1>7, <2>14, <3>4, <4>1 DEF FloorsKept, Self
    <3>9. InHand' = F \cup H2
      BY <2>3, <3>2, <3>4, <3>5 DEF InHand
    <3>10. Placed'
      BY <1>5, <2>3, <2>12, <3>2, <3>4, <3>5 DEF Placed
    <3> QED
      BY <2>11, <2>13, <3>3, <3>5, <3>6, <3>7, <3>8, <3>9, <3>10 DEF LoopInv
  <2>16. CASE F = {}
    <3>1. ServiceDeferred(IdleTick, m, f)
      BY <1>5, <1>11, <2>1, <2>7, <2>16 DEF PlanSettles
    <3>2. Fated(m.seen, Stashed(m.stash), f)
      BY <2>3, <2>8, <2>11, <2>16
    <3>3. RelayTyped'
      BY <1>1, <1>4, <2>14 DEF RelayTyped
    <3>4. Self' = leaked'
      <4>1. R = {}
        BY <1>1, <1>2, <1>5, <2>16 DEF FloorsKept, ConvsOf
      <4> QED
        BY <1>7, <2>14, <4>1 DEF Self
    <3> QED
      BY <2>4, <2>8, <2>9, <2>13, <3>1, <3>2, <3>3, <3>4, Constants, ServiceKeeps
  <2> QED
    BY <2>15, <2>16
<1> QED
  BY <1>10, <1>11

LEMMA TurnStep ==
  ASSUME NEW started \in BOOLEAN, LoopInv, TurnEnds(started)
  PROVE  LoopInv'
<1>1. /\ tick.pc = "turn" /\ scope' = scope /\ acked' = acked /\ floor' = floor /\ leaked' = leaked
      /\ tick' = [IdleTick EXCEPT !.pc = "releasing", !.plan.release = tick.plan.release]
  BY DEF TurnEnds
<1>2. Typed /\ Shaped /\ FloorsKept /\ Placed
  BY DEF LoopInv
<1>3. tick \in Ticks /\ mem \in Mems /\ GoodStash(mem.stash) /\ fate \in Fates
  BY <1>2 DEF Typed
<1>4. PICK F, R, T, C, H : /\ F = tick.plan.floored /\ R = tick.plan.release /\ T = tick.turn
                           /\ C = tick.turn.covered /\ H = Stashed(mem.stash)
  OBVIOUS
<1>5. F \in SUBSET Ids /\ R \in SUBSET Convs /\ T \in Turns /\ H \subseteq Ids
  BY <1>3, <1>4, StashHolds DEF Ticks, Plans
<1>6. /\ mem.covering = C /\ mem.unhanded = {}
      /\ mem.stopped => StashConvs(mem.stash) \subseteq C
  BY <1>1, <1>2, <1>4 DEF Shaped
<1>7. T.msgs = F \cup {i \in H : Conv(i) \in C} /\ F \cap H = {}
  BY <1>1, <1>2, <1>4 DEF Placed
<1>8. InHand = H \cup F
  BY <1>4, <1>6, <1>7 DEF InHand
<1>9. Fated(mem.seen, H \cup F, fate) /\ Judged(acked, mem.seen, fate)
  BY <1>8 DEF LoopInv
<1>10. PICK m : m = [mem EXCEPT !.covering = {}]
  OBVIOUS
<1>11. /\ m \in Mems /\ m.stash = mem.stash /\ m.unhanded = {} /\ m.covering = {}
       /\ m.seen = mem.seen /\ m.stopped = mem.stopped
  BY <1>3, <1>6, <1>10 DEF Mems
<1>12. PICK lost : lost = [fate EXCEPT !.lost = fate.lost \cup F]
  OBVIOUS
<1>13. /\ lost \in Fates /\ lost.started = fate.started /\ lost.dead = fate.dead
       /\ lost.declined = fate.declined /\ lost.suppressed = fate.suppressed
       /\ lost.lost = fate.lost \cup F
  BY <1>3, <1>5, <1>12 DEF Fates
<1>14. /\ mem' \in Mems /\ GoodStash(mem'.stash) /\ mem'.unhanded = {} /\ mem'.covering = {}
       /\ mem'.seen = mem.seen /\ mem'.stopped = mem.stopped
       /\ mem.stopped => StashConvs(mem'.stash) = {}
       /\ fate' \in Fates /\ fate'.declined = fate.declined
       /\ Fated(mem.seen, Stashed(mem'.stash), fate')
  <2>1. CASE started
    <3>1. PICK s : s = ClearDeferred(mem.stash, C)
      OBVIOUS
    <3>2. /\ GoodStash(s) /\ Stashed(s) = {i \in H : Conv(i) \notin C}
          /\ StashConvs(s) = StashConvs(mem.stash) \ C
      BY <1>3, <1>4, <3>1, ClearKeeps
    <3>3. mem' = [m EXCEPT !.stash = s] /\ fate' = Started(fate, T)
      BY <1>4, <1>10, <2>1, <3>1 DEF TurnEnds
    <3>4. /\ mem' \in Mems /\ mem'.stash = s /\ mem'.unhanded = {} /\ mem'.covering = {}
          /\ mem'.seen = mem.seen /\ mem'.stopped = mem.stopped
      BY <1>11, <3>2, <3>3 DEF Mems, GoodStash
    <3>5. /\ fate' \in Fates
          /\ \A i \in Ids : fate'.started[i] = fate.started[i] + (IF i \in T.msgs THEN 1 ELSE 0)
          /\ fate'.dead = fate.dead /\ fate'.declined = fate.declined
          /\ fate'.suppressed = fate.suppressed /\ fate'.lost = fate.lost
      BY <1>3, <1>5, <3>3, StartedIs
    <3>6. \A i \in Ids : fate.started[i] \in Nat
      BY <1>3 DEF Fates
    <3>7. Fated(mem.seen, Stashed(s), fate')
      BY <1>5, <1>7, <1>9, <3>2, <3>5, <3>6 DEF Fated
    <3> QED
      BY <1>6, <3>2, <3>4, <3>5, <3>7
  <2>2. CASE ~started /\ C # {} /\ mem.stopped
    <3>1. PICK fl : fl = FlushOnStop(m)
      OBVIOUS
    <3>2. PICK s : /\ GoodStash(s)
                   /\ fl.mem = [m EXCEPT !.unhanded = {}, !.stash = s] /\ fl.mem \in Mems
                   /\ Stashed(s) = {i \in Stashed(m.stash) : Conv(i) \in m.covering}
                   /\ StashConvs(s) = StashConvs(m.stash) \cap m.covering
                   /\ fl.dead = m.unhanded \cup (Stashed(m.stash) \ Stashed(s))
      <4>1. m \in Mems /\ GoodStash(m.stash)
        BY <1>3, <1>11
      <4> QED
        BY ONLY <3>1, <4>1, FlushIs
    <3>3. Stashed(s) = {} /\ StashConvs(s) = {} /\ fl.dead = H
      BY <1>4, <1>11, <3>2
    <3>4. mem' = fl.mem /\ fate' = [lost EXCEPT !.dead = lost.dead \cup H]
      BY <1>4, <1>10, <1>12, <2>2, <3>1, <3>3 DEF TurnEnds
    <3>5. /\ mem' \in Mems /\ mem'.stash = s /\ mem'.unhanded = {} /\ mem'.covering = {}
          /\ mem'.seen = mem.seen /\ mem'.stopped = mem.stopped
      BY <1>11, <3>2, <3>4 DEF Mems
    <3>6. /\ fate' \in Fates /\ fate'.started = fate.started /\ fate'.dead = fate.dead \cup H
          /\ fate'.declined = fate.declined /\ fate'.suppressed = fate.suppressed
          /\ fate'.lost = fate.lost \cup F
      BY <1>5, <1>13, <3>4 DEF Fates
    <3>7. Fated(mem.seen, Stashed(s), fate')
      BY <1>9, <3>3, <3>6 DEF Fated
    <3> QED
      BY <3>2, <3>3, <3>5, <3>6, <3>7
  <2>3. CASE ~started /\ ~(C # {} /\ mem.stopped)
    <3>1. mem' = m /\ fate' = lost
      BY <1>4, <1>10, <1>12, <2>3 DEF TurnEnds
    <3>2. Fated(mem.seen, H, lost)
      BY <1>9, <1>13 DEF Fated
    <3>3. mem.stopped => StashConvs(mem.stash) = {}
      BY <1>6, <2>3
    <3> QED
      BY <1>3, <1>4, <1>11, <1>13, <3>1, <3>2, <3>3
  <2> QED
    BY <2>1, <2>2, <2>3
<1>15. /\ tick' \in Ticks /\ tick'.pc = "releasing" /\ tick'.turn = NoTurn /\ tick'.batch = {}
       /\ tick'.plan.release = R
  BY <1>1, <1>4, <1>5, Constants DEF Ticks, Pcs, Plans
<1>16. Typed'
  BY <1>1, <1>2, <1>14, <1>15 DEF Typed
<1>17. Shaped'
  BY <1>14, <1>15, Constants DEF Shaped, StampsMatch
<1>18. FloorsKept'
  <2>1. Owed' = R /\ Owed = R
    BY <1>1, <1>4, <1>15 DEF Owed
  <2> QED
    BY <1>1, <1>2, <1>15, <2>1 DEF FloorsKept
<1>19. InHand' = Stashed(mem'.stash)
  BY <1>14, <1>15, Constants DEF InHand
<1>20. Judged(acked', mem'.seen, fate')
  BY <1>1, <1>9, <1>14 DEF Judged
<1>21. Placed'
  BY <1>14, <1>15 DEF Placed
<1> QED
  BY <1>14, <1>16, <1>17, <1>18, <1>19, <1>20, <1>21 DEF LoopInv

LEMMA ReleasedStep == LoopInv /\ FloorsReleased => LoopInv'
<1> SUFFICES ASSUME LoopInv, FloorsReleased PROVE LoopInv'
  OBVIOUS
<1>1. /\ tick.pc = "releasing" /\ scope' = scope /\ acked' = acked
      /\ ReleaseFloors(tick.plan.release)
  BY DEF FloorsReleased
<1>2. Typed /\ Shaped /\ FloorsKept
  BY DEF LoopInv
<1>3. InHand = Stashed(mem.stash) /\ mem.unhanded = {} /\ mem.covering = {} /\ tick.turn = NoTurn
  BY <1>1, HandIsStash
<1>4. /\ mem \in Mems /\ GoodStash(mem.stash) /\ fate \in Fates /\ tick.plan.release \in SUBSET Convs
      /\ leaked \subseteq Convs /\ floor \in [Convs -> {"free", "self", "other"}]
  BY <1>2 DEF Typed, Ticks, Plans
<1>5. Self = leaked \cup tick.plan.release /\ leaked \cap tick.plan.release = {}
  BY <1>1, <1>2 DEF FloorsKept, Owed, Self
<1>6. PICK R : R = tick.plan.release
  OBVIOUS
<1>7. /\ floor' \in [Convs -> {"free", "self", "other"}] /\ leaked' \subseteq Convs
      /\ Self' = leaked'
  BY <1>1, <1>4, <1>5, <1>6, ReleaseKeeps
<1>8. RelayTyped'
  BY <1>1, <1>2, <1>7 DEF RelayTyped, Typed
<1>9. Fated(mem.seen, Stashed(mem.stash), fate) /\ Judged(acked', mem.seen, fate)
  BY <1>1, <1>3 DEF LoopInv
<1>10. CASE mem.stopped
  <2>1. TickEnds(mem, fate)
    BY <1>10 DEF FloorsReleased
  <2> QED
    BY <1>4, <1>7, <1>8, <1>9, <2>1, EndKeeps
<1>11. CASE ~mem.stopped
  <2>1. ServiceDeferred(IdleTick, mem, fate)
    BY <1>11 DEF FloorsReleased
  <2> QED
    BY <1>3, <1>4, <1>7, <1>8, <1>9, <1>11, <2>1, Constants, ServiceKeeps
<1> QED
  BY <1>10, <1>11

\* A turn over messages that left the stash: they ran, or are on record.
LEMMA HeldTurnEnds ==
  ASSUME NEW H, NEW T \in Turns, NEW f \in Fates, NEW seen,
         Fated(seen, H \cup T.msgs, f), T.msgs \cap H = {},
         NEW g, g = Started(f, T), NEW d, d = [f EXCEPT !.dead = f.dead \cup T.msgs]
  PROVE  /\ g \in Fates /\ Fated(seen, H, g) /\ g.declined = f.declined
         /\ d \in Fates /\ Fated(seen, H, d) /\ d.declined = f.declined
<1>2. T.msgs \subseteq Ids /\ \A i \in Ids : f.started[i] \in Nat
  BY DEF Turns, Fates
<1>3. /\ g \in Fates
      /\ \A i \in Ids : g.started[i] = f.started[i] + (IF i \in T.msgs THEN 1 ELSE 0)
      /\ g.dead = f.dead /\ g.declined = f.declined /\ g.suppressed = f.suppressed
      /\ g.lost = f.lost
  BY StartedIs
<1>4. Fated(seen, H, g)
  BY <1>2, <1>3 DEF Fated
<1>5. /\ d \in Fates /\ d.started = f.started /\ d.dead = f.dead \cup T.msgs
      /\ d.declined = f.declined /\ d.suppressed = f.suppressed /\ d.lost = f.lost
  BY <1>2 DEF Fates
<1>6. Fated(seen, H, d)
  BY <1>5 DEF Fated
<1> QED
  BY <1>3, <1>4, <1>5, <1>6

LEMMA LateTurnStep ==
  ASSUME NEW started \in BOOLEAN, LoopInv, LateTurnEnds(started)
  PROVE  LoopInv'
<1>1. /\ tick.pc = "lateTurn" /\ scope' = scope /\ acked' = acked /\ floor' = floor /\ leaked' = leaked
  BY DEF LateTurnEnds
<1>2. Typed /\ Shaped /\ FloorsKept /\ Placed
  BY DEF LoopInv
<1>3. tick \in Ticks /\ mem \in Mems /\ GoodStash(mem.stash) /\ fate \in Fates /\ tick.batch \subseteq scope
  BY <1>2 DEF Typed
<1>4. PICK T, H, f, seen : T = tick.turn /\ H = Stashed(mem.stash) /\ f = fate /\ seen = mem.seen
  OBVIOUS
<1>5. T \in Turns /\ f \in Fates /\ T.msgs \cap H = {}
  BY <1>1, <1>2, <1>3, <1>4 DEF Ticks, Placed
<1>6. mem.unhanded = {} /\ mem.covering = {}
  BY <1>1, <1>2 DEF Shaped
<1>7. Fated(seen, H \cup T.msgs, f) /\ Judged(acked', mem.seen, fate)
  <2>1. InHand = H \cup T.msgs
    BY <1>4, <1>6 DEF InHand
  <2> QED
    BY <1>1, <1>4, <2>1 DEF LoopInv
<1>8. PICK g, d : g = Started(f, T) /\ d = [f EXCEPT !.dead = f.dead \cup T.msgs]
  OBVIOUS
<1>9. /\ g \in Fates /\ Fated(seen, H, g) /\ g.declined = f.declined
      /\ d \in Fates /\ Fated(seen, H, d) /\ d.declined = f.declined
  BY ONLY <1>5, <1>7, <1>8, HeldTurnEnds
<1>10. Judged(acked', mem.seen, g) /\ Judged(acked', mem.seen, d)
  BY <1>4, <1>7, <1>9 DEF Judged
<1>11. Self = leaked /\ tick.plan = NoPlan
  BY <1>1, NothingOwed
<1>12. RelayTyped' /\ Self' = leaked'
  BY <1>1, <1>2, <1>11 DEF RelayTyped, Self, Typed
<1>13. CASE started
  <2>1. TickEnds(mem, g)
    BY <1>4, <1>8, <1>13 DEF LateTurnEnds
  <2>2. Fated(mem.seen, Stashed(mem.stash), g)
    BY <1>4, <1>9
  <2> QED
    BY <1>3, <1>9, <1>10, <1>12, <2>1, <2>2, EndKeeps
<1>14. CASE ~started
  <2>1. tick' = [tick EXCEPT !.pc = "retry", !.turn = NoTurn] /\ mem' = mem /\ fate' = d
    BY <1>4, <1>8, <1>14 DEF LateTurnEnds
  <2>2. /\ tick' \in Ticks /\ tick'.pc = "retry" /\ tick'.turn = NoTurn /\ tick'.plan = NoPlan
        /\ tick'.todo = tick.todo /\ tick'.batch = tick.batch
    BY <1>3, <1>11, <2>1, Constants DEF Ticks, Pcs
  <2>3. Typed'
    BY <1>1, <1>3, <1>9, <1>12, <2>1, <2>2 DEF Typed, RelayTyped
  <2>4. Shaped'
    BY <1>1, <1>2, <1>6, <2>1, <2>2, Constants DEF Shaped, StampsMatch
  <2>5. FloorsKept'
    <3>1. Owed' = {}
      BY <2>2, Constants DEF Owed
    <3> QED
      BY <1>12, <2>2, <3>1 DEF FloorsKept, Self
  <2>6. InHand' = H
    BY <1>4, <1>6, <2>1, <2>2, Constants DEF InHand
  <2>7. Placed'
    BY <1>6, <2>1, <2>2 DEF Placed
  <2> QED
    BY <1>4, <1>9, <1>10, <2>1, <2>3, <2>4, <2>5, <2>6, <2>7 DEF LoopInv
<1> QED
  BY <1>13, <1>14

LEMMA RetryTurnStep ==
  ASSUME NEW started \in BOOLEAN, LoopInv, RetryTurnEnds(started)
  PROVE  LoopInv'
<1>1. /\ tick.pc = "retryTurn" /\ scope' = scope /\ acked' = acked /\ ReleaseFloors(tick.todo)
  BY DEF RetryTurnEnds
<1>2. Typed /\ Shaped /\ FloorsKept /\ Placed
  BY DEF LoopInv
<1>3. tick \in Ticks /\ mem \in Mems /\ GoodStash(mem.stash) /\ fate \in Fates
  BY <1>2 DEF Typed
<1>4. PICK T, H, f, seen : T = tick.turn /\ H = Stashed(mem.stash) /\ f = fate /\ seen = mem.seen
  OBVIOUS
<1>5. T \in Turns /\ f \in Fates /\ T.msgs \cap H = {}
  BY <1>1, <1>2, <1>3, <1>4 DEF Ticks, Placed
<1>6. mem.unhanded = {} /\ mem.covering = {} /\ tick.plan = NoPlan
  BY <1>1, <1>2 DEF Shaped
<1>7. Fated(seen, H \cup T.msgs, f) /\ Judged(acked', mem.seen, fate)
  <2>1. InHand = H \cup T.msgs
    BY <1>4, <1>6 DEF InHand
  <2> QED
    BY <1>1, <1>4, <2>1 DEF LoopInv
<1>8. PICK g, d : g = Started(f, T) /\ d = [f EXCEPT !.dead = f.dead \cup T.msgs]
  OBVIOUS
<1>9. /\ g \in Fates /\ Fated(seen, H, g) /\ g.declined = f.declined
      /\ d \in Fates /\ Fated(seen, H, d) /\ d.declined = f.declined
  BY ONLY <1>5, <1>7, <1>8, HeldTurnEnds
<1>10. Judged(acked', mem.seen, g) /\ Judged(acked', mem.seen, d)
  BY <1>4, <1>7, <1>9 DEF Judged
<1>11. PICK R \in SUBSET Convs : R = tick.todo
  BY <1>3 DEF Ticks
<1>12. Self = leaked \cup R /\ leaked \cap R = {}
  BY <1>1, <1>2, <1>6, <1>11, Constants DEF FloorsKept, Owed, Self
<1>13. RelayTyped' /\ Self' = leaked'
  BY <1>1, <1>2, <1>11, <1>12, ReleaseKeeps DEF RelayTyped, Typed
<1>14. PICK h \in {g, d} : TickEnds(mem, h)
  BY <1>4, <1>8 DEF RetryTurnEnds
<1>15. h \in Fates /\ Fated(mem.seen, Stashed(mem.stash), h) /\ Judged(acked', mem.seen, h)
  BY <1>4, <1>9, <1>10
<1> QED
  BY <1>3, <1>13, <1>14, <1>15, EndKeeps

\* A tick that only waits for floors may end.
LEMMA RetryEnds ==
  ASSUME LoopInv, tick.pc = "retry", TickEnds(mem, fate), scope' = scope, acked' = acked,
         floor' \in [Convs -> {"free", "self", "other"}], leaked' \subseteq Convs, Self' = leaked'
  PROVE  LoopInv'
<1>1. InHand = Stashed(mem.stash)
  BY HandIsStash
<1>2. Fated(mem.seen, Stashed(mem.stash), fate) /\ Judged(acked', mem.seen, fate)
  BY <1>1 DEF LoopInv
<1>3. mem \in Mems /\ GoodStash(mem.stash) /\ fate \in Fates /\ RelayTyped'
  BY DEF LoopInv, Typed, RelayTyped
<1> QED
  BY <1>2, <1>3, EndKeeps

\* One conversation's floor does not come: the tick goes on with the others.
LEMMA RetryGoesOn ==
  ASSUME NEW c \in Convs, LoopInv, tick.pc = "retry", tick' = [tick EXCEPT !.todo = tick.todo \ {c}],
         scope' = scope, acked' = acked, mem' = mem, fate' = fate,
         floor' \in [Convs -> {"free", "self", "other"}], leaked' \subseteq Convs, Self' = leaked'
  PROVE  LoopInv'
<1>1. Typed /\ Shaped /\ FloorsKept /\ Placed
  BY DEF LoopInv
<1>2. /\ tick' \in Ticks /\ tick'.pc = "retry" /\ tick'.turn = tick.turn /\ tick'.plan = tick.plan
      /\ tick'.todo = tick.todo \ {c} /\ tick'.batch = tick.batch
  BY <1>1 DEF Typed, Ticks
<1>3. Typed'
  BY <1>1, <1>2 DEF Typed
<1>4. Shaped'
  BY <1>1, <1>2 DEF Shaped, StampsMatch
<1>5. tick.plan = NoPlan
  BY NothingOwed
<1>6. FloorsKept'
  BY <1>2, <1>5, Constants DEF FloorsKept, Owed, Self
<1>7. InHand' = InHand
  BY <1>2 DEF InHand
<1>8. Placed'
  BY <1>1, <1>2 DEF Placed
<1> QED
  BY <1>3, <1>4, <1>6, <1>7, <1>8 DEF LoopInv

LEMMA RetryStep ==
  ASSUME NEW c \in Convs, LoopInv, RetryAcquireFails(c) \/ RetryRefused(c) \/ RetryGranted(c)
  PROVE  LoopInv'
<1>1. /\ tick.pc = "retry" /\ c \in tick.todo /\ scope' = scope /\ acked' = acked
  BY DEF RetryAcquireFails, RetryRefused, RetryGranted, NextRetry
<1>2. Typed /\ Shaped /\ FloorsKept /\ Placed
  BY DEF LoopInv
<1>3. /\ floor \in [Convs -> {"free", "self", "other"}] /\ leaked \subseteq Convs
      /\ Self = leaked /\ tick.plan = NoPlan
  BY <1>1, <1>2, NothingOwed DEF Typed
<1>4. ASSUME NEW x \in {"free", "self"}, floor' = [floor EXCEPT ![c] = x],
             leaked' = IF x = "self" THEN leaked \cup {c} ELSE leaked \ {c}
      PROVE  /\ floor' \in [Convs -> {"free", "self", "other"}] /\ leaked' \subseteq Convs
             /\ Self' = leaked'
  <2>1. \A d \in Convs : floor'[d] = "self" <=> d \in leaked'
    BY <1>3, <1>4 DEF Self
  <2> QED
    BY <1>3, <1>4, <2>1 DEF Self
<1>5. CASE RetryAcquireFails(c)
  <2>1. mem' = mem /\ fate' = fate /\ tick' = [tick EXCEPT !.todo = tick.todo \ {c}]
    BY <1>5 DEF RetryAcquireFails
  <2>2. /\ floor' \in [Convs -> {"free", "self", "other"}] /\ leaked' \subseteq Convs
        /\ Self' = leaked'
    <3>1. CASE floor' = floor /\ leaked' = leaked
      BY <1>3, <3>1 DEF Self
    <3>2. CASE floor' = [floor EXCEPT ![c] = "self"] /\ leaked' = leaked \cup {c}
      BY <1>4, <3>2
    <3> QED
      BY <1>5, <3>1, <3>2 DEF RetryAcquireFails
  <2> QED
    BY <1>1, <2>1, <2>2, RetryGoesOn
<1>6. CASE RetryRefused(c)
  <2>1. floor' = floor /\ leaked' = leaked
    BY <1>6 DEF RetryRefused
  <2>2. Self' = leaked'
    BY <1>3, <2>1 DEF Self
  <2>3. CASE mem.stopped
    <3>1. TickEnds(mem, fate)
      BY <1>6, <2>3 DEF RetryRefused
    <3> QED
      BY <1>1, <1>3, <2>1, <2>2, <3>1, RetryEnds
  <2>4. CASE ~mem.stopped
    <3>1. mem' = mem /\ fate' = fate /\ tick' = [tick EXCEPT !.todo = tick.todo \ {c}]
      BY <1>6, <2>4 DEF RetryRefused
    <3> QED
      BY <1>1, <1>3, <2>1, <2>2, <3>1, RetryGoesOn
  <2> QED
    BY <2>3, <2>4
<1>7. CASE RetryGranted(c) /\ mem.stopped
  <2>1. TickEnds(mem, fate)
    BY <1>7 DEF RetryGranted
  <2>2. /\ floor' \in [Convs -> {"free", "self", "other"}] /\ leaked' \subseteq Convs
        /\ Self' = leaked'
    <3>1. CASE floor' = [floor EXCEPT ![c] = "free"] /\ leaked' = leaked \ {c}
      BY <1>4, <3>1
    <3>2. CASE floor' = [floor EXCEPT ![c] = "self"] /\ leaked' = leaked \cup {c}
      BY <1>4, <3>2
    <3> QED
      BY <1>7, <3>1, <3>2 DEF RetryGranted
  <2> QED
    BY <1>1, <2>1, <2>2, RetryEnds
<1>8. CASE RetryGranted(c) /\ ~mem.stopped
  <2>1. PICK st, s, H : st = StashOf(mem.stash, c) /\ s = ClearDeferred(mem.stash, {c}) /\ H = Stashed(mem.stash)
    OBVIOUS
  <2>2. PICK turn : turn = HeldTurn(st, {}, mem.gen)
    OBVIOUS
  <2>3. /\ floor' = [floor EXCEPT ![c] = "self"] /\ leaked' = leaked \ {c}
        /\ tick' = [tick EXCEPT !.pc = "retryTurn", !.todo = {c}, !.turn = turn]
        /\ mem' = [mem EXCEPT !.stash = s] /\ fate' = fate
    BY <1>8, <2>1, <2>2 DEF RetryGranted
  <2>4. tick \in Ticks /\ mem \in Mems /\ GoodStash(mem.stash) /\ fate \in Fates /\ tick.batch \subseteq scope
    BY <1>2 DEF Typed
  <2>5. c \in StashConvs(mem.stash)
    BY <1>1, <1>2, <1>8 DEF Shaped
  <2>6. GoodEntry(st) /\ HeldMsgs(st) = {i \in H : Conv(i) = c}
    BY <2>1, <2>4, <2>5, StashOfIs
  <2>7. turn \in Turns /\ turn.msgs = HeldMsgs(st) /\ \A e \in turn.shown : e.gen = turn.gen
    <3>1. PICK g \in Nat : g = mem.gen
      BY <2>4, AutoReplyAssumption DEF Mems
    <3> QED
      BY <2>2, <2>6, <3>1, HeldTurnIs
  <2>8. GoodStash(s) /\ Stashed(s) = {i \in H : Conv(i) \notin {c}}
    BY <2>1, <2>4, ClearKeeps
  <2>9. /\ tick' \in Ticks /\ tick'.pc = "retryTurn" /\ tick'.todo = {c} /\ tick'.turn = turn
        /\ tick'.plan = NoPlan /\ tick'.batch = tick.batch
    BY <1>3, <2>3, <2>4, <2>7 DEF Ticks, Pcs
  <2>10. /\ mem' \in Mems /\ mem'.stash = s /\ mem'.unhanded = mem.unhanded /\ mem'.seen = mem.seen
         /\ mem'.covering = mem.covering /\ ~mem'.stopped
    BY <1>8, <2>3, <2>4, <2>8 DEF Mems, GoodStash
  <2>11. mem.unhanded = {} /\ mem.covering = {} /\ InHand = H
    BY <1>1, <2>1, HandIsStash
  <2>12. Typed'
    <3>1. floor' \in [Convs -> {"free", "self", "other"}] /\ leaked' \subseteq Convs
      BY <1>3, <2>3
    <3> QED
      BY <1>1, <1>2, <2>3, <2>4, <2>8, <2>9, <2>10, <3>1 DEF Typed
  <2>13. Shaped'
    BY <2>7, <2>9, <2>10, <2>11 DEF Shaped, StampsMatch
  <2>14. FloorsKept'
    <3>1. Owed' = {c}
      BY <2>9, Constants DEF Owed
    <3>2. \A d \in Convs : floor'[d] = "self" <=> d \in leaked' \cup {c}
      BY <1>3, <2>3 DEF Self
    <3>3. leaked' \subseteq Convs /\ leaked' \cap {c} = {}
      BY <1>3, <2>3
    <3> QED
      BY <2>9, <3>1, <3>2, <3>3 DEF FloorsKept
  <2>15. InHand' = H
    BY <2>6, <2>7, <2>8, <2>9, <2>10, <2>11 DEF InHand
  <2>16. Placed'
    BY <2>6, <2>7, <2>8, <2>9, <2>10, <2>11 DEF Placed
  <2> QED
    BY <1>1, <2>3, <2>10, <2>11, <2>12, <2>13, <2>14, <2>15, <2>16 DEF LoopInv
<1> QED
  BY <1>5, <1>6, <1>7, <1>8

LEMMA RetriesDoneStep == LoopInv /\ RetriesDone => LoopInv'
<1> SUFFICES ASSUME LoopInv, RetriesDone PROVE LoopInv'
  OBVIOUS
<1>1. /\ tick.pc = "retry" /\ TickEnds(mem, fate) /\ scope' = scope /\ acked' = acked
      /\ floor' = floor /\ leaked' = leaked
  BY DEF RetriesDone
<1>2. Self' = leaked' /\ leaked' \subseteq Convs /\ floor' \in [Convs -> {"free", "self", "other"}]
  BY <1>1, NothingOwed DEF LoopInv, Typed, Self
<1> QED
  BY <1>1, <1>2, RetryEnds

LEMMA StopStep == LoopInv /\ Stop => LoopInv'
<1> SUFFICES ASSUME LoopInv, Stop PROVE LoopInv'
  OBVIOUS
<1>1. /\ ~mem.stopped /\ scope' = scope /\ acked' = acked /\ floor' = floor /\ leaked' = leaked
      /\ tick' = tick
  BY DEF Stop
<1>2. Typed /\ Shaped /\ FloorsKept /\ Placed
  BY DEF LoopInv
<1>3. PICK m, f, fl : m = mem /\ f = fate /\ fl = FlushOnStop(m)
  OBVIOUS
<1>4. m \in Mems /\ GoodStash(m.stash) /\ f \in Fates /\ tick \in Ticks
  BY <1>2, <1>3 DEF Typed
<1>5. PICK s : /\ GoodStash(s)
               /\ fl.mem = [m EXCEPT !.unhanded = {}, !.stash = s] /\ fl.mem \in Mems
               /\ Stashed(s) = {i \in Stashed(m.stash) : Conv(i) \in m.covering}
               /\ StashConvs(s) = StashConvs(m.stash) \cap m.covering
               /\ fl.dead = m.unhanded \cup (Stashed(m.stash) \ Stashed(s))
  BY ONLY <1>3, <1>4, FlushIs
<1>6. mem' = [fl.mem EXCEPT !.stopped = TRUE] /\ fate' = [f EXCEPT !.dead = f.dead \cup fl.dead]
  BY <1>3 DEF Stop
<1>7. /\ mem' \in Mems /\ mem'.stash = s /\ mem'.unhanded = {} /\ mem'.covering = m.covering
      /\ mem'.seen = m.seen /\ mem'.stopped
  BY <1>4, <1>5, <1>6 DEF Mems
<1>8. Stashed(m.stash) \subseteq Ids /\ m.unhanded \subseteq Ids
  BY <1>4, StashHolds DEF Mems
<1>9. /\ fate' \in Fates /\ fate'.started = f.started /\ fate'.dead = f.dead \cup fl.dead
      /\ fate'.declined = f.declined /\ fate'.suppressed = f.suppressed /\ fate'.lost = f.lost
  BY <1>4, <1>5, <1>6, <1>8 DEF Fates
<1>10. PICK H, H2, T, U, C : /\ H = Stashed(m.stash) /\ H2 = Stashed(s) /\ T = tick.turn.msgs
                             /\ U = m.unhanded /\ C = m.covering
  OBVIOUS
<1>11. H2 = {i \in H : Conv(i) \in C} /\ fl.dead = U \cup (H \ H2)
  BY <1>5, <1>10
<1>12. InHand = U \cup H \cup T /\ InHand' = H2 \cup T
  BY <1>1, <1>3, <1>7, <1>10 DEF InHand
<1>13. T \cap fl.dead = {}
  <2>1. CASE tick.pc = "turn"
    <3>1. U = {} /\ C = tick.turn.covered
      BY <1>2, <1>3, <1>10, <2>1 DEF Shaped
    <3>2. T = tick.plan.floored \cup {i \in H : Conv(i) \in C} /\ tick.plan.floored \cap H = {}
      BY <1>2, <1>3, <1>10, <2>1, <3>1 DEF Placed
    <3> QED
      BY <1>11, <3>1, <3>2
  <2>2. CASE tick.pc \in {"lateTurn", "retryTurn"}
    <3>1. U = {} /\ T \cap H = {}
      BY <1>2, <1>3, <1>10, <2>2 DEF Shaped, Placed
    <3> QED
      BY <1>11, <3>1
  <2>3. CASE tick.pc \notin {"turn", "lateTurn", "retryTurn"}
    <3>1. T = {}
      BY <1>2, <1>10, <2>3, Constants DEF Shaped
    <3> QED
      BY <3>1
  <2> QED
    BY <2>1, <2>2, <2>3
<1>14. U \cap H = {}
  BY <1>2, <1>3, <1>10 DEF Placed
<1>15. Fated(mem'.seen, InHand', fate')
  <2>1. Fated(m.seen, U \cup H \cup T, f)
    BY <1>3, <1>12 DEF LoopInv
  <2>2. H2 \cap fl.dead = {} /\ H2 \subseteq H /\ fl.dead \subseteq U \cup H /\ U \cup H \subseteq H2 \cup fl.dead
    BY <1>11, <1>14
  <2> QED
    BY <1>7, <1>9, <1>12, <1>13, <2>1, <2>2 DEF Fated
<1>16. Typed'
  BY <1>1, <1>2, <1>5, <1>7, <1>9 DEF Typed
<1>17. Shaped'
  BY <1>1, <1>2, <1>3, <1>5, <1>7 DEF Shaped, StampsMatch
<1>18. FloorsKept'
  BY <1>1, <1>2 DEF FloorsKept, Owed
<1>19. Judged(acked', mem'.seen, fate')
  BY <1>1, <1>3, <1>7, <1>9 DEF LoopInv, Judged
<1>20. Placed'
  <2>1. \A S, A : Judged(S, A, fate) => Judged(S, A, fate')
    BY <1>3, <1>9 DEF Judged
  <2>2. H2 \subseteq H
    BY <1>11
  <2>3. tick.pc = "turn" => /\ tick.turn.msgs = tick.plan.floored \cup {i \in H2 : Conv(i) \in tick.turn.covered}
                            /\ tick.plan.floored \cap H2 = {}
    <3> SUFFICES ASSUME tick.pc = "turn"
                 PROVE  /\ tick.turn.msgs = tick.plan.floored \cup {i \in H2 : Conv(i) \in tick.turn.covered}
                        /\ tick.plan.floored \cap H2 = {}
      OBVIOUS
    <3>1. C = tick.turn.covered
      BY <1>2, <1>3, <1>10 DEF Shaped
    <3>2. tick.turn.msgs = tick.plan.floored \cup {i \in H : Conv(i) \in C} /\ tick.plan.floored \cap H = {}
      BY <1>2, <1>3, <1>10, <3>1 DEF Placed
    <3> QED
      BY <1>11, <3>1, <3>2
  <2>4. tick.pc \in {"lateTurn", "retryTurn"} => tick.turn.msgs \cap H2 = {}
    BY <1>2, <1>3, <1>10, <2>2 DEF Placed
  <2> QED
    BY <1>1, <1>2, <1>3, <1>7, <1>10, <2>1, <2>3, <2>4 DEF Placed
<1> QED
  BY <1>15, <1>16, <1>17, <1>18, <1>19, <1>20 DEF LoopInv

\* Time and the other agents change nothing the loop relies on.
LEMMA WorldStep ==
  ASSUME LoopInv, scope' = scope, acked' = acked, tick' = tick, fate' = fate,
         floor' \in [Convs -> {"free", "self", "other"}], leaked' \subseteq Convs, FloorsKept',
         mem' \in Mems, GoodStash(mem'.stash), mem'.seen = mem.seen, mem'.stopped = mem.stopped,
         mem'.unhanded = mem.unhanded, mem'.covering = mem.covering,
         Stashed(mem'.stash) = Stashed(mem.stash), StashConvs(mem'.stash) = StashConvs(mem.stash)
  PROVE  LoopInv'
<1>1. Typed /\ Shaped /\ Placed
  BY DEF LoopInv
<1>2. Typed'
  BY <1>1 DEF Typed
<1>3. Shaped'
  BY <1>1 DEF Shaped, StampsMatch
<1>4. InHand' = InHand
  BY DEF InHand
<1>5. Placed'
  BY <1>1 DEF Placed
<1> QED
  BY <1>2, <1>3, <1>4, <1>5 DEF LoopInv

LEMMA TimeStep == LoopInv /\ (TimePasses \/ WindowsEnd) => LoopInv'
<1> SUFFICES ASSUME LoopInv, TimePasses \/ WindowsEnd PROVE LoopInv'
  OBVIOUS
<1>1. /\ scope' = scope /\ acked' = acked /\ floor' = floor /\ leaked' = leaked
      /\ tick' = tick /\ fate' = fate
  BY DEF TimePasses, WindowsEnd
<1>2. /\ floor' \in [Convs -> {"free", "self", "other"}] /\ leaked' \subseteq Convs
      /\ mem \in Mems /\ GoodStash(mem.stash)
  BY <1>1 DEF LoopInv, Typed
<1>3. FloorsKept'
  BY <1>1 DEF LoopInv, FloorsKept, Owed
<1>4. CASE TimePasses
  <2>1. PICK s, t : s = mem.stash /\ t = [k \in DOMAIN s |-> Aged(s[k])]
    OBVIOUS
  <2>2. GoodStash(t) /\ Stashed(t) = Stashed(s) /\ StashConvs(t) = StashConvs(s)
    BY <1>2, <2>1, AgedKeeps
  <2>3. mem' = [mem EXCEPT !.stash = t]
    BY <1>4, <2>1 DEF TimePasses
  <2>4. /\ mem' \in Mems /\ mem'.stash = t /\ mem'.seen = mem.seen /\ mem'.stopped = mem.stopped
        /\ mem'.unhanded = mem.unhanded /\ mem'.covering = mem.covering
    BY <1>2, <2>2, <2>3 DEF Mems, GoodStash
  <2> QED
    BY <1>1, <1>2, <1>3, <2>1, <2>2, <2>4, WorldStep
<1>5. CASE WindowsEnd
  <2>1. PICK l : l = [mem.latch EXCEPT !.recent = FreshLatch.recent, !.refreshes = FreshLatch.refreshes]
    OBVIOUS
  <2>2. l \in Latches
    BY <1>2, <2>1, Constants DEF Mems, Latches
  <2>3. mem' = [mem EXCEPT !.latch = l]
    BY <1>2, <1>5, <2>1 DEF WindowsEnd, Mems, Latches
  <2>4. /\ mem' \in Mems /\ mem'.stash = mem.stash /\ mem'.seen = mem.seen /\ mem'.stopped = mem.stopped
        /\ mem'.unhanded = mem.unhanded /\ mem'.covering = mem.covering
    BY <1>2, <2>2, <2>3 DEF Mems
  <2> QED
    BY <1>1, <1>2, <1>3, <2>4, WorldStep
<1> QED
  BY <1>4, <1>5

LEMMA OtherStep ==
  ASSUME NEW c, c \in Convs, LoopInv, OtherAcquires(c) \/ OtherReleases(c) \/ LeaseExpires(c)
  PROVE  LoopInv'
<1>1. /\ scope' = scope /\ acked' = acked /\ tick' = tick /\ mem' = mem /\ fate' = fate
  BY DEF OtherAcquires, OtherReleases, LeaseExpires
<1>2. Typed /\ FloorsKept
  BY DEF LoopInv
<1>3. /\ floor \in [Convs -> {"free", "self", "other"}] /\ leaked \subseteq Convs
      /\ mem \in Mems /\ GoodStash(mem.stash)
  BY <1>2 DEF Typed
<1>4. Owed' = Owed
  BY <1>1 DEF Owed
<1>5. \A d \in Convs : floor[d] = "self" <=> d \in leaked \cup Owed
  BY <1>2 DEF FloorsKept
<1>6. leaked \cap Owed = {} /\ leaked \cup Owed \subseteq Convs
  BY <1>2 DEF FloorsKept
<1>7. /\ floor' \in [Convs -> {"free", "self", "other"}] /\ leaked' \subseteq leaked
      /\ \A d \in Convs : floor'[d] = "self" <=> d \in leaked' \cup Owed
  <2>1. CASE OtherAcquires(c) \/ OtherReleases(c)
    <3>1. PICK x \in {"free", "other"} : floor' = [floor EXCEPT ![c] = x] /\ leaked' = leaked /\ floor[c] # "self"
      BY <2>1 DEF OtherAcquires, OtherReleases
    <3> QED
      BY <1>3, <1>5, <3>1
  <2>2. CASE LeaseExpires(c)
    <3>1. c \in leaked /\ floor' = [floor EXCEPT ![c] = "free"] /\ leaked' = leaked \ {c}
      BY <2>2 DEF LeaseExpires
    <3>2. c \notin Owed
      BY <1>6, <3>1
    <3> QED
      BY <1>3, <1>5, <3>1, <3>2
  <2> QED
    BY <2>1, <2>2
<1>8. FloorsKept'
  <2>1. {d \in Convs : floor'[d] = "self"} = leaked' \cup Owed
    BY <1>6, <1>7
  <2> QED
    BY <1>1, <1>2, <1>4, <1>6, <1>7, <2>1 DEF FloorsKept
<1> QED
  BY <1>1, <1>3, <1>7, <1>8, WorldStep

LEMMA LoopInvStep == LoopInv /\ [Next]_vars => LoopInv'
<1> SUFFICES ASSUME LoopInv, [Next]_vars PROVE LoopInv'
  OBVIOUS
<1>1. CASE Poll
  BY <1>1, PollStep
<1>2. CASE LoopStep
  BY <1>2, ProcessBatchStep, NoticeStep, AckStep, AcquireStep, PlanStep, TurnStep, LateTurnStep,
     RetryTurnStep, ReleasedStep, RetryStep, RetriesDoneStep DEF LoopStep
<1>3. CASE Stop
  BY <1>3, StopStep
<1>4. CASE TimePasses \/ WindowsEnd
  BY <1>4, TimeStep
<1>5. CASE \E c \in ConvsOf(scope) : OtherAcquires(c) \/ OtherReleases(c) \/ LeaseExpires(c)
  <2>1. PICK c \in ConvsOf(scope) : OtherAcquires(c) \/ OtherReleases(c) \/ LeaseExpires(c)
    BY <1>5
  <2>2. c \in Convs
    BY AutoReplyAssumption DEF LoopInv, Typed, ConvsOf, Conv
  <2> QED
    BY <2>1, <2>2, OtherStep
<1>6. CASE UNCHANGED vars
  <2>1. /\ scope' = scope /\ acked' = acked /\ floor' = floor /\ leaked' = leaked
        /\ tick' = tick /\ mem' = mem /\ fate' = fate
    BY <1>6 DEF vars
  <2>2. FloorsKept'
    BY <2>1 DEF LoopInv, FloorsKept, Owed
  <2> QED
    BY <2>1, <2>2, WorldStep DEF LoopInv, Typed
<1> QED
  BY <1>1, <1>2, <1>3, <1>4, <1>5, <1>6 DEF Next

LEMMA LoopInductive == Spec => []LoopInv
<1>1. LoopInv /\ [Next]_vars => LoopInv'
  BY LoopInvStep
<1> QED
  BY <1>1, LoopInit, PTL DEF Spec

-----------------------------------------------------------------------------
(* The entries of the stash *)

\* The entries of a Map, whatever conversation they wait in.
Entries(s) == UNION {Range(s[k].held) : k \in DOMAIN s}

LEMMA OnlyEntries ==
  ASSUME NEW s, GoodStash(s), NEW K \in SUBSET DOMAIN s
  PROVE  Entries(Only(s, K)) \subseteq Entries(s)
<1>1. s \in Seq(StashEntry)
  BY DEF GoodStash
<1>2. PICK f : f = Only(s, K)
  OBVIOUS
<1>3. PICK p \in [DOMAIN f -> K] : \A n \in DOMAIN f : f[n] = s[p[n]]
  BY ONLY <1>1, <1>2, OnlyIs, K \in SUBSET DOMAIN s
<1>4. \A n \in DOMAIN f : p[n] \in DOMAIN s /\ f[n].held = s[p[n]].held
  BY <1>3
<1> QED
  BY <1>2, <1>4 DEF Entries

LEMMA ClearEntries ==
  ASSUME NEW s, GoodStash(s), NEW C
  PROVE  Entries(ClearDeferred(s, C)) \subseteq Entries(s)
  BY OnlyEntries DEF ClearDeferred

LEMMA AgedEntries ==
  ASSUME NEW s, GoodStash(s), NEW t, t = [k \in DOMAIN s |-> Aged(s[k])]
  PROVE  Entries(t) \subseteq Entries(s)
<1>1. \A k \in DOMAIN s : t[k].held = s[k].held
  BY DEF GoodStash, GoodEntry, StashEntry, Aged
<1> QED
  BY <1>1 DEF Entries

LEMMA LastNRange ==
  ASSUME NEW T, NEW s \in Seq(T), NEW n \in Nat
  PROVE  Range(LastN(s, n)) \subseteq Range(s) /\ LastN(s, n) \in Seq(T)
<1>1. PICK f : f = LastN(s, n)
  OBVIOUS
<1>2. PICK d \in Nat :
        /\ f \in Seq(T) /\ d = Len(s) - Len(f) /\ DOMAIN f = 1..(Len(s) - d)
        /\ \A i \in 1..(Len(s) - d) : f[i] = s[d + i]
  BY ONLY <1>1, LastNIs, s \in Seq(T), n \in Nat
<1>3. PICK l \in Nat : l = Len(s) /\ DOMAIN s = 1..l
  BY LenProperties
<1>4. \A i \in DOMAIN f : d + i \in DOMAIN s /\ f[i] = s[d + i]
  BY <1>2, <1>3
<1> QED
  BY <1>1, <1>2, <1>4 DEF Range

\* What a held-back message is stashed as.
Stamped(held, gen) == {[msg |-> i, gen |-> VerdictGen(i, gen)] : i \in held}

LEMMA MergedEntries ==
  ASSUME NEW s, GoodStash(s), NEW held \in SUBSET Ids, NEW c \in ConvsOf(held), NEW gen \in Nat
  PROVE  Range(Merged(s, held, c, gen).held) \subseteq Entries(s) \cup Stamped(held, gen)
<1>1. c \in Convs
  BY AutoReplyAssumption DEF ConvsOf, Conv
<1>2. PICK old : old = Existing(s, held, c) /\ Queue(old.held, c, Stashed(s))
  BY <1>1, ExistingIs
<1>3. PICK a, b : a = old.held /\ b = Incoming(held, c, gen)
  OBVIOUS
<1>4. a \in Seq(Entry) /\ b \in Seq(Entry)
  BY <1>2, <1>3, IncomingIs DEF Queue
<1>5. PICK q : q = a \o b
  OBVIOUS
<1>6. q \in Seq(Entry) /\ Range(q) = Range(a) \cup Range(b)
  BY ONLY <1>4, <1>5, ConcatProperties, RangeConcatenation
<1>7. PerConvCap \in Nat
  BY AutoReplyAssumption
<1>8. PICK h : h = LastN(q, PerConvCap)
  OBVIOUS
<1>9. Range(h) \subseteq Range(q)
  BY ONLY <1>6, <1>7, <1>8, LastNRange
<1>10. Merged(s, held, c, gen).held = h
  BY <1>2, <1>3, <1>5, <1>8 DEF Merged
<1>11. Range(a) \subseteq Entries(s)
  <2>1. CASE old = StashOf(s, c) /\ c \in StashConvs(s)
    <3>1. \E k \in DOMAIN s : s[k].conv = c
      BY <2>1 DEF StashConvs
    <3>2. PICK k \in DOMAIN s : old = s[k]
      BY <2>1, <3>1 DEF StashOf
    <3> QED
      BY <1>3, <3>2 DEF Entries
  <2>2. CASE old = [conv |-> c, held |-> <<>>, age |-> 0]
    BY <1>3, <2>2 DEF Range
  <2> QED
    BY <1>2, <2>1, <2>2 DEF Existing
<1>12. Range(b) \subseteq Stamped(held, gen)
  <2>1. PICK S \in SUBSET Ids : S = {i \in held : Conv(i) = c}
    OBVIOUS
  <2>2. S # {}
    BY <2>1 DEF ConvsOf
  <2>3. PICK l, p : p = InOrder(S) /\ l \in Nat /\ p \in [1..l -> S]
    BY <2>2, OrderOfIds
  <2>4. b = [n \in 1..l |-> [msg |-> p[n], gen |-> VerdictGen(p[n], gen)]]
    BY <1>3, <2>1, <2>3 DEF Incoming
  <2>5. \A n \in 1..l : p[n] \in held
    BY <2>1, <2>3
  <2> QED
    BY <2>4, <2>5 DEF Range, Stamped
<1> QED
  BY <1>6, <1>9, <1>10, <1>11, <1>12

\* Holding back adds the messages held back, with this tick's verdicts.
LEMMA StashEntries ==
  ASSUME NEW s, GoodStash(s), NEW held \in SUBSET Ids, NEW gen \in Nat
  PROVE  Entries(StashDeferred(s, held, gen).stash) \subseteq Entries(s) \cup Stamped(held, gen)
<1>1. PICK F \in SUBSET Ids : F = {First(held, c) : c \in ConvsOf(held)}
  BY FirstIs
<1>2. \A i \in F : Conv(i) \in ConvsOf(held)
  BY <1>1, FirstIs
<1>3. PICK l, p : p = InOrder(F) /\ l \in Nat /\ p \in [1..l -> F]
  BY OrderOfIds
<1>4. PICK b : b = [n \in 1..l |-> Merged(s, held, Conv(p[n]), gen)]
  OBVIOUS
<1>5. \A n \in 1..l : Conv(p[n]) \in ConvsOf(held)
  BY <1>2, <1>3
<1>6. \A n \in 1..l : /\ b[n] \in StashEntry
                      /\ Range(b[n].held) \subseteq Entries(s) \cup Stamped(held, gen)
  BY <1>4, <1>5, MergedIs, MergedEntries DEF GoodEntry
<1>7. b \in Seq(StashEntry) /\ DOMAIN b = 1..l
  <2>1. b \in [1..l -> StashEntry]
    BY <1>4, <1>6
  <2> QED
    BY <1>3, <2>1, FunctionIsSeq
<1>8. PICK a : a = ClearDeferred(s, ConvsOf(held))
  OBVIOUS
<1>9. a \in Seq(StashEntry) /\ Entries(a) \subseteq Entries(s)
  BY <1>8, ClearKeeps, ClearEntries DEF GoodStash
<1>10. PICK q : q = a \o b
  OBVIOUS
<1>11. q \in Seq(StashEntry) /\ Range(q) = Range(a) \cup Range(b)
  BY ONLY <1>7, <1>9, <1>10, ConcatProperties, RangeConcatenation
<1>12. ConvCap \in Nat
  BY AutoReplyAssumption
<1>13. PICK h : h = LastN(q, ConvCap)
  OBVIOUS
<1>14. Range(h) \subseteq Range(q)
  BY ONLY <1>11, <1>12, <1>13, LastNRange
<1>15. StashDeferred(s, held, gen).stash = h
  <2>1. DOMAIN p = 1..l
    BY <1>3
  <2> QED
    BY <1>1, <1>3, <1>4, <1>8, <1>10, <1>13, <2>1 DEF StashDeferred
<1>16. \A st \in Range(a) : Range(st.held) \subseteq Entries(s)
  BY <1>9 DEF Range, Entries
<1>17. \A st \in Range(b) : Range(st.held) \subseteq Entries(s) \cup Stamped(held, gen)
  BY <1>6, <1>7 DEF Range
<1>18. \A st \in Range(h) : Range(st.held) \subseteq Entries(s) \cup Stamped(held, gen)
  BY <1>11, <1>14, <1>16, <1>17
<1>19. \A k \in DOMAIN h : h[k] \in Range(h)
  BY DEF Range
<1> QED
  BY <1>15, <1>18, <1>19 DEF Entries

-----------------------------------------------------------------------------
(* Signatures *)

Checks == [accepted : SUBSET Ids, failed : SUBSET Ids, rejected : SUBSET Ids, replayed : SUBSET Ids]

\* The verified signature of e holds under the keys it was checked with.
Holds(e) == e.gen # NoVerdict => e.gen \in Messages[e.msg].good

\* A refused message has failed material and no way round its signature.
Barred(ch) ==
  \A i \in ch.rejected :
    /\ i \in ch.failed
    /\ Messages[i].signed \/ (RequireSigned /\ ~FromOperator(i))

\* The record of refusals beside the memory, the tick and the history.
Refused(ch, m, t, f) ==
  /\ ch \in Checks /\ Barred(ch)
  /\ t.pc # "notice" => t.real = {}
  /\ ~m.stopped => ch.accepted \subseteq m.seen \cup t.real
  /\ ch.rejected \cap (m.seen \cup t.real) = {}
  /\ ch.replayed \cup f.suppressed \cup f.lost \subseteq m.seen

\* Verified signatures: in the stash, in the batch being handed over, in a turn.
Vouched(ch, m, t) ==
  /\ \A e \in Entries(m.stash) : Holds(e)
  /\ t.pc \in {"notice", "acking", "acquiring"} =>
       \A i \in t.kept \cap ch.accepted : m.gen \in Messages[i].good
  /\ \A e \in t.turn.shown : m.gen \in Messages[e.msg].good

CheckInv == Refused(checks, mem, tick, fate) /\ Vouched(checks, mem, tick)

\* A refused message wakes no turn, under any keys and settings.
LEMMA RefusedSleeps ==
  ASSUME NEW i, NEW s, NEW gen,
         Rejected(i, gen) \/ (Barred(checks) /\ i \in checks.rejected)
  PROVE  ~Autowakes(i, s, gen)
<1>1. CASE Rejected(i, gen)
  <2>1. CASE Messages[i].signed /\ Verdict(i, gen) = "failed"
    BY <2>1 DEF Autowakes
  <2>2. CASE RequireSigned /\ ~FromOperator(i) /\ (~Messages[i].signed \/ Verdict(i, gen) = "none")
    BY <2>2 DEF Autowakes
  <2> QED
    BY <1>1, <2>1, <2>2 DEF Rejected
<1>2. CASE Barred(checks) /\ i \in checks.rejected
  <2>1. Verdict(i, gen) = "failed"
    BY <1>2 DEF Barred, Verdict
  <2>2. Messages[i].signed \/ (RequireSigned /\ ~FromOperator(i))
    BY <1>2 DEF Barred
  <2> QED
    BY <2>1, <2>2 DEF Autowakes
<1> QED
  BY <1>1, <1>2

\* The end of a tick parts with its locals and keeps the record.
LEMMA EndEntries ==
  ASSUME NEW m \in Mems, GoodStash(m.stash), NEW f, TickEnds(m, f)
  PROVE  /\ tick' = IdleTick /\ Entries(mem'.stash) \subseteq Entries(m.stash)
         /\ mem'.seen = m.seen /\ mem'.stopped = m.stopped /\ mem'.gen = m.gen
         /\ Stashed(mem'.stash) \subseteq Stashed(m.stash)
<1>1. PICK cl : cl = [m EXCEPT !.unhanded = {}, !.covering = {}]
  OBVIOUS
<1>2. /\ cl \in Mems /\ cl.covering = {} /\ cl.seen = m.seen /\ cl.stash = m.stash
      /\ cl.stopped = m.stopped /\ cl.gen = m.gen
  BY <1>1 DEF Mems
<1>3. PICK K \in SUBSET DOMAIN m.stash : K = {k \in DOMAIN m.stash : m.stash[k].conv \in cl.covering}
  OBVIOUS
<1>4. PICK s : s = Only(m.stash, K)
  OBVIOUS
<1>5. s \in Seq(StashEntry) /\ Entries(s) \subseteq Entries(m.stash) /\ Stashed(s) \subseteq Stashed(m.stash)
  BY <1>3, <1>4, OnlyKeeps, OnlyEntries, StashHolds DEF GoodStash
<1>6. FlushOnStop(cl).mem = [cl EXCEPT !.unhanded = {}, !.stash = s]
  BY <1>2, <1>3, <1>4 DEF FlushOnStop
<1>7. tick' = IdleTick /\ mem' = IF m.stopped THEN FlushOnStop(cl).mem ELSE cl
  BY <1>1 DEF TickEnds
<1> QED
  BY <1>2, <1>5, <1>6, <1>7 DEF Mems

LEMMA EndChecks ==
  ASSUME NEW m \in Mems, GoodStash(m.stash), NEW f \in Fates, TickEnds(m, f), checks' = checks,
         NEW t, Refused(checks, m, t, f), Vouched(checks, m, t), t.pc = "notice" => m.stopped
  PROVE  CheckInv'
<1>1. /\ tick' = IdleTick /\ Entries(mem'.stash) \subseteq Entries(m.stash)
      /\ mem'.seen = m.seen /\ mem'.stopped = m.stopped
  BY EndEntries
<1>2. fate'.suppressed = f.suppressed /\ fate'.lost = f.lost
  <2>1. fate' = [f EXCEPT !.dead = f.dead \cup (Stashed(m.stash) \ Stashed(mem'.stash))]
    BY EndsIs
  <2> QED
    BY <2>1 DEF Fates
<1>3. tick'.pc = "idle" /\ tick'.real = {} /\ tick'.turn = NoTurn /\ NoTurn.shown = {}
  BY <1>1, Constants DEF IdleTick
<1>4. Refused(checks', mem', tick', fate')
  BY <1>1, <1>2, <1>3 DEF Refused
<1>5. Vouched(checks', mem', tick')
  BY <1>1, <1>3 DEF Vouched
<1> QED
  BY <1>4, <1>5 DEF CheckInv

\* A turn given to a stash shows what still holds.
LEMMA HeldShown ==
  ASSUME NEW st, GoodEntry(st), NEW gen \in Nat, \A e \in Range(st.held) : Holds(e)
  PROVE  \A e \in HeldTurn(st, {}, gen).shown : gen \in Messages[e.msg].good
<1>1. HeldTurn(st, {}, gen).shown = {e \in Range(st.held) : e.gen = gen}
  BY DEF HeldTurn, EntryVerdict
<1> QED
  BY <1>1 DEF Holds, NoVerdict

LEMMA ServiceChecks ==
  ASSUME NEW t \in Ticks, NEW m \in Mems, GoodStash(m.stash), NEW f \in Fates,
         t.turn = NoTurn, t.real = {}, ServiceDeferred(t, m, f), checks' = checks,
         Refused(checks, m, t, f), Vouched(checks, m, t)
  PROVE  CheckInv'
<1>1. /\ fate' = f /\ mem' \in Mems /\ mem'.seen = m.seen /\ mem'.gen = m.gen
      /\ mem'.stopped = m.stopped /\ tick'.pc \in {"lateTurn", "retry"}
      /\ tick'.pc = "retry" => tick'.turn = NoTurn
  BY ServiceIs
<1>2. tick'.real = {}
  BY DEF ServiceDeferred, Ticks
<1>3. /\ \A e \in Entries(mem'.stash) : Holds(e)
      /\ \A e \in tick'.turn.shown : m.gen \in Messages[e.msg].good
  <2>1. PICK K : K = Expireds(m.stash)
    OBVIOUS
  <2>2. CASE K # {}
    <3>1. PICK k \in K : k = Oldest(m.stash, K)
      BY <2>1, <2>2, OldestIs
    <3>2. PICK late : late = m.stash[k]
      OBVIOUS
    <3>3. GoodEntry(late) /\ Range(late.held) \subseteq Entries(m.stash)
      BY <2>1, <3>2 DEF Expireds, GoodStash, Entries
    <3>4. PICK turn : turn = HeldTurn(late, {}, m.gen)
      OBVIOUS
    <3>5. m.gen \in Nat /\ \A e \in Range(late.held) : Holds(e)
      BY <3>3, AutoReplyAssumption DEF Mems, Vouched
    <3>6. \A e \in turn.shown : m.gen \in Messages[e.msg].good
      BY ONLY <3>3, <3>4, <3>5, HeldShown
    <3>7. PICK s : s = ClearDeferred(m.stash, {late.conv})
      OBVIOUS
    <3>8. Entries(s) \subseteq Entries(m.stash) /\ s \in Seq(StashEntry)
      BY <3>7, ClearEntries, ClearKeeps DEF GoodStash
    <3>9. mem' = [m EXCEPT !.stash = s] /\ tick'.turn = turn
      BY <2>1, <2>2, <3>1, <3>2, <3>4, <3>7 DEF ServiceDeferred, Ticks
    <3>10. mem'.stash = s
      BY <3>9 DEF Mems
    <3> QED
      BY <3>6, <3>8, <3>9, <3>10 DEF Vouched
  <2>3. CASE K = {}
    <3>1. mem' = m /\ tick'.turn = t.turn
      BY <2>1, <2>3 DEF ServiceDeferred, Ticks
    <3> QED
      BY <3>1, Constants DEF Vouched
  <2> QED
    BY <2>2, <2>3
<1>4. Refused(checks', mem', tick', fate')
  BY <1>1, <1>2 DEF Refused
<1>5. Vouched(checks', mem', tick')
  BY <1>1, <1>3 DEF Vouched
<1> QED
  BY <1>4, <1>5 DEF CheckInv

\* The hand-over marks as seen what the batch woke.
LEMMA HandOverChecks ==
  ASSUME NEW t \in Ticks, NEW m \in Mems, NEW f \in Fates, HandOver(t, m, f), ~m.stopped,
         t.turn = NoTurn, NEW n, n.pc = "notice", n.real = t.real, n.kept = t.kept,
         Refused(checks', m, n, f), Vouched(checks', m, n)
  PROVE  CheckInv'
<1>1. /\ tick' = [t EXCEPT !.pc = "acking", !.real = {}, !.settings = IdleTick.settings]
      /\ mem' = [m EXCEPT !.seen = m.seen \cup t.real, !.unhanded = t.kept]
      /\ fate' = [f EXCEPT !.suppressed = f.suppressed \cup (t.real \ t.kept)]
  BY DEF HandOver
<1>2. tick'.pc = "acking" /\ tick'.real = {} /\ tick'.kept = t.kept /\ tick'.turn = NoTurn
  BY <1>1 DEF Ticks
<1>3. /\ mem'.seen = m.seen \cup t.real /\ mem'.stash = m.stash /\ mem'.gen = m.gen
      /\ mem'.stopped = m.stopped
  BY <1>1 DEF Mems
<1>4. fate'.suppressed = f.suppressed \cup (t.real \ t.kept) /\ fate'.lost = f.lost
  BY <1>1 DEF Fates
<1>5. Refused(checks', mem', tick', fate')
  BY <1>2, <1>3, <1>4 DEF Refused
<1>6. Vouched(checks', mem', tick')
  BY <1>2, <1>3, Constants DEF Vouched
<1> QED
  BY <1>5, <1>6 DEF CheckInv

LEMMA CheckInit == Init => CheckInv
<1> SUFFICES ASSUME Init PROVE CheckInv
  OBVIOUS
<1>1. tick = IdleTick /\ fate = NoFate /\ checks = NoChecks /\ mem.stash = <<>> /\ mem.seen = {}
  BY DEF Init
<1>2. Entries(mem.stash) = {}
  BY <1>1 DEF Entries
<1>3. tick.real = {} /\ tick.pc = "idle" /\ tick.turn.shown = {}
  BY <1>1, Constants DEF IdleTick
<1>4. fate.suppressed = {} /\ fate.lost = {}
  BY <1>1 DEF NoFate
<1>5. Refused(checks, mem, tick, fate)
  BY <1>1, <1>3, <1>4 DEF Refused, NoChecks, Checks, Barred
<1> QED
  BY <1>2, <1>3, <1>5 DEF CheckInv, Vouched

\* A batch is checked: what it refuses was never handed over and is not woken,
\* what it accepts is new.
LEMMA BatchChecks == LoopInv /\ CheckInv /\ ProcessBatch => CheckInv'
<1> SUFFICES ASSUME LoopInv, CheckInv, ProcessBatch PROVE CheckInv'
  OBVIOUS
<1>1. tick.pc = "polled" /\ tick \in Ticks /\ mem \in Mems /\ GoodStash(mem.stash) /\ fate \in Fates
  BY DEF ProcessBatch, LoopInv, Typed
<1>2. Refused(checks, mem, tick, fate) /\ Vouched(checks, mem, tick)
  BY DEF CheckInv
<1>3. tick.turn = NoTurn
  BY <1>1, HandIsStash
<1>4. CASE mem.stopped
  <2>1. TickEnds(mem, fate) /\ checks' = checks
    BY <1>4 DEF ProcessBatch
  <2> QED
    BY <1>1, <1>2, <2>1, EndChecks
<1>5. CASE ~mem.stopped
  <2>0. PICK gen \in Gens : AdmitBatch(gen)
    BY <1>5 DEF ProcessBatch
  <2> DEFINE s == tick.settings
  <2> DEFINE real == {i \in tick.batch : RealInbound(i, s, gen)}
  <2> DEFINE declined == {i \in tick.batch : Messages[i].trigger /\ ~Autowakes(i, s, gen)}
  <2> DEFINE reconciled == RefreshBudgetForProgressSignals(
                             ReconcilePeerLatches(mem.latch, s), tick.batch, gen)
  <2> DEFINE spoken == ResetPeerLatch(reconciled, ConvsOf({i \in real : FromOperator(i)}))
  <2> DEFINE rated == ApplyPeerRateGate(spoken, real)
  <2> DEFINE gated == ApplyPeerLatch(rated.latch, s, rated.kept)
  <2> DEFINE notices == ToEscalate(gated.latch, gated.latched)
  <2> DEFINE latch == [gated.latch EXCEPT !.escalated = @ \cup gated.latched]
  <2> DEFINE M == [mem EXCEPT !.gen = gen, !.latch = latch]
  <2> DEFINE f == [CountResets(fate, mem.latch, spoken) EXCEPT !.declined = @ \cup declined]
  <2> DEFINE t == [tick EXCEPT !.real = real, !.kept = gated.kept,
                               !.latched = gated.latched, !.notices = notices]
  <2>1. IF notices = {} THEN HandOver(t, M, f)
        ELSE tick' = [t EXCEPT !.pc = "notice"] /\ mem' = M /\ fate' = f
    BY <2>0, Zenon DEF AdmitBatch
  <2>2. checks' = CheckBatch(tick.batch, real, gen)
    BY <2>0, Zenon DEF AdmitBatch
  <2>3. real \in SUBSET Ids /\ declined \in SUBSET Ids /\ tick.batch \in SUBSET Ids
    BY <1>1 DEF Ticks
  <2>4. spoken \in Latches
    <3>1. mem.latch \in Latches
      BY <1>1 DEF Mems
    <3>2. ReconcilePeerLatches(mem.latch, s) \in Latches
      BY <3>1, ResetIs DEF ReconcilePeerLatches
    <3> HIDE DEF s, real
    <3>3. reconciled \in Latches
      BY <2>3, <3>1, <3>2, RefreshIs
    <3> HIDE DEF reconciled
    <3> QED
      BY <3>3, ResetIs
  <2>5. \A i \in real : i \notin mem.seen /\ i \in tick.batch /\ Autowakes(i, s, gen)
    BY DEF RealInbound
  <2> HIDE DEF s, real, declined, reconciled, spoken
  <2>6. rated.kept \subseteq real /\ rated.latch \in Latches
    BY <2>3, <2>4, RateGateIs
  <2> HIDE DEF rated
  <2>7. gated.kept \subseteq real /\ gated.latched \subseteq Convs /\ gated.latch \in Latches
    BY <2>3, <2>6, LatchIs
  <2> HIDE DEF gated
  <2>8. notices \subseteq Convs /\ latch \in Latches
    BY <2>7 DEF ToEscalate, Latches
  <2> HIDE DEF notices, latch
  <2>9. PICK m : m = M
    OBVIOUS
  <2>10. m \in Mems /\ m.seen = mem.seen /\ m.stash = mem.stash /\ ~m.stopped /\ m.gen = gen
    BY <1>1, <1>5, <2>8, <2>9 DEF Mems
  <2>11. f \in Fates /\ f.suppressed = fate.suppressed /\ f.lost = fate.lost
    <3>1. PICK g : g = CountResets(fate, mem.latch, spoken)
      OBVIOUS
    <3>2. g \in Fates /\ g.declined = fate.declined /\ g.suppressed = fate.suppressed /\ g.lost = fate.lost
      <4>1. fate \in Fates
        BY <1>1
      <4> QED
        BY ONLY <3>1, <4>1, CountResetsIs
    <3>3. f = [g EXCEPT !.declined = g.declined \cup declined]
      BY <3>1
    <3> HIDE DEF f, M, t
    <3> QED
      BY <2>3, <3>2, <3>3 DEF Fates
  <2>12. t \in Ticks /\ t.turn = NoTurn /\ t.real = real /\ t.kept = gated.kept
    BY <1>1, <1>3, <2>3, <2>7, <2>8 DEF Ticks
  <2> HIDE DEF M, t, f
  <2>13. PICK n : n = [t EXCEPT !.pc = "notice"]
    OBVIOUS
  <2>14. n.pc = "notice" /\ n.real = real /\ n.kept = gated.kept /\ n.turn = NoTurn
    BY <2>12, <2>13 DEF Ticks
  <2>15. PICK R : R = {i \in tick.batch : Rejected(i, gen)}
    OBVIOUS
  <2>16. PICK A : A = {i \in real : Verdict(i, gen) = "verified"}
    OBVIOUS
  <2>17. PICK S : S = {i \in tick.batch : Messages[i].progress /\ Verdict(i, gen) = "failed"}
    OBVIOUS
  <2>18. checks \in Checks /\ Barred(checks)
    BY <1>2 DEF Refused
  <2>19. /\ checks'.accepted = checks.accepted \cup A
         /\ checks'.failed = checks.failed \cup R \cup S
         /\ checks'.rejected = checks.rejected \cup (R \ mem.seen)
         /\ checks'.replayed = checks.replayed \cup (R \cap mem.seen)
         /\ checks' \in Checks
    BY <2>2, <2>3, <2>15, <2>16, <2>17, <2>18 DEF CheckBatch, Checks
  <2>20. Barred(checks')
    <3>1. \A i \in R : Messages[i].signed \/ (RequireSigned /\ ~FromOperator(i))
      BY <2>15 DEF Rejected
    <3> QED
      BY <2>18, <2>19, <3>1 DEF Barred
  <2>21. (checks.rejected \cup R) \cap real = {}
    BY <2>5, <2>15, <2>18, RefusedSleeps
  <2>22. tick.real = {} /\ checks.accepted \subseteq mem.seen
    BY <1>1, <1>2, <1>5 DEF Refused
  <2>23. A \subseteq real
    BY <2>16
  <2>24. Refused(checks', m, n, f)
    BY <1>2, <2>10, <2>11, <2>14, <2>19, <2>20, <2>21, <2>22, <2>23 DEF Refused
  <2>25. \A i \in A : gen \in Messages[i].good
    BY <2>16 DEF Verdict
  <2>26. \A i \in gated.kept \cap checks'.accepted : gen \in Messages[i].good
    BY <2>5, <2>7, <2>19, <2>22, <2>25
  <2>27. Vouched(checks', m, n)
    BY <1>2, <2>10, <2>14, <2>26, Constants DEF Vouched
  <2>28. CASE notices = {}
    <3>1. HandOver(t, m, f)
      BY <2>1, <2>9, <2>28
    <3> QED
      BY <2>10, <2>11, <2>12, <2>14, <2>24, <2>27, <3>1, HandOverChecks
  <2>29. CASE notices # {}
    <3>1. tick' = n /\ mem' = m /\ fate' = f
      BY <2>1, <2>9, <2>13, <2>29
    <3> QED
      BY <2>24, <2>27, <3>1 DEF CheckInv
  <2> QED
    BY <2>28, <2>29
<1> QED
  BY <1>4, <1>5

LEMMA CheckTypes ==
  ASSUME LoopInv, CheckInv
  PROVE  /\ tick \in Ticks /\ mem \in Mems /\ GoodStash(mem.stash) /\ fate \in Fates
         /\ mem.gen \in Nat /\ tick.turn \in Turns
         /\ Refused(checks, mem, tick, fate) /\ Vouched(checks, mem, tick)
         /\ InHand \subseteq mem.seen
<1>1. tick \in Ticks /\ mem \in Mems /\ GoodStash(mem.stash) /\ fate \in Fates
  BY DEF LoopInv, Typed
<1>2. mem.gen \in Nat /\ tick.turn \in Turns
  BY <1>1, AutoReplyAssumption DEF Mems, Ticks
<1> QED
  BY <1>1, <1>2 DEF CheckInv, LoopInv, Fated

\* A step of which the record and the verified signatures know nothing.
LEMMA IdleChecks ==
  ASSUME LoopInv, CheckInv, checks' = checks,
         mem'.seen = mem.seen, mem'.stopped = mem.stopped, mem'.gen = mem.gen,
         Entries(mem'.stash) \subseteq Entries(mem.stash),
         fate'.suppressed = fate.suppressed, fate'.lost \subseteq fate.lost \cup mem.seen,
         tick'.real = tick.real, tick'.pc = "notice" <=> tick.pc = "notice",
         tick'.pc \in {"acking", "acquiring"} => tick.pc \in {"acking", "acquiring"},
         tick'.kept = tick.kept, tick'.turn = tick.turn \/ tick'.turn = NoTurn
  PROVE  CheckInv'
<1>1. Refused(checks, mem, tick, fate) /\ Vouched(checks, mem, tick)
  BY DEF CheckInv
<1>2. Refused(checks', mem', tick', fate')
  BY <1>1 DEF Refused
<1>3. tick'.pc \in {"notice", "acking", "acquiring"} => tick.pc \in {"notice", "acking", "acquiring"}
  OBVIOUS
<1>4. \A e \in tick'.turn.shown : e \in tick.turn.shown
  BY Constants
<1>5. Vouched(checks', mem', tick')
  BY <1>1, <1>3, <1>4 DEF Vouched
<1> QED
  BY <1>2, <1>5 DEF CheckInv

LEMMA PollChecks == LoopInv /\ CheckInv /\ Poll => CheckInv'
<1> SUFFICES ASSUME LoopInv, CheckInv, Poll PROVE CheckInv'
  OBVIOUS
<1>1. tick.pc = "idle" /\ mem' = mem /\ fate' = fate /\ checks' = checks /\ tick = IdleTick
  BY DEF Poll, LoopInv, Shaped
<1>2. PICK S \in SUBSET (scope \ acked), s \in Settings :
        tick' = [IdleTick EXCEPT !.pc = "polled", !.settings = s, !.batch = S]
  BY DEF Poll
<1>3. /\ tick'.pc = "polled" /\ tick'.real = IdleTick.real /\ tick'.turn = IdleTick.turn
      /\ tick'.kept = IdleTick.kept
  BY <1>2 DEF IdleTick
<1> QED
  BY <1>1, <1>3, IdleChecks

LEMMA NoticeChecks ==
  ASSUME NEW c \in Convs, LoopInv, CheckInv, NoticeSettles(c)
  PROVE  CheckInv'
<1>1. /\ tick.pc = "notice" /\ checks' = checks
  BY DEF NoticeSettles
<1>2. /\ tick \in Ticks /\ mem \in Mems /\ GoodStash(mem.stash) /\ fate \in Fates
      /\ Refused(checks, mem, tick, fate) /\ Vouched(checks, mem, tick)
  BY CheckTypes
<1>3. PICK f, t : f = [fate EXCEPT !.told = fate.told \cup {c}]
                  /\ t = [tick EXCEPT !.notices = tick.notices \ {c}]
  OBVIOUS
<1>4. f \in Fates /\ f.suppressed = fate.suppressed /\ f.lost = fate.lost
  BY <1>2, <1>3 DEF Fates
<1>5. t \in Ticks /\ t.pc = "notice" /\ t.real = tick.real /\ t.kept = tick.kept /\ t.turn = tick.turn
  BY <1>1, <1>2, <1>3 DEF Ticks
<1>6. Refused(checks, mem, t, f) /\ Vouched(checks, mem, t)
  BY <1>1, <1>2, <1>4, <1>5 DEF Refused, Vouched
<1>7. IF mem.stopped THEN TickEnds(mem, f)
      ELSE IF t.notices = {} THEN HandOver(t, mem, f)
      ELSE tick' = t /\ mem' = mem /\ fate' = f
  BY <1>3 DEF NoticeSettles
<1>8. CASE mem.stopped
  BY <1>1, <1>2, <1>4, <1>6, <1>7, <1>8, EndChecks
<1>9. CASE ~mem.stopped /\ t.notices = {}
  <2>1. t.turn = NoTurn
    BY <1>1, <1>5, HandIsStash
  <2>2. Refused(checks', mem, t, f) /\ Vouched(checks', mem, t)
    BY <1>1, <1>6
  <2> QED
    BY <1>2, <1>4, <1>5, <1>7, <1>9, <2>1, <2>2, HandOverChecks
<1>10. CASE ~mem.stopped /\ t.notices # {}
  BY <1>1, <1>6, <1>7, <1>10 DEF CheckInv
<1> QED
  BY <1>8, <1>9, <1>10

LEMMA AckChecks ==
  ASSUME NEW ok \in BOOLEAN, LoopInv, CheckInv, AckSettles(ok)
  PROVE  CheckInv'
<1>1. tick.pc = "acking" /\ checks' = checks
  BY DEF AckSettles
<1>2. /\ tick \in Ticks /\ mem \in Mems /\ GoodStash(mem.stash) /\ fate \in Fates
      /\ Refused(checks, mem, tick, fate) /\ Vouched(checks, mem, tick)
  BY CheckTypes
<1>3. tick.turn = NoTurn /\ tick.real = {}
  BY <1>1, <1>2 DEF LoopInv, Shaped, Refused
<1>4. PICK t : t = Acked
  OBVIOUS
<1>5. /\ t \in Ticks /\ t.pc = tick.pc /\ t.real = {} /\ t.kept = tick.kept /\ t.turn = NoTurn
  BY <1>2, <1>3, <1>4 DEF Ticks, Acked
<1>6. Refused(checks, mem, t, fate) /\ Vouched(checks, mem, t)
  BY <1>1, <1>2, <1>3, <1>5 DEF Refused, Vouched
<1>7. CASE mem.stopped
  BY <1>1, <1>2, <1>7, EndChecks DEF AckSettles
<1>8. CASE ~mem.stopped /\ tick.kept = {}
  BY <1>1, <1>2, <1>4, <1>5, <1>6, <1>8, ServiceChecks DEF AckSettles
<1>9. CASE ~mem.stopped /\ tick.kept # {}
  <2>1. tick' = [t EXCEPT !.pc = "acquiring", !.todo = ConvsOf(tick.kept)] /\ mem' = mem /\ fate' = fate
    BY <1>4, <1>9 DEF AckSettles
  <2>2. tick'.pc = "acquiring" /\ tick'.real = tick.real /\ tick'.kept = tick.kept /\ tick'.turn = tick.turn
    BY <1>3, <1>5, <2>1 DEF Ticks
  <2> QED
    BY <1>1, <2>1, <2>2, IdleChecks
<1> QED
  BY <1>7, <1>8, <1>9

LEMMA AcquireChecks ==
  ASSUME NEW c \in Convs, LoopInv, CheckInv, AcquireFloor(c)
  PROVE  CheckInv'
<1>1. tick.pc = "acquiring" /\ checks' = checks /\ mem' = mem /\ fate' = fate /\ tick \in Ticks
  BY CheckTypes DEF AcquireFloor
<1>2. tick'.pc = tick.pc /\ tick'.real = tick.real /\ tick'.kept = tick.kept /\ tick'.turn = tick.turn
  BY <1>1 DEF AcquireFloor, Ticks, Plans
<1> QED
  BY <1>1, <1>2, IdleChecks

\* A turn that covers stashes shows the fresh messages' verified signatures and
\* those of the stashes that still hold.
LEMMA CoveringShown ==
  ASSUME NEW s, GoodStash(s), NEW F \in SUBSET Ids, NEW gen \in Nat,
         \A e \in Entries(s) : Holds(e),
         \A i \in F \cap checks.accepted : gen \in Messages[i].good
  PROVE  \A e \in CoveringTurn(s, F, gen).shown : gen \in Messages[e.msg].good
<1>1. PICK C : C = ConvsOf(F) \cap StashConvs(s)
  OBVIOUS
<1>2. PICK held : held = UNION {Range(StashOf(s, c).held) : c \in C}
  OBVIOUS
<1>3. \A c \in C : Range(StashOf(s, c).held) \subseteq Entries(s)
  <2> SUFFICES ASSUME NEW c \in C PROVE Range(StashOf(s, c).held) \subseteq Entries(s)
    OBVIOUS
  <2>1. \E k \in DOMAIN s : s[k].conv = c
    BY <1>1 DEF StashConvs
  <2>2. PICK k \in DOMAIN s : StashOf(s, c) = s[k]
    BY <2>1 DEF StashOf
  <2> QED
    BY <2>2 DEF Entries
<1>4. \A e \in held : Holds(e)
  BY <1>2, <1>3
<1>5. CoveringTurn(s, F, gen).shown =
        {[msg |-> i, gen |-> gen] : i \in F \cap checks.accepted} \cup {e \in held : e.gen = gen}
  BY <1>1, <1>2 DEF CoveringTurn, EntryVerdict
<1>6. \A e \in held : e.gen = gen => gen \in Messages[e.msg].good
  BY <1>4 DEF Holds, NoVerdict
<1> QED
  BY <1>5, <1>6

LEMMA PlanChecks == LoopInv /\ CheckInv /\ PlanSettles => CheckInv'
<1> SUFFICES ASSUME LoopInv, CheckInv, PlanSettles PROVE CheckInv'
  OBVIOUS
<1>1. tick.pc = "acquiring" /\ checks' = checks
  BY DEF PlanSettles
<1>2. /\ tick \in Ticks /\ mem \in Mems /\ GoodStash(mem.stash) /\ fate \in Fates /\ mem.gen \in Nat
      /\ Refused(checks, mem, tick, fate) /\ Vouched(checks, mem, tick)
  BY CheckTypes
<1>3. tick.real = {} /\ tick.turn = NoTurn
  BY <1>1, <1>2 DEF Refused, LoopInv, Shaped
<1>4. PICK F, D : F = tick.plan.floored /\ D = tick.plan.held
  OBVIOUS
<1>5. F \in SUBSET Ids /\ D \in SUBSET Ids /\ F \subseteq tick.kept /\ D \subseteq tick.kept
  BY <1>1, <1>2, <1>4 DEF Ticks, Plans, LoopInv, Placed
<1>6. CASE mem.stopped
  <2>1. TickEnds(mem, fate)
    BY <1>6 DEF PlanSettles
  <2> QED
    BY <1>1, <1>2, <2>1, EndChecks
<1>7. CASE ~mem.stopped
  <2>1. PICK put : put = StashDeferred(mem.stash, D, mem.gen)
    OBVIOUS
  <2>2. PICK s, g : s = mem.stash /\ g = mem.gen
    OBVIOUS
  <2>3. GoodStash(s) /\ g \in Nat /\ put = StashDeferred(s, D, g) /\ D \in SUBSET Ids
    BY <1>2, <1>5, <2>1, <2>2
  <2>4. /\ GoodStash(put.stash) /\ put.dropped \subseteq Stashed(s) \cup D
        /\ Entries(put.stash) \subseteq Entries(s) \cup Stamped(D, g)
    <3>1. GoodStash(put.stash) /\ put.dropped = (Stashed(s) \cup D) \ Stashed(put.stash)
      BY ONLY <2>3, StashDeferredKeeps
    <3>2. Entries(StashDeferred(s, D, g).stash) \subseteq Entries(s) \cup Stamped(D, g)
      BY ONLY <2>3, StashEntries
    <3> QED
      BY <2>3, <3>1, <3>2
  <2>5. \A i \in (F \cup D) \cap checks.accepted : g \in Messages[i].good
    BY <1>1, <1>2, <1>5, <2>2 DEF Vouched
  <2>6. \A e \in Stamped(D, g) : Holds(e)
    BY <2>5 DEF Stamped, VerdictGen, Holds, NoVerdict
  <2>7. \A e \in Entries(put.stash) : Holds(e)
    BY <1>2, <2>2, <2>4, <2>6 DEF Vouched
  <2>8. PICK m, f : /\ m = [mem EXCEPT !.stash = put.stash, !.unhanded = {}]
                    /\ f = [fate EXCEPT !.dead = fate.dead \cup put.dropped]
    OBVIOUS
  <2>9. m \in Mems /\ m.stash = put.stash /\ m.seen = mem.seen /\ m.gen = g /\ ~m.stopped
    BY <1>2, <1>7, <2>2, <2>4, <2>8 DEF Mems, GoodStash
  <2>10. f \in Fates /\ f.suppressed = fate.suppressed /\ f.lost = fate.lost
    <3>1. put.dropped \subseteq Ids
      BY <1>5, <2>3, <2>4, StashHolds
    <3> QED
      BY <1>2, <2>8, <3>1 DEF Fates
  <2>11. CASE F # {}
    <3>1. PICK turn : turn = CoveringTurn(put.stash, F, g)
      OBVIOUS
    <3>2. turn \in Turns
      BY <1>5, <2>3, <2>4, <3>1, CoveringTurnIs
    <3>3. \A e \in turn.shown : g \in Messages[e.msg].good
      BY <1>5, <2>3, <2>4, <2>5, <2>7, <3>1, CoveringShown
    <3>4. /\ tick' = [tick EXCEPT !.pc = "turn", !.turn = turn]
          /\ mem' = [m EXCEPT !.covering = turn.covered] /\ fate' = f
      BY <1>4, <1>7, <2>1, <2>2, <2>8, <2>11, <3>1 DEF PlanSettles
    <3>5. tick'.pc = "turn" /\ tick'.real = {} /\ tick'.turn = turn
      BY <1>2, <1>3, <3>4 DEF Ticks
    <3>6. mem'.stash = put.stash /\ mem'.seen = mem.seen /\ mem'.gen = g /\ ~mem'.stopped
      BY <2>9, <3>4 DEF Mems
    <3>7. Refused(checks', mem', tick', fate')
      BY <1>1, <1>2, <1>3, <1>7, <2>10, <3>4, <3>5, <3>6 DEF Refused
    <3>8. Vouched(checks', mem', tick')
      BY <2>7, <3>3, <3>5, <3>6 DEF Vouched
    <3> QED
      BY <3>7, <3>8 DEF CheckInv
  <2>12. CASE F = {}
    <3>1. ServiceDeferred(IdleTick, m, f)
      BY <1>4, <1>7, <2>1, <2>2, <2>8, <2>12 DEF PlanSettles
    <3>2. IdleTick \in Ticks /\ IdleTick.turn = NoTurn /\ IdleTick.real = {} /\ IdleTick.pc = "idle"
      BY Constants DEF IdleTick
    <3>3. Refused(checks, m, IdleTick, f)
      BY <1>2, <1>3, <1>7, <2>9, <2>10, <3>2 DEF Refused
    <3>4. Vouched(checks, m, IdleTick)
      BY <2>7, <2>9, <3>2, Constants DEF Vouched
    <3> QED
      BY <1>1, <2>4, <2>9, <2>10, <3>1, <3>2, <3>3, <3>4, ServiceChecks
  <2> QED
    BY <2>11, <2>12
<1> QED
  BY <1>6, <1>7

LEMMA TurnChecks ==
  ASSUME NEW started \in BOOLEAN, LoopInv, CheckInv, TurnEnds(started)
  PROVE  CheckInv'
<1>1. tick.pc = "turn" /\ checks' = checks
  BY DEF TurnEnds
<1>2. /\ tick \in Ticks /\ mem \in Mems /\ GoodStash(mem.stash) /\ fate \in Fates /\ tick.turn \in Turns
      /\ Refused(checks, mem, tick, fate) /\ Vouched(checks, mem, tick) /\ InHand \subseteq mem.seen
  BY CheckTypes
<1>3. tick.plan.floored \subseteq mem.seen
  BY <1>1, <1>2 DEF LoopInv, Placed, InHand
<1>4. PICK m : m = [mem EXCEPT !.covering = {}]
  OBVIOUS
<1>5. m \in Mems /\ m.stash = mem.stash /\ m.seen = mem.seen /\ m.gen = mem.gen /\ m.stopped = mem.stopped
  BY <1>2, <1>4 DEF Mems
<1>6. PICK lost : lost = [fate EXCEPT !.lost = fate.lost \cup tick.plan.floored]
  OBVIOUS
<1>7. lost.suppressed = fate.suppressed /\ lost.lost = fate.lost \cup tick.plan.floored /\ lost \in Fates
  BY <1>2, <1>6 DEF Fates, Ticks, Plans
<1>8. /\ mem'.seen = mem.seen /\ mem'.gen = mem.gen /\ mem'.stopped = mem.stopped
      /\ Entries(mem'.stash) \subseteq Entries(mem.stash)
      /\ fate'.suppressed = fate.suppressed /\ fate'.lost \subseteq fate.lost \cup tick.plan.floored
  <2>1. CASE started
    <3>1. PICK s : s = ClearDeferred(mem.stash, tick.turn.covered)
      OBVIOUS
    <3>2. s \in Seq(StashEntry) /\ Entries(s) \subseteq Entries(mem.stash)
      BY <1>2, <3>1, ClearKeeps, ClearEntries DEF GoodStash
    <3>3. mem' = [m EXCEPT !.stash = s] /\ fate' = Started(fate, tick.turn)
      BY <1>4, <2>1, <3>1 DEF TurnEnds
    <3>4. fate'.suppressed = fate.suppressed /\ fate'.lost = fate.lost
      BY <1>2, <3>3, StartedIs
    <3> QED
      BY <1>5, <3>2, <3>3, <3>4 DEF Mems
  <2>2. CASE ~started /\ tick.turn.covered # {} /\ mem.stopped
    <3>1. PICK fl : fl = FlushOnStop(m)
      OBVIOUS
    <3>2. mem' = fl.mem /\ fate' = [lost EXCEPT !.dead = lost.dead \cup fl.dead]
      BY <1>4, <1>6, <2>2, <3>1 DEF TurnEnds
    <3>3. fate'.suppressed = lost.suppressed /\ fate'.lost = lost.lost
      BY <1>7, <3>2 DEF Fates
    <3>4. PICK K \in SUBSET DOMAIN m.stash : K = {k \in DOMAIN m.stash : m.stash[k].conv \in m.covering}
      OBVIOUS
    <3>5. PICK s : s = Only(m.stash, K)
      OBVIOUS
    <3>6. s \in Seq(StashEntry) /\ Entries(s) \subseteq Entries(mem.stash)
      BY <1>2, <1>5, <3>5, OnlyKeeps, OnlyEntries DEF GoodStash
    <3>7. fl.mem = [m EXCEPT !.unhanded = {}, !.stash = s]
      BY <3>1, <3>4, <3>5 DEF FlushOnStop
    <3> QED
      BY <1>5, <1>7, <3>2, <3>3, <3>6, <3>7 DEF Mems
  <2>3. CASE ~started /\ ~(tick.turn.covered # {} /\ mem.stopped)
    <3>1. mem' = m /\ fate' = lost
      BY <1>4, <1>6, <2>3 DEF TurnEnds
    <3> QED
      BY <1>5, <1>7, <3>1
  <2> QED
    BY <2>1, <2>2, <2>3
<1>9. tick'.pc = "releasing" /\ tick'.real = {} /\ tick'.turn = NoTurn
  BY Constants DEF TurnEnds, IdleTick
<1>10. Refused(checks', mem', tick', fate')
  BY <1>1, <1>2, <1>3, <1>8, <1>9 DEF Refused
<1>11. Vouched(checks', mem', tick')
  BY <1>1, <1>2, <1>8, <1>9, Constants DEF Vouched
<1> QED
  BY <1>10, <1>11 DEF CheckInv

\* The tick ends after a turn, run or failed, or without one.
LEMMA TurnEndChecks ==
  ASSUME LoopInv, CheckInv, checks' = checks, tick.pc # "notice",
         TickEnds(mem, fate) \/ TickEnds(mem, Started(fate, tick.turn))
           \/ TickEnds(mem, [fate EXCEPT !.dead = fate.dead \cup tick.turn.msgs])
  PROVE  CheckInv'
<1>1. /\ tick \in Ticks /\ mem \in Mems /\ GoodStash(mem.stash) /\ fate \in Fates /\ tick.turn \in Turns
      /\ Refused(checks, mem, tick, fate) /\ Vouched(checks, mem, tick)
  BY CheckTypes
<1>2. PICK g, d : g = Started(fate, tick.turn) /\ d = [fate EXCEPT !.dead = fate.dead \cup tick.turn.msgs]
  OBVIOUS
<1>3. g \in Fates /\ g.suppressed = fate.suppressed /\ g.lost = fate.lost
  BY <1>1, <1>2, StartedIs
<1>4. d \in Fates /\ d.suppressed = fate.suppressed /\ d.lost = fate.lost
  BY <1>1, <1>2 DEF Fates, Turns
<1>5. PICK f \in {fate, g, d} : TickEnds(mem, f)
  BY <1>2
<1>6. f \in Fates /\ Refused(checks, mem, tick, f)
  BY <1>1, <1>3, <1>4 DEF Refused
<1> QED
  BY <1>1, <1>5, <1>6, EndChecks

LEMMA LateTurnChecks ==
  ASSUME NEW started \in BOOLEAN, LoopInv, CheckInv, LateTurnEnds(started)
  PROVE  CheckInv'
<1>1. tick.pc = "lateTurn" /\ checks' = checks /\ tick \in Ticks /\ fate \in Fates
  BY CheckTypes DEF LateTurnEnds
<1>2. CASE started
  BY <1>1, <1>2, TurnEndChecks DEF LateTurnEnds
<1>3. CASE ~started
  <2>1. /\ tick' = [tick EXCEPT !.pc = "retry", !.turn = NoTurn] /\ mem' = mem
        /\ fate' = [fate EXCEPT !.dead = fate.dead \cup tick.turn.msgs]
    BY <1>3 DEF LateTurnEnds
  <2>2. tick'.pc = "retry" /\ tick'.turn = NoTurn /\ tick'.real = tick.real /\ tick'.kept = tick.kept
    BY <1>1, <2>1 DEF Ticks
  <2>3. fate'.suppressed = fate.suppressed /\ fate'.lost = fate.lost
    BY <1>1, <2>1 DEF Fates
  <2> QED
    BY <1>1, <2>1, <2>2, <2>3, IdleChecks
<1> QED
  BY <1>2, <1>3

LEMMA RetryTurnChecks ==
  ASSUME NEW started \in BOOLEAN, LoopInv, CheckInv, RetryTurnEnds(started)
  PROVE  CheckInv'
<1>1. tick.pc = "retryTurn" /\ checks' = checks
  BY DEF RetryTurnEnds
<1>2. \/ TickEnds(mem, Started(fate, tick.turn))
      \/ TickEnds(mem, [fate EXCEPT !.dead = fate.dead \cup tick.turn.msgs])
  BY DEF RetryTurnEnds
<1> QED
  BY <1>1, <1>2, TurnEndChecks

LEMMA RetryChecks ==
  ASSUME NEW c \in Convs, LoopInv, CheckInv, RetryAcquireFails(c) \/ RetryRefused(c) \/ RetryGranted(c)
  PROVE  CheckInv'
<1>1. tick.pc = "retry" /\ c \in tick.todo /\ checks' = checks
  BY DEF RetryAcquireFails, RetryRefused, RetryGranted, NextRetry
<1>2. /\ tick \in Ticks /\ mem \in Mems /\ GoodStash(mem.stash) /\ fate \in Fates /\ mem.gen \in Nat
      /\ Refused(checks, mem, tick, fate) /\ Vouched(checks, mem, tick)
  BY CheckTypes
<1>3. CASE TickEnds(mem, fate)
  BY <1>1, <1>3, TurnEndChecks
<1>4. CASE tick' = [tick EXCEPT !.todo = tick.todo \ {c}] /\ mem' = mem /\ fate' = fate
  <2>1. tick'.pc = tick.pc /\ tick'.turn = tick.turn /\ tick'.real = tick.real /\ tick'.kept = tick.kept
    BY <1>2, <1>4 DEF Ticks
  <2> QED
    BY <1>1, <1>4, <2>1, IdleChecks
<1>5. CASE RetryGranted(c) /\ ~mem.stopped
  <2>1. c \in StashConvs(mem.stash)
    BY <1>1, <1>5 DEF LoopInv, Shaped
  <2>2. PICK st, g, s : st = StashOf(mem.stash, c) /\ g = mem.gen /\ s = ClearDeferred(mem.stash, {c})
    OBVIOUS
  <2>3. GoodEntry(st) /\ g \in Nat
    BY <1>2, <2>1, <2>2, StashOfIs
  <2>4. Range(st.held) \subseteq Entries(mem.stash)
    <3>1. \E k \in DOMAIN mem.stash : mem.stash[k].conv = c
      BY <2>1 DEF StashConvs
    <3>2. PICK k \in DOMAIN mem.stash : st = mem.stash[k]
      BY <2>2, <3>1 DEF StashOf
    <3> QED
      BY <3>2 DEF Entries
  <2>5. \A e \in Range(st.held) : Holds(e)
    BY <1>2, <2>4 DEF Vouched
  <2>6. PICK turn : turn = HeldTurn(st, {}, g)
    OBVIOUS
  <2>7. \A e \in turn.shown : g \in Messages[e.msg].good
    BY ONLY <2>3, <2>5, <2>6, HeldShown
  <2>8. s \in Seq(StashEntry) /\ Entries(s) \subseteq Entries(mem.stash)
    BY <1>2, <2>2, ClearKeeps, ClearEntries DEF GoodStash
  <2>9. /\ tick' = [tick EXCEPT !.pc = "retryTurn", !.todo = {c}, !.turn = turn]
        /\ mem' = [mem EXCEPT !.stash = s] /\ fate' = fate
    BY <1>5, <2>2, <2>6 DEF RetryGranted
  <2>10. tick'.pc = "retryTurn" /\ tick'.turn = turn /\ tick'.real = tick.real
    BY <1>2, <2>9 DEF Ticks
  <2>11. /\ mem'.stash = s /\ mem'.seen = mem.seen /\ mem'.gen = g /\ mem'.stopped = mem.stopped
    BY <1>2, <2>2, <2>8, <2>9 DEF Mems
  <2>12. Refused(checks', mem', tick', fate')
    BY <1>1, <1>2, <2>9, <2>10, <2>11 DEF Refused
  <2>13. Vouched(checks', mem', tick')
    BY <1>2, <2>7, <2>8, <2>10, <2>11 DEF Vouched
  <2> QED
    BY <2>12, <2>13 DEF CheckInv
<1>6. CASE RetryAcquireFails(c)
  BY <1>4, <1>6 DEF RetryAcquireFails
<1>7. CASE RetryRefused(c)
  BY <1>3, <1>4, <1>7 DEF RetryRefused
<1>8. CASE RetryGranted(c) /\ mem.stopped
  BY <1>3, <1>8 DEF RetryGranted
<1> QED
  BY <1>5, <1>6, <1>7, <1>8

LEMMA ReleasedChecks == LoopInv /\ CheckInv /\ (FloorsReleased \/ RetriesDone) => CheckInv'
<1> SUFFICES ASSUME LoopInv, CheckInv, FloorsReleased \/ RetriesDone PROVE CheckInv'
  OBVIOUS
<1>1. tick.pc \in {"releasing", "retry"} /\ checks' = checks
  BY DEF FloorsReleased, RetriesDone
<1>2. /\ tick \in Ticks /\ mem \in Mems /\ GoodStash(mem.stash) /\ fate \in Fates
      /\ Refused(checks, mem, tick, fate) /\ Vouched(checks, mem, tick)
  BY CheckTypes
<1>3. CASE TickEnds(mem, fate)
  BY <1>1, <1>3, TurnEndChecks
<1>4. CASE ServiceDeferred(IdleTick, mem, fate)
  <2>1. IdleTick \in Ticks /\ IdleTick.turn = NoTurn /\ IdleTick.real = {} /\ IdleTick.pc = "idle"
    BY Constants DEF IdleTick
  <2>2. Refused(checks, mem, IdleTick, fate)
    BY <1>1, <1>2, <2>1 DEF Refused
  <2>3. Vouched(checks, mem, IdleTick)
    BY <1>2, <2>1, Constants DEF Vouched
  <2> QED
    BY <1>1, <1>2, <1>4, <2>1, <2>2, <2>3, ServiceChecks
<1> QED
  BY <1>3, <1>4 DEF FloorsReleased, RetriesDone

LEMMA StopChecks == LoopInv /\ CheckInv /\ Stop => CheckInv'
<1> SUFFICES ASSUME LoopInv, CheckInv, Stop PROVE CheckInv'
  OBVIOUS
<1>1. checks' = checks /\ tick' = tick
  BY DEF Stop
<1>2. /\ tick \in Ticks /\ mem \in Mems /\ GoodStash(mem.stash) /\ fate \in Fates
      /\ Refused(checks, mem, tick, fate) /\ Vouched(checks, mem, tick)
  BY CheckTypes
<1>3. PICK fl : fl = FlushOnStop(mem)
  OBVIOUS
<1>4. mem' = [fl.mem EXCEPT !.stopped = TRUE] /\ fate' = [fate EXCEPT !.dead = fate.dead \cup fl.dead]
  BY <1>3 DEF Stop
<1>5. fate'.suppressed = fate.suppressed /\ fate'.lost = fate.lost
  BY <1>2, <1>4 DEF Fates
<1>6. PICK K \in SUBSET DOMAIN mem.stash : K = {k \in DOMAIN mem.stash : mem.stash[k].conv \in mem.covering}
  OBVIOUS
<1>7. PICK s : s = Only(mem.stash, K)
  OBVIOUS
<1>8. s \in Seq(StashEntry) /\ Entries(s) \subseteq Entries(mem.stash)
  BY <1>2, <1>7, OnlyKeeps, OnlyEntries DEF GoodStash
<1>9. fl.mem = [mem EXCEPT !.unhanded = {}, !.stash = s]
  BY <1>3, <1>6, <1>7 DEF FlushOnStop
<1>10. mem'.stash = s /\ mem'.seen = mem.seen /\ mem'.gen = mem.gen /\ mem'.stopped
  BY <1>2, <1>4, <1>8, <1>9 DEF Mems
<1>11. Refused(checks', mem', tick', fate')
  BY <1>1, <1>2, <1>5, <1>10 DEF Refused
<1>12. Vouched(checks', mem', tick')
  BY <1>1, <1>2, <1>8, <1>10 DEF Vouched
<1> QED
  BY <1>11, <1>12 DEF CheckInv

LEMMA TimeChecks == LoopInv /\ CheckInv /\ (TimePasses \/ WindowsEnd) => CheckInv'
<1> SUFFICES ASSUME LoopInv, CheckInv, TimePasses \/ WindowsEnd PROVE CheckInv'
  OBVIOUS
<1>1. checks' = checks /\ tick' = tick /\ fate' = fate /\ mem \in Mems /\ GoodStash(mem.stash)
  BY CheckTypes DEF TimePasses, WindowsEnd
<1>2. CASE TimePasses
  <2>1. PICK t : t = [k \in DOMAIN mem.stash |-> Aged(mem.stash[k])]
    OBVIOUS
  <2>2. Entries(t) \subseteq Entries(mem.stash)
    BY <1>1, <2>1, AgedEntries
  <2>3. mem' = [mem EXCEPT !.stash = t]
    BY <1>2, <2>1 DEF TimePasses
  <2>4. mem'.stash = t /\ mem'.seen = mem.seen /\ mem'.gen = mem.gen /\ mem'.stopped = mem.stopped
    BY <1>1, <2>3 DEF Mems
  <2> QED
    BY <1>1, <2>2, <2>4, IdleChecks
<1>3. CASE WindowsEnd
  <2>1. PICK l : mem' = [mem EXCEPT !.latch = l]
    BY <1>1, <1>3 DEF WindowsEnd, Mems, Latches
  <2>2. mem'.stash = mem.stash /\ mem'.seen = mem.seen /\ mem'.gen = mem.gen /\ mem'.stopped = mem.stopped
    BY <1>1, <2>1 DEF Mems
  <2> QED
    BY <1>1, <2>2, IdleChecks
<1> QED
  BY <1>2, <1>3

LEMMA CheckStep == LoopInv /\ CheckInv /\ [Next]_vars => CheckInv'
<1> SUFFICES ASSUME LoopInv, CheckInv, [Next]_vars PROVE CheckInv'
  OBVIOUS
<1>1. CASE Poll
  BY <1>1, PollChecks
<1>2. CASE LoopStep
  BY <1>2, BatchChecks, NoticeChecks, AckChecks, AcquireChecks, PlanChecks, TurnChecks, LateTurnChecks,
     RetryTurnChecks, ReleasedChecks, RetryChecks DEF LoopStep
<1>3. CASE Stop
  BY <1>3, StopChecks
<1>4. CASE TimePasses \/ WindowsEnd
  BY <1>4, TimeChecks
<1>5. CASE tick' = tick /\ mem' = mem /\ fate' = fate /\ checks' = checks
  BY <1>5, IdleChecks
<1>6. CASE \E c \in ConvsOf(scope) : OtherAcquires(c) \/ OtherReleases(c) \/ LeaseExpires(c)
  BY <1>5, <1>6 DEF OtherAcquires, OtherReleases, LeaseExpires
<1> QED
  BY <1>1, <1>2, <1>3, <1>4, <1>5, <1>6 DEF Next, vars

LEMMA CheckInductive == Spec => [](LoopInv /\ CheckInv)
<1>1. LoopInv /\ CheckInv /\ [Next]_vars => CheckInv'
  BY CheckStep
<1> QED
  BY <1>1, LoopInductive, CheckInit, PTL DEF Spec

-----------------------------------------------------------------------------
(* The properties *)

\* An acknowledged message that asks for a turn is in the loop's hands, had its one
\* turn, is on record, or was turned away (no authority, rate or budget, a turn
\* that failed to spawn); and a message refused for its signature before it was
\* handed over gets nothing else.  Under redelivery with its nonce burnt, changes
\* of the pinned keys, busy floors, full stashes and a stop at any await
\* (autoreply.ts runTick).
THEOREM FatesStayAccounted == Spec => []FatesAccounted
<1>1. LoopInv /\ CheckInv => FatesAccounted
  <2> SUFFICES ASSUME LoopInv, CheckInv PROVE FatesAccounted
    OBVIOUS
  <2>1. Typed /\ Shaped /\ FloorsKept
    BY DEF LoopInv
  <2>2. TypeOK
    <3>1. \A k \in DOMAIN mem.stash : Len(mem.stash[k].held) \in 1..PerConvCap
      BY <2>1 DEF Typed, GoodStash, GoodEntry
    <3>2. tick.pc \in Pcs /\ mem.gen \in Gens
      BY <2>1 DEF Typed, Ticks, Mems
    <3>3. leaked \subseteq {c \in Convs : floor[c] = "self"}
      BY <2>1 DEF FloorsKept
    <3> QED
      BY <2>1, <3>1, <3>2, <3>3 DEF TypeOK, Typed, GoodStash, Shaped, Pcs
  <2>3. Fated(mem.seen, InHand, fate) /\ Judged(acked, mem.seen, fate)
    BY DEF LoopInv
  <2>4. acked \subseteq Ids /\ Stashed(mem.stash) \subseteq InHand
    BY <2>1 DEF Typed, InHand
  <2>5. AckedAccounted
    BY <2>3, <2>4 DEF AckedAccounted, Fated, Judged
  <2>6. \A i \in Ids : fate.started[i] \in Nat
    BY <2>1 DEF Typed, Fates
  <2>7. OneFate
    BY <2>3, <2>4, <2>6 DEF OneFate, Fated
  <2>8. /\ checks \in Checks /\ checks.rejected \cap mem.seen = {}
        /\ checks.replayed \cup fate.suppressed \cup fate.lost \subseteq mem.seen
    BY DEF CheckInv, Refused
  <2>9. InHand \cup fate.dead \cup {i \in Ids : fate.started[i] > 0} \subseteq mem.seen
    BY <2>3 DEF Fated
  <2>10. checks.rejected \subseteq Ids
    BY <2>8 DEF Checks
  <2>11. RefusalStands
    BY <2>6, <2>8, <2>9, <2>10 DEF RefusalStands
  <2> QED
    BY <2>2, <2>5, <2>7, <2>11 DEF FatesAccounted
<1> QED
  BY <1>1, CheckInductive, PTL

\* A turn presents as verified only messages whose signature holds under the keys
\* pinned while it runs: a stash keeps each message with the generation it was
\* checked under, through merges and retries, and entryVerdict compares it
\* (autoreply.ts:820).
THEOREM VerdictsStayFresh == Spec => []NoStaleVerdict
<1>1. CheckInv => NoStaleVerdict
  BY DEF CheckInv, Vouched, NoStaleVerdict
<1> QED
  BY <1>1, CheckInductive, PTL

\* Between ticks the loop keeps no floor it could hand back, and after a stop no
\* message (the finally block, flushOnStop and releaseFloors).
THEOREM NothingIsLeaked == Spec => []NothingLeaks
<1>1. LoopInv => NothingLeaks
  <2> SUFFICES ASSUME LoopInv PROVE NothingLeaks
    OBVIOUS
  <2>1. FloorsReturned
    BY NothingOwed DEF FloorsReturned, Self
  <2>2. ASSUME mem.stopped, tick.pc = "idle" PROVE InHand = {}
    <3>1. InHand = Stashed(mem.stash) /\ mem.covering = {}
      BY <2>2, HandIsStash
    <3>2. StashConvs(mem.stash) = {} /\ GoodStash(mem.stash)
      BY <2>2, <3>1 DEF LoopInv, Shaped, Typed
    <3> QED
      BY <3>1, <3>2, StashHolds
  <2> QED
    BY <2>1, <2>2 DEF NothingLeaks, StoppedHoldsNothing
<1> QED
  BY <1>1, LoopInductive, PTL

\* From the stop on the loop starts no turn, stashes nothing, sends no further
\* acknowledgement and begins no round of floors: the await a stop falls in is
\* followed by a check of the flag (autoreply.ts:2260).
THEOREM StopIsFinal == Spec => StoppedStartsNothing
<1> DEFINE Quiet ==
      /\ tick'.turn \in {tick.turn, NoTurn}
      /\ Stashed(mem'.stash) \subseteq Stashed(mem.stash)
      /\ acked' # acked => tick.pc = "acking"
      /\ tick'.pc \notin {"acking", "acquiring"} \/ tick'.pc = tick.pc
<1>1. ASSUME LoopInv, Next, mem.stopped PROVE Quiet
  <2>1. tick \in Ticks /\ mem \in Mems /\ GoodStash(mem.stash)
    BY <1>1 DEF LoopInv, Typed
  <2>2. ASSUME NEW f, TickEnds(mem, f), acked' = acked \/ tick.pc = "acking" PROVE Quiet
    <3>1. tick' = IdleTick /\ Stashed(mem'.stash) \subseteq Stashed(mem.stash)
      BY <2>1, <2>2, EndEntries
    <3> QED
      BY <2>2, <3>1, Constants
  <2>3. ASSUME tick' = tick, acked' = acked, Stashed(mem'.stash) \subseteq Stashed(mem.stash) PROVE Quiet
    BY <2>3
  <2>5. CASE ProcessBatch \/ (\E c \in Convs : NoticeSettles(c)) \/ (\E ok \in BOOLEAN : AckSettles(ok))
    <3>1. \E f : TickEnds(mem, f)
      BY <1>1, <2>5 DEF ProcessBatch, NoticeSettles, AckSettles
    <3>2. acked' = acked \/ tick.pc = "acking"
      BY <2>5 DEF ProcessBatch, NoticeSettles, AckSettles
    <3> QED
      BY <2>2, <3>1, <3>2
  <2>6. CASE PlanSettles \/ FloorsReleased \/ RetriesDone
    <3>1. TickEnds(mem, fate) /\ acked' = acked
      BY <1>1, <2>6 DEF PlanSettles, FloorsReleased, RetriesDone
    <3> QED
      BY <2>2, <3>1
  <2>7. ASSUME NEW c \in Convs, AcquireFloor(c) PROVE Quiet
    <3>1. tick.pc = "acquiring" /\ acked' = acked /\ mem' = mem
      BY <2>7 DEF AcquireFloor
    <3>2. tick'.pc = "acquiring" /\ tick'.turn = tick.turn
      BY <2>1, <2>7, <3>1 DEF AcquireFloor, Ticks, Plans
    <3> QED
      BY <3>1, <3>2
  <2>8. ASSUME NEW started \in BOOLEAN, TurnEnds(started) PROVE Quiet
    <3>1. tick'.pc = "releasing" /\ tick'.turn = NoTurn /\ acked' = acked
      BY <2>8, Constants DEF TurnEnds, Ticks
    <3>2. PICK m : m = [mem EXCEPT !.covering = {}]
      OBVIOUS
    <3>3. m \in Mems /\ m.stash = mem.stash
      BY <2>1, <3>2 DEF Mems
    <3>4. Stashed(mem'.stash) \subseteq Stashed(mem.stash)
      <4>1. CASE mem' = [m EXCEPT !.stash = ClearDeferred(mem.stash, tick.turn.covered)]
        <5>1. mem'.stash = ClearDeferred(mem.stash, tick.turn.covered)
          BY <3>3, <4>1 DEF Mems
        <5> QED
          BY <2>1, <5>1, ClearKeeps
      <4>2. CASE mem' = FlushOnStop(m).mem
        <5>1. PICK fl : fl = FlushOnStop(m)
          OBVIOUS
        <5>2. PICK s : /\ GoodStash(s) /\ fl.mem = [m EXCEPT !.unhanded = {}, !.stash = s]
                       /\ Stashed(s) = {i \in Stashed(m.stash) : Conv(i) \in m.covering}
          BY <2>1, <3>3, <5>1, FlushIs
        <5>3. mem'.stash = s
          BY <3>3, <4>2, <5>1, <5>2 DEF Mems, GoodStash
        <5> QED
          BY <3>3, <5>2, <5>3
      <4>3. CASE mem' = m
        BY <3>3, <4>3
      <4> QED
        BY <2>8, <3>2, <4>1, <4>2, <4>3 DEF TurnEnds
    <3> QED
      BY <3>1, <3>4
  <2>9. ASSUME NEW started \in BOOLEAN, LateTurnEnds(started) PROVE Quiet
    <3>1. acked' = acked
      BY <2>9 DEF LateTurnEnds
    <3>2. CASE started
      BY <2>2, <2>9, <3>1, <3>2 DEF LateTurnEnds
    <3>3. CASE ~started
      <4>1. tick' = [tick EXCEPT !.pc = "retry", !.turn = NoTurn] /\ mem' = mem
        BY <2>9, <3>3 DEF LateTurnEnds
      <4>2. tick'.pc = "retry" /\ tick'.turn = NoTurn
        BY <2>1, <4>1 DEF Ticks
      <4> QED
        BY <3>1, <4>1, <4>2
    <3> QED
      BY <3>2, <3>3
  <2>10. ASSUME NEW started \in BOOLEAN, RetryTurnEnds(started) PROVE Quiet
    <3>1. acked' = acked /\ \E f : TickEnds(mem, f)
      BY <2>10 DEF RetryTurnEnds
    <3> QED
      BY <2>2, <3>1
  <2>11. ASSUME NEW c \in Convs, RetryAcquireFails(c) PROVE Quiet
    <3>1. tick' = [tick EXCEPT !.todo = tick.todo \ {c}] /\ acked' = acked /\ mem' = mem
      BY <2>11 DEF RetryAcquireFails
    <3>2. tick'.pc = tick.pc /\ tick'.turn = tick.turn
      BY <2>1, <3>1 DEF Ticks
    <3> QED
      BY <3>1, <3>2
  <2>12. ASSUME NEW c \in Convs, RetryRefused(c) \/ RetryGranted(c) PROVE Quiet
    <3>1. TickEnds(mem, fate) /\ acked' = acked
      BY <1>1, <2>12 DEF RetryRefused, RetryGranted
    <3> QED
      BY <2>2, <3>1
  <2>13. CASE LoopStep
    BY <2>5, <2>6, <2>7, <2>8, <2>9, <2>10, <2>11, <2>12, <2>13 DEF LoopStep
  <2>14. CASE Poll
    BY <1>1, <2>14 DEF Poll
  <2>15. CASE TimePasses
    <3>1. PICK t : t = [k \in DOMAIN mem.stash |-> Aged(mem.stash[k])]
      OBVIOUS
    <3>2. mem' = [mem EXCEPT !.stash = t] /\ tick' = tick /\ acked' = acked
      BY <2>15, <3>1 DEF TimePasses
    <3>3. mem'.stash = t /\ Stashed(t) = Stashed(mem.stash)
      BY <2>1, <3>1, <3>2, AgedKeeps DEF Mems
    <3> QED
      BY <2>3, <3>2, <3>3
  <2>16. CASE WindowsEnd
    <3>1. tick' = tick /\ acked' = acked /\ mem'.stash = mem.stash
      BY <2>1, <2>16 DEF WindowsEnd, Mems
    <3> QED
      BY <2>3, <3>1
  <2>17. CASE \E c \in ConvsOf(scope) : OtherAcquires(c) \/ OtherReleases(c) \/ LeaseExpires(c)
    BY <2>3, <2>17 DEF OtherAcquires, OtherReleases, LeaseExpires
  <2> QED
    BY <1>1, <2>13, <2>14, <2>15, <2>16, <2>17 DEF Next, Stop
<1>2. LoopInv /\ [Next]_vars => [mem.stopped => Quiet]_vars
  BY <1>1
<1> QED
  BY <1>2, LoopInductive, PTL DEF Spec, StoppedStartsNothing

-----------------------------------------------------------------------------
(* The latch *)

\* The peer messages of c that have passed the latch and not had their turn.
Claimed(c) ==
  {i \in InHand \cup (IF tick.pc = "notice" THEN tick.kept ELSE {}) :
     Conv(i) = c /\ ~FromOperator(i)}

\* b caps conversation c whatever settings a batch carries.
Ceiling(c, b) ==
  /\ Settings # {}
  /\ \A s \in Settings : EffectiveConversationBudget(s, c) \in 1..b

\* What c spent and may still spend was paid for by the resets and the latch.
Paid(c, b) ==
  /\ mem.latch.used[c] <= b
  /\ fate.peerTurns[c] + Cardinality(Claimed(c)) <= b * fate.resets[c] + mem.latch.used[c]

\* A closed latch was announced, or is among the notices of this tick.
Announced ==
  /\ tick.pc = "notice" => /\ tick.notices \cap fate.told = {}
                           /\ tick.latched \subseteq fate.told \cup tick.notices
                           /\ mem.latch.escalated = fate.told \cup tick.notices
  /\ tick.pc = "acking" => tick.latched \subseteq fate.told
  /\ tick.pc # "notice" /\ ~mem.stopped => mem.latch.escalated = fate.told

LatchInv == Announced /\ \A c \in Convs, b \in Nat : Ceiling(c, b) => Paid(c, b)

LEMMA ResetDoes ==
  ASSUME NEW l \in Latches, NEW C, NEW r, r = ResetPeerLatch(l, C)
  PROVE  /\ r \in Latches /\ r.escalated = l.escalated \ C
         /\ \A c \in Convs : r.used[c] = IF c \in C THEN 0 ELSE l.used[c]
         /\ r.recent = l.recent /\ r.refreshes = l.refreshes
  BY ResetIs DEF ResetPeerLatch, Latches

\* r is l with whole conversations reset, the uncapped ones among them.
Wiped(l, s, r) ==
  \E X : /\ Uncapped(s) \subseteq X
         /\ r \in Latches /\ r.escalated = l.escalated \ X
         /\ \A c \in Convs : r.used[c] = IF c \in X THEN 0 ELSE l.used[c]

\* Whatever resets the latch before the gates resets whole conversations.
LEMMA SpokenIs ==
  ASSUME NEW l \in Latches, NEW s, NEW batch \in SUBSET Ids, NEW gen, NEW O
  PROVE  Wiped(l, s, ResetPeerLatch(RefreshBudgetForProgressSignals(
                                      ReconcilePeerLatches(l, s), batch, gen), O))
<1>0. PICK r : r = ResetPeerLatch(RefreshBudgetForProgressSignals(
                                    ReconcilePeerLatches(l, s), batch, gen), O)
  OBVIOUS
<1>1. PICK a : a = ReconcilePeerLatches(l, s)
  OBVIOUS
<1>2. /\ a \in Latches /\ a.escalated = l.escalated \ Uncapped(s)
      /\ \A c \in Convs : a.used[c] = IF c \in Uncapped(s) THEN 0 ELSE l.used[c]
  BY <1>1, ResetDoes DEF ReconcilePeerLatches
<1> DEFINE Signals(c) == {i \in batch : Refreshes(i, gen) /\ Conv(i) = c}
<1> DEFINE refreshed == {c \in Convs : Signals(c) # {} /\ a.refreshes[c] < RefreshMax}
<1> DEFINE After(c) == a.refreshes[c] + Cardinality(Signals(c))
<1>3. PICK f, R : /\ R = refreshed
                  /\ f = [c \in Convs |-> IF c \notin refreshed THEN a.refreshes[c]
                           ELSE IF After(c) < RefreshMax THEN After(c) ELSE RefreshMax]
  OBVIOUS
<1>4. PICK d : d = [a EXCEPT !.refreshes = f]
  OBVIOUS
<1>5. RefreshBudgetForProgressSignals(a, batch, gen) = ResetPeerLatch(d, R)
  BY <1>3, <1>4 DEF RefreshBudgetForProgressSignals
<1>6. d \in Latches /\ d.escalated = a.escalated /\ d.used = a.used
  <2>1. RefreshMax \in Nat
    BY AutoReplyAssumption
  <2>2. \A c \in Convs : After(c) \in Nat /\ a.refreshes[c] \in Nat
    BY <1>2, FiniteIds DEF Latches
  <2>3. f \in [Convs -> Nat]
    BY <1>3, <2>1, <2>2
  <2> QED
    BY <1>2, <1>4, <2>3 DEF Latches
<1>7. PICK e : e = ResetPeerLatch(d, R)
  OBVIOUS
<1> HIDE DEF Signals, refreshed, After
<1>8. /\ e \in Latches /\ e.escalated = d.escalated \ R
      /\ \A c \in Convs : e.used[c] = IF c \in R THEN 0 ELSE d.used[c]
  BY ONLY <1>6, <1>7, ResetDoes
<1>9. r = ResetPeerLatch(e, O)
  BY <1>0, <1>1, <1>5, <1>7
<1>10. /\ r \in Latches /\ r.escalated = e.escalated \ O
       /\ \A c \in Convs : r.used[c] = IF c \in O THEN 0 ELSE e.used[c]
  BY ONLY <1>8, <1>9, ResetDoes
<1>11. PICK X : X = Uncapped(s) \cup R \cup O
  OBVIOUS
<1>12. r.escalated = l.escalated \ X
  BY <1>2, <1>6, <1>8, <1>10, <1>11
<1>13. \A c \in Convs : r.used[c] = IF c \in X THEN 0 ELSE l.used[c]
  BY <1>2, <1>6, <1>8, <1>10, <1>11
<1>14. Wiped(l, s, r)
  BY <1>10, <1>11, <1>12, <1>13 DEF Wiped
<1> QED
  BY <1>0, <1>14

LEMMA RateGateSpares ==
  ASSUME NEW l \in Latches, NEW real \in SUBSET Ids, NEW g, g = ApplyPeerRateGate(l, real)
  PROVE  g.latch.used = l.used /\ g.latch.escalated = l.escalated
  BY DEF ApplyPeerRateGate, Latches

LEMMA Greatest ==
  ASSUME NEW S \in SUBSET Ids, S # {}
  PROVE  \E i \in S : \A j \in S : j <= i
<1>1. PICK n \in Nat : Ids = 1..n
  BY IdsAre
<1>2. /\ IsFiniteSet(S) /\ Cardinality(S) \in Nat
      /\ \A k \in 1..Cardinality(S) : \E i \in S : Place(S, i) = k
  <2>1. S \in SUBSET (1..n)
    BY <1>1
  <2> QED
    BY ONLY <2>1, n \in Nat, Places
<1>3. Cardinality(S) \in 1..Cardinality(S)
  <2>1. Cardinality(S) > 0
    BY OrderOfIds
  <2> QED
    BY <1>2, <2>1
<1>4. PICK i \in S : Place(S, i) = Cardinality(S)
  BY <1>2, <1>3
<1>5. PICK B \in SUBSET S : B = {j \in S : j <= i}
  OBVIOUS
<1>6. B = S
  BY <1>2, <1>4, <1>5, FS_Subset DEF Place
<1> QED
  BY <1>5, <1>6

\* The latch lets as many peer messages of a capped conversation pass as it has
\* turns left, and counts each of them.
LEMMA LatchCounts ==
  ASSUME NEW l \in Latches, NEW s, NEW K \in SUBSET Ids, NEW g, g = ApplyPeerLatch(l, s, K),
         NEW c \in Convs, NEW b \in Nat, EffectiveConversationBudget(s, c) \in 1..b, l.used[c] <= b,
         NEW P, P = {i \in g.kept : Conv(i) = c /\ ~FromOperator(i)}
  PROVE  g.latch.used[c] = l.used[c] + Cardinality(P) /\ g.latch.used[c] <= b
<1>1. PICK peers \in SUBSET Ids : peers = {i \in K : ~FromOperator(i)}
  OBVIOUS
<1> DEFINE Ahead(i) == {j \in peers : j < i /\ Conv(j) = Conv(i)}
<1>2. PICK open : open = {i \in peers : PeerLatchOpen(s, Conv(i), l.used[Conv(i)] + Cardinality(Ahead(i)))}
  OBVIOUS
<1>3. PICK u : u = [d \in Convs |-> l.used[d] + Cardinality({i \in open : Conv(i) = d})]
  OBVIOUS
<1>4. PICK C : C = ConvsOf(open) \cap Uncapped(s)
  OBVIOUS
<1>5. g = [kept |-> (K \ peers) \cup open, latched |-> ConvsOf(peers \ open),
           latch |-> ResetPeerLatch([l EXCEPT !.used = u], C)]
  BY <1>1, <1>2, <1>3, <1>4 DEF ApplyPeerLatch
<1>6. P = {i \in open : Conv(i) = c}
  BY <1>1, <1>2, <1>5
<1>7. PICK bu \in 1..b : bu = EffectiveConversationBudget(s, c)
  OBVIOUS
<1>8. c \notin C
  BY <1>4, <1>7 DEF Uncapped, IsCapped
<1>9. P \in SUBSET Ids /\ P \subseteq peers /\ open \in SUBSET Ids
  BY <1>2, <1>6
<1>10. Cardinality(P) \in Nat /\ IsFiniteSet(P) /\ l.used[c] \in Nat
  BY <1>9, FiniteIds DEF Latches
<1>11. u \in [Convs -> Nat]
  <2>1. \A d \in Convs : {i \in open : Conv(i) = d} \in SUBSET Ids /\ l.used[d] \in Nat
    BY <1>9 DEF Latches
  <2>2. \A d \in Convs : l.used[d] + Cardinality({i \in open : Conv(i) = d}) \in Nat
    BY <2>1, FiniteIds
  <2> QED
    BY <1>3, <2>2
<1>12. PICK h : h = [l EXCEPT !.used = u]
  OBVIOUS
<1>13. h \in Latches /\ h.used = u
  BY <1>11, <1>12 DEF Latches
<1>14. g.latch.used[c] = u[c]
  <2>1. PICK r : r = ResetPeerLatch(h, C)
    OBVIOUS
  <2>2. r.used[c] = IF c \in C THEN 0 ELSE h.used[c]
    BY ONLY <1>13, <2>1, c \in Convs, ResetDoes
  <2> QED
    BY <1>5, <1>8, <1>12, <1>13, <2>1, <2>2
<1>15. g.latch.used[c] = l.used[c] + Cardinality(P)
  BY <1>3, <1>6, <1>14
<1>16. CASE P = {}
  BY <1>10, <1>15, <1>16, FS_EmptySet
<1>17. CASE P # {}
  <2>1. PICK i \in P : \A j \in P : j <= i
    BY <1>9, <1>17, Greatest
  <2>2. PICK A \in SUBSET Ids : A = Ahead(i)
    BY <1>9
  <2>3. P \ {i} \subseteq A
    <3> SUFFICES ASSUME NEW j \in P, j # i PROVE j \in A
      OBVIOUS
    <3>1. i \in Int /\ j \in Int
      BY <1>9, IdsAre
    <3>2. j < i
      BY <2>1, <3>1
    <3> QED
      BY <1>6, <1>9, <2>2, <3>2
  <2>4. IsFiniteSet(A) /\ Cardinality(A) \in Nat
    BY FiniteIds
  <2>5. Cardinality(P \ {i}) = Cardinality(P) - 1
    BY <1>10, FS_RemoveElement
  <2>6. Cardinality(P \ {i}) <= Cardinality(A)
    BY <2>3, <2>4, FS_Subset
  <2>7. l.used[c] + Cardinality(A) < bu
    <3>1. Conv(i) = c /\ PeerLatchOpen(s, Conv(i), l.used[Conv(i)] + Cardinality(A))
      BY <1>2, <1>6, <2>2
    <3> QED
      BY <1>7, <3>1 DEF PeerLatchOpen, IsCapped
  <2> QED
    BY <1>7, <1>10, <1>15, <2>4, <2>5, <2>6, <2>7
<1> QED
  BY <1>15, <1>16, <1>17

\* The gate itself only reopens conversations that have no cap.
LEMMA LatchSpares ==
  ASSUME NEW l \in Latches, NEW s, NEW K \in SUBSET Ids, NEW g, g = ApplyPeerLatch(l, s, K),
         l.escalated \cap Uncapped(s) = {}
  PROVE  g.latch.escalated = l.escalated
<1>1. \E u, C : C \subseteq Uncapped(s) /\ g.latch = ResetPeerLatch([l EXCEPT !.used = u], C)
  BY DEF ApplyPeerLatch
<1>2. PICK u, C : C \subseteq Uncapped(s) /\ g.latch = ResetPeerLatch([l EXCEPT !.used = u], C)
  BY <1>1
<1>3. g.latch.escalated = l.escalated \ C
  BY <1>2 DEF ResetPeerLatch, Latches
<1> QED
  BY <1>2, <1>3

LEMMA HandIsIds == LoopInv => InHand \subseteq Ids
<1> SUFFICES ASSUME LoopInv PROVE InHand \subseteq Ids
  OBVIOUS
<1>1. tick.turn \in Turns /\ mem \in Mems /\ Stashed(mem.stash) \subseteq Ids
  BY StashHolds DEF LoopInv, Typed, Ticks
<1> QED
  BY <1>1 DEF InHand, Turns, Mems

\* A turn is paid for by a claim.
LEMMA PaidStays ==
  ASSUME LoopInv, LoopInv', NEW c \in Convs, NEW b \in Nat, Paid(c, b),
         mem'.latch.used = mem.latch.used, fate'.resets = fate.resets,
         Claimed(c)' \subseteq Claimed(c),
         \/ fate'.peerTurns[c] = fate.peerTurns[c]
         \/ fate'.peerTurns[c] = fate.peerTurns[c] + 1 /\ Claimed(c)' # Claimed(c)
  PROVE  Paid(c, b)'
<1>1. PICK A, B : A = Claimed(c) /\ B = Claimed(c)'
  OBVIOUS
<1>2. IsFiniteSet(A) /\ Cardinality(A) \in Nat /\ IsFiniteSet(B) /\ Cardinality(B) \in Nat
  <2>1. A \in SUBSET Ids
    BY <1>1, HandIsIds DEF Claimed, LoopInv, Typed, Ticks
  <2> QED
    BY <1>1, <2>1, FiniteIds
<1>3. Cardinality(B) <= Cardinality(A) /\ (Cardinality(B) = Cardinality(A) => B = A)
  BY <1>1, <1>2, FS_Subset
<1>4. fate.peerTurns[c] \in Nat /\ fate.resets[c] \in Nat /\ mem.latch.used[c] \in Nat
  BY DEF LoopInv, Typed, Fates, Mems, Latches
<1>5. PICK x \in Nat : x = b * fate.resets[c]
  BY <1>4
<1>6. mem.latch.used[c] <= b /\ fate.peerTurns[c] + Cardinality(A) <= x + mem.latch.used[c]
  BY <1>1, <1>5 DEF Paid
<1>7. fate'.peerTurns[c] + Cardinality(B) <= x + mem.latch.used[c]
  BY <1>1, <1>2, <1>3, <1>4, <1>6
<1> QED
  BY <1>1, <1>5, <1>6, <1>7 DEF Paid

\* What most steps do about the latch: nothing, or they end a turn.
Ordinary ==
  /\ tick' = tick \/ (tick.pc # "notice" /\ tick'.pc \notin {"notice", "acking"})
  /\ mem'.latch.used = mem.latch.used /\ mem'.latch.escalated = mem.latch.escalated
  /\ fate'.told = fate.told /\ fate'.resets = fate.resets
  /\ mem.stopped => mem'.stopped
  /\ InHand' \subseteq InHand
  /\ \/ fate'.peerTurns = fate.peerTurns
     \/ /\ fate'.peerTurns = Started(fate, tick.turn).peerTurns
        /\ tick'.pc # "notice"
        /\ InHand' \cap tick.turn.msgs = {}

LEMMA StartedCounts ==
  ASSUME NEW f \in Fates, NEW turn \in Turns, NEW c \in Convs
  PROVE  Started(f, turn).peerTurns[c] =
           f.peerTurns[c] + (IF /\ c \in ConvsOf(turn.msgs)
                                /\ \A i \in turn.msgs : Conv(i) = c => ~FromOperator(i)
                             THEN 1 ELSE 0)
<1>1. PICK P : P = {d \in ConvsOf(turn.msgs) :
                     \A i \in turn.msgs : Conv(i) = d => ~FromOperator(i)}
  OBVIOUS
<1>2. PICK st, pt : /\ st = [i \in Ids |-> f.started[i] + (IF i \in turn.msgs THEN 1 ELSE 0)]
                    /\ pt = [d \in Convs |-> f.peerTurns[d] + (IF d \in P THEN 1 ELSE 0)]
  OBVIOUS
<1>3. Started(f, turn) = [f EXCEPT !.started = st, !.peerTurns = pt]
  BY <1>1, <1>2 DEF Started
<1>4. Started(f, turn).peerTurns = pt
  BY <1>3 DEF Fates
<1> QED
  BY <1>1, <1>2, <1>4

LEMMA OrdinaryKeeps == LoopInv /\ LatchInv /\ Ordinary /\ LoopInv' => LatchInv'
<1> SUFFICES ASSUME LoopInv, LatchInv, Ordinary, LoopInv' PROVE LatchInv'
  OBVIOUS
<1>1. Announced'
  BY DEF LatchInv, Announced, Ordinary
<1>2. ASSUME NEW c \in Convs, NEW b \in Nat, Ceiling(c, b) PROVE Paid(c, b)'
  <2>1. Paid(c, b)
    BY <1>2 DEF LatchInv
  <2>2. Claimed(c)' \subseteq Claimed(c)
    BY DEF Claimed, Ordinary
  <2>3. mem'.latch.used = mem.latch.used /\ fate'.resets = fate.resets
    BY DEF Ordinary
  <2>4. CASE fate'.peerTurns = fate.peerTurns
    BY <2>1, <2>2, <2>3, <2>4, PaidStays
  <2>5. CASE /\ fate'.peerTurns = Started(fate, tick.turn).peerTurns
             /\ tick'.pc # "notice"
             /\ InHand' \cap tick.turn.msgs = {}
    <3>1. PICK T \in Turns : T = tick.turn
      BY DEF LoopInv, Typed, Ticks
    <3>2. fate'.peerTurns[c] = fate.peerTurns[c] +
            (IF c \in ConvsOf(T.msgs) /\ \A i \in T.msgs : Conv(i) = c => ~FromOperator(i) THEN 1 ELSE 0)
      BY <2>5, <3>1, StartedCounts DEF LoopInv, Typed
    <3>3. CASE c \in ConvsOf(T.msgs) /\ \A i \in T.msgs : Conv(i) = c => ~FromOperator(i)
      <4>1. PICK i \in T.msgs : Conv(i) = c /\ ~FromOperator(i)
        BY <3>3 DEF ConvsOf
      <4>2. i \in Claimed(c)
        BY <3>1, <4>1 DEF Claimed, InHand
      <4>3. i \notin Claimed(c)'
        BY <2>5, <3>1, <4>1 DEF Claimed
      <4> QED
        BY <2>1, <2>2, <2>3, <3>2, <3>3, <4>2, <4>3, PaidStays
    <3>4. CASE ~(c \in ConvsOf(T.msgs) /\ \A i \in T.msgs : Conv(i) = c => ~FromOperator(i))
      <4>1. fate.peerTurns[c] \in Nat
        BY DEF LoopInv, Typed, Fates
      <4>2. fate'.peerTurns[c] = fate.peerTurns[c]
        BY <3>2, <3>4, <4>1
      <4> QED
        BY <2>1, <2>2, <2>3, <4>2, PaidStays
    <3> QED
      BY <3>3, <3>4
  <2> QED
    BY <2>4, <2>5 DEF Ordinary
<1> QED
  BY <1>1, <1>2 DEF LatchInv, Ceiling

\* No message that had a turn is still in the loop's hands.
LEMMA RanIsGone ==
  ASSUME LoopInv, LoopInv', NEW T \in Turns, \A i \in T.msgs : fate'.started[i] = fate.started[i] + 1
  PROVE  InHand' \cap T.msgs = {}
<1>1. T.msgs \subseteq Ids /\ \A i \in Ids : fate.started[i] \in Nat
  BY DEF Turns, LoopInv, Typed, Fates
<1>2. \A i \in T.msgs : fate'.started[i] > 0
  BY <1>1
<1> QED
  BY <1>1, <1>2 DEF LoopInv, Fated

\* A tick that ends is an ordinary step.
LEMMA EndIsOrdinary ==
  ASSUME LoopInv, LoopInv', tick.pc # "notice",
         TickEnds(mem, fate) \/ TickEnds(mem, Started(fate, tick.turn))
           \/ TickEnds(mem, [fate EXCEPT !.dead = fate.dead \cup tick.turn.msgs])
  PROVE  Ordinary
<1>1. mem \in Mems /\ GoodStash(mem.stash) /\ fate \in Fates /\ tick.turn \in Turns
  BY DEF LoopInv, Typed, Ticks
<1>2. PICK g, d : g = Started(fate, tick.turn) /\ d = [fate EXCEPT !.dead = fate.dead \cup tick.turn.msgs]
  OBVIOUS
<1>3. /\ g \in Fates
      /\ \A i \in Ids : g.started[i] = fate.started[i] + (IF i \in tick.turn.msgs THEN 1 ELSE 0)
      /\ g.told = fate.told /\ g.resets = fate.resets
  BY <1>1, <1>2, StartedIs
<1>4. d \in Fates /\ d.told = fate.told /\ d.resets = fate.resets /\ d.peerTurns = fate.peerTurns
  BY <1>1, <1>2 DEF Fates, Turns
<1>5. PICK f \in {fate, g, d} : TickEnds(mem, f)
  BY <1>2
<1>6. f \in Fates /\ f.told = fate.told /\ f.resets = fate.resets
  BY <1>1, <1>3, <1>4
<1>7. /\ tick' = IdleTick /\ mem'.unhanded = {} /\ mem'.stopped = mem.stopped /\ mem'.latch = mem.latch
      /\ Stashed(mem'.stash) \subseteq Stashed(mem.stash)
      /\ fate' = [f EXCEPT !.dead = f.dead \cup (Stashed(mem.stash) \ Stashed(mem'.stash))]
  BY <1>1, <1>5, <1>6, EndsIs
<1>8. fate'.told = f.told /\ fate'.resets = f.resets /\ fate'.peerTurns = f.peerTurns /\ fate'.started = f.started
  BY <1>6, <1>7 DEF Fates
<1>9. InHand' \subseteq InHand
  BY <1>7, Constants DEF InHand
<1>10. tick'.pc = "idle"
  BY <1>7, Constants
<1>11. ASSUME f = g PROVE InHand' \cap tick.turn.msgs = {}
  <2>1. tick.turn.msgs \subseteq Ids
    BY <1>1 DEF Turns
  <2> QED
    BY <1>1, <1>3, <1>8, <1>11, <2>1, RanIsGone
<1>12. f.peerTurns = fate.peerTurns \/ f = g
  BY <1>4, <1>5
<1> QED
  BY <1>2, <1>6, <1>7, <1>8, <1>9, <1>10, <1>11, <1>12 DEF Ordinary

\* So is the service of what was held back.
LEMMA ServiceIsOrdinary ==
  ASSUME NEW t \in Ticks, NEW m \in Mems, GoodStash(m.stash), NEW f \in Fates,
         t.turn = NoTurn, ServiceDeferred(t, m, f), tick.pc # "notice",
         m.latch = mem.latch, m.stopped = mem.stopped, m.unhanded = {},
         Stashed(m.stash) \subseteq InHand,
         f.told = fate.told, f.resets = fate.resets, f.peerTurns = fate.peerTurns
  PROVE  Ordinary
<1>1. /\ fate' = f /\ mem'.latch = m.latch /\ mem'.stopped = m.stopped /\ mem'.unhanded = m.unhanded
      /\ tick'.pc \in {"lateTurn", "retry"}
      /\ tick'.turn.msgs \cup Stashed(mem'.stash) = Stashed(m.stash)
  BY ServiceIs
<1>2. InHand' \subseteq InHand
  BY <1>1 DEF InHand
<1> QED
  BY <1>1, <1>2 DEF Ordinary

LEMMA AckIsOrdinary ==
  ASSUME NEW ok \in BOOLEAN, LoopInv, LoopInv', AckSettles(ok)
  PROVE  Ordinary
<1>1. tick.pc = "acking"
  BY DEF AckSettles
<1>2. /\ tick \in Ticks /\ mem \in Mems /\ GoodStash(mem.stash) /\ fate \in Fates
      /\ tick.turn = NoTurn /\ mem.unhanded = IF mem.stopped THEN {} ELSE tick.kept
  BY <1>1 DEF LoopInv, Typed, Shaped
<1>3. PICK t : t = Acked
  OBVIOUS
<1>4. t \in Ticks /\ t.turn = NoTurn
  BY <1>2, <1>3 DEF Acked, Ticks
<1>5. CASE mem.stopped
  BY <1>1, <1>5, EndIsOrdinary DEF AckSettles
<1>6. CASE ~mem.stopped /\ tick.kept = {}
  <2>1. ServiceDeferred(t, mem, fate) /\ mem.unhanded = {} /\ Stashed(mem.stash) \subseteq InHand
    BY <1>2, <1>3, <1>6 DEF AckSettles, InHand
  <2> QED
    BY <1>1, <1>2, <1>4, <2>1, ServiceIsOrdinary
<1>7. CASE ~mem.stopped /\ tick.kept # {}
  <2>1. /\ tick' = [t EXCEPT !.pc = "acquiring", !.todo = ConvsOf(tick.kept)]
        /\ mem' = mem /\ fate' = fate
    BY <1>3, <1>7 DEF AckSettles
  <2>2. tick'.pc = "acquiring" /\ tick'.turn = tick.turn
    BY <1>2, <1>4, <2>1 DEF Ticks
  <2>3. InHand' = InHand
    BY <2>1, <2>2 DEF InHand
  <2> QED
    BY <1>1, <2>1, <2>2, <2>3 DEF Ordinary
<1> QED
  BY <1>5, <1>6, <1>7

LEMMA AcquireIsOrdinary ==
  ASSUME NEW c \in Convs, LoopInv, AcquireFloor(c)
  PROVE  Ordinary
<1>1. tick.pc = "acquiring" /\ mem' = mem /\ fate' = fate /\ tick \in Ticks
  BY DEF AcquireFloor, LoopInv, Typed
<1>2. tick'.pc = tick.pc /\ tick'.turn = tick.turn
  BY <1>1 DEF AcquireFloor, Ticks
<1>3. InHand' = InHand
  BY <1>1, <1>2 DEF InHand
<1> QED
  BY <1>1, <1>2, <1>3 DEF Ordinary

LEMMA PlanIsOrdinary == LoopInv /\ PlanSettles /\ LoopInv' => Ordinary
<1> SUFFICES ASSUME LoopInv, PlanSettles, LoopInv' PROVE Ordinary
  OBVIOUS
<1>1. tick.pc = "acquiring" /\ tick.todo = {}
  BY DEF PlanSettles
<1>2. /\ tick \in Ticks /\ mem \in Mems /\ GoodStash(mem.stash) /\ fate \in Fates
      /\ mem.unhanded = IF mem.stopped THEN {} ELSE tick.kept
  BY <1>1 DEF LoopInv, Typed, Shaped
<1>3. CASE mem.stopped
  BY <1>1, <1>3, EndIsOrdinary DEF PlanSettles
<1>4. CASE ~mem.stopped
  <2>1. PICK s, g, F, D : s = mem.stash /\ g = mem.gen /\ F = tick.plan.floored /\ D = tick.plan.held
    OBVIOUS
  <2>2. GoodStash(s) /\ g \in Nat /\ F \in SUBSET Ids /\ D \in SUBSET Ids
    BY <1>2, <2>1, AutoReplyAssumption DEF Ticks, Plans, Mems
  <2>3. F \cup D \subseteq mem.unhanded
    BY <1>1, <1>2, <1>4, <2>1 DEF LoopInv, Placed
  <2>4. PICK put : put = StashDeferred(s, D, g)
    OBVIOUS
  <2>5. /\ GoodStash(put.stash) /\ Stashed(put.stash) \subseteq Stashed(s) \cup D
        /\ put.dropped = (Stashed(s) \cup D) \ Stashed(put.stash)
    BY ONLY <2>2, <2>4, StashDeferredKeeps
  <2>6. Stashed(put.stash) \subseteq InHand /\ F \subseteq InHand
    BY <2>1, <2>3, <2>5 DEF InHand
  <2>7. PICK m, f : /\ m = [mem EXCEPT !.stash = put.stash, !.unhanded = {}]
                    /\ f = [fate EXCEPT !.dead = fate.dead \cup put.dropped]
    OBVIOUS
  <2>8. /\ m \in Mems /\ m.stash = put.stash /\ m.unhanded = {} /\ m.latch = mem.latch
        /\ m.stopped = mem.stopped
    BY <1>2, <2>5, <2>7 DEF Mems, GoodStash
  <2>9. /\ f \in Fates /\ f.told = fate.told /\ f.resets = fate.resets
        /\ f.peerTurns = fate.peerTurns
    <3>1. Stashed(s) \subseteq Ids
      BY <2>2, StashHolds
    <3> QED
      BY <1>2, <2>2, <2>5, <2>7, <3>1 DEF Fates
  <2>10. CASE F = {}
    <3>1. ServiceDeferred(IdleTick, m, f)
      BY <1>4, <2>1, <2>4, <2>7, <2>10 DEF PlanSettles
    <3> QED
      BY <1>1, <2>5, <2>6, <2>8, <2>9, <3>1, Constants, ServiceIsOrdinary
  <2>11. CASE F # {}
    <3>1. PICK p, T : p = put.stash /\ T = CoveringTurn(p, F, g)
      OBVIOUS
    <3>2. /\ tick' = [tick EXCEPT !.pc = "turn", !.turn = T]
          /\ mem' = [m EXCEPT !.covering = T.covered] /\ fate' = f
      BY <1>4, <2>1, <2>4, <2>7, <2>11, <3>1 DEF PlanSettles
    <3>3. \A i : i \in T.msgs <=> i \in F \/ (i \in Stashed(p) /\ Conv(i) \in T.covered)
      <4>1. GoodStash(p)
        BY <2>5, <3>1
      <4> QED
        BY ONLY <2>2, <3>1, <4>1, CoveringTurnIs
    <3>4. /\ mem'.latch = mem.latch /\ mem'.stopped = mem.stopped /\ mem'.unhanded = {}
          /\ mem'.stash = p
      BY <2>8, <3>1, <3>2 DEF Mems
    <3>5. tick'.pc = "turn" /\ tick'.turn = T
      BY <1>2, <3>2 DEF Ticks
    <3>6. InHand' \subseteq InHand
      BY <2>6, <3>1, <3>3, <3>4, <3>5 DEF InHand
    <3> QED
      BY <1>1, <2>9, <3>2, <3>4, <3>5, <3>6 DEF Ordinary
  <2> QED
    BY <2>10, <2>11
<1> QED
  BY <1>3, <1>4

LEMMA TurnIsOrdinary ==
  ASSUME NEW started \in BOOLEAN, LoopInv, LoopInv', TurnEnds(started)
  PROVE  Ordinary
<1>1. /\ tick.pc = "turn"
      /\ tick' = [IdleTick EXCEPT !.pc = "releasing", !.plan.release = tick.plan.release]
  BY DEF TurnEnds
<1>2. /\ mem \in Mems /\ GoodStash(mem.stash) /\ fate \in Fates /\ tick.turn \in Turns
      /\ tick.plan \in Plans /\ mem.unhanded = {}
  BY <1>1 DEF LoopInv, Typed, Ticks, Shaped
<1>3. tick'.pc = "releasing" /\ tick'.turn = NoTurn
  BY <1>1, Constants DEF Ticks
<1>4. PICK m : m = [mem EXCEPT !.covering = {}]
  OBVIOUS
<1>5. /\ m \in Mems /\ m.stash = mem.stash /\ m.latch = mem.latch /\ m.stopped = mem.stopped
      /\ m.unhanded = {}
  BY <1>2, <1>4 DEF Mems
<1>6. /\ mem'.latch = mem.latch /\ mem'.stopped = mem.stopped /\ mem'.unhanded = {}
      /\ Stashed(mem'.stash) \subseteq Stashed(mem.stash)
  <2>1. CASE started
    <3>1. PICK s, C : C = tick.turn.covered /\ s = ClearDeferred(mem.stash, C)
      OBVIOUS
    <3>2. mem' = [m EXCEPT !.stash = s]
      BY <1>4, <2>1, <3>1 DEF TurnEnds
    <3>3. GoodStash(s) /\ Stashed(s) \subseteq Stashed(mem.stash)
      BY <1>2, <3>1, ClearKeeps
    <3> QED
      BY <1>5, <3>2, <3>3 DEF Mems
  <2>2. PICK fl : fl = FlushOnStop(m)
    OBVIOUS
  <2>3. CASE mem' = fl.mem
    <3>1. \E s : /\ GoodStash(s) /\ fl.mem = [m EXCEPT !.unhanded = {}, !.stash = s]
                 /\ Stashed(s) = {i \in Stashed(m.stash) : Conv(i) \in m.covering}
      <4>1. GoodStash(m.stash)
        BY <1>2, <1>5
      <4> QED
        BY <1>5, <2>2, <4>1, FlushIs
    <3> QED
      BY <1>5, <2>3, <3>1 DEF Mems
  <2>4. CASE mem' = m
    BY <1>5, <2>4
  <2> QED
    BY <1>4, <2>1, <2>2, <2>3, <2>4 DEF TurnEnds
<1>7. InHand' \subseteq InHand
  BY <1>3, <1>6, Constants DEF InHand
<1>8. /\ fate'.told = fate.told /\ fate'.resets = fate.resets
      /\ fate'.peerTurns = fate.peerTurns \/
           (fate'.peerTurns = Started(fate, tick.turn).peerTurns /\ InHand' \cap tick.turn.msgs = {})
  <2>1. CASE started
    <3>1. fate' = Started(fate, tick.turn)
      BY <2>1 DEF TurnEnds
    <3>2. /\ \A i \in Ids : fate'.started[i] = fate.started[i] + (IF i \in tick.turn.msgs THEN 1 ELSE 0)
          /\ fate'.told = fate.told /\ fate'.resets = fate.resets
      BY <1>2, <3>1, StartedIs
    <3>3. tick.turn.msgs \subseteq Ids
      BY <1>2 DEF Turns
    <3>4. InHand' \cap tick.turn.msgs = {}
      BY <1>2, <3>2, <3>3, RanIsGone
    <3> QED
      BY <3>1, <3>2, <3>4
  <2>2. CASE ~started
    <3>1. PICK l, d : l = [fate EXCEPT !.lost = fate.lost \cup tick.plan.floored]
                   /\ d = FlushOnStop(m).dead
      OBVIOUS
    <3>2. fate' = l \/ fate' = [l EXCEPT !.dead = l.dead \cup d]
      BY <1>4, <2>2, <3>1 DEF TurnEnds
    <3>3. l.told = fate.told /\ l.resets = fate.resets /\ l.peerTurns = fate.peerTurns /\ l \in Fates
      BY <1>2, <3>1 DEF Fates, Plans
    <3>4. /\ [l EXCEPT !.dead = l.dead \cup d].told = l.told
          /\ [l EXCEPT !.dead = l.dead \cup d].resets = l.resets
          /\ [l EXCEPT !.dead = l.dead \cup d].peerTurns = l.peerTurns
      BY <3>3 DEF Fates
    <3> QED
      BY <3>2, <3>3, <3>4
  <2> QED
    BY <2>1, <2>2
<1> QED
  BY <1>1, <1>3, <1>6, <1>7, <1>8 DEF Ordinary

LEMMA LateTurnIsOrdinary ==
  ASSUME NEW started \in BOOLEAN, LoopInv, LoopInv', LateTurnEnds(started)
  PROVE  Ordinary
<1>1. tick.pc = "lateTurn" /\ tick \in Ticks /\ fate \in Fates
  BY DEF LateTurnEnds, LoopInv, Typed
<1>2. CASE started
  BY <1>1, <1>2, EndIsOrdinary DEF LateTurnEnds
<1>3. CASE ~started
  <2>1. /\ tick' = [tick EXCEPT !.pc = "retry", !.turn = NoTurn] /\ mem' = mem
        /\ fate' = [fate EXCEPT !.dead = fate.dead \cup tick.turn.msgs]
    BY <1>3 DEF LateTurnEnds
  <2>2. tick'.pc = "retry" /\ tick'.turn = NoTurn
    BY <1>1, <2>1 DEF Ticks
  <2>3. fate'.told = fate.told /\ fate'.resets = fate.resets /\ fate'.peerTurns = fate.peerTurns
    BY <1>1, <2>1 DEF Fates
  <2>4. InHand' \subseteq InHand
    BY <2>1, <2>2, Constants DEF InHand
  <2> QED
    BY <1>1, <2>1, <2>2, <2>3, <2>4 DEF Ordinary
<1> QED
  BY <1>2, <1>3

LEMMA RetryIsOrdinary ==
  ASSUME NEW c \in Convs, LoopInv, LoopInv', RetryAcquireFails(c) \/ RetryRefused(c) \/ RetryGranted(c)
  PROVE  Ordinary
<1>1. tick.pc = "retry" /\ c \in tick.todo
  BY DEF RetryAcquireFails, RetryRefused, RetryGranted, NextRetry
<1>2. tick \in Ticks /\ mem \in Mems /\ GoodStash(mem.stash) /\ mem.unhanded = {} /\ tick.turn = NoTurn
  BY <1>1 DEF LoopInv, Typed, Shaped
<1>3. CASE mem' = mem /\ fate' = fate /\ tick' = [tick EXCEPT !.todo = @ \ {c}]
  <2>1. tick'.pc = "retry" /\ tick'.turn = tick.turn
    BY <1>1, <1>2, <1>3 DEF Ticks
  <2>2. InHand' = InHand
    BY <1>3, <2>1 DEF InHand
  <2> QED
    BY <1>1, <1>3, <2>1, <2>2 DEF Ordinary
<1>4. CASE TickEnds(mem, fate)
  BY <1>1, <1>4, EndIsOrdinary
<1>5. CASE RetryGranted(c) /\ ~mem.stopped
  <2>1. PICK s, g, st, T, k : /\ s = mem.stash /\ g = mem.gen /\ st = StashOf(s, c)
                              /\ T = HeldTurn(st, {}, g) /\ k = ClearDeferred(s, {c})
    OBVIOUS
  <2>2. /\ tick' = [tick EXCEPT !.pc = "retryTurn", !.todo = {c}, !.turn = T]
        /\ mem' = [mem EXCEPT !.stash = k] /\ fate' = fate
    BY <1>5, <2>1 DEF RetryGranted
  <2>3. GoodStash(s) /\ g \in Nat /\ c \in StashConvs(s)
    BY <1>1, <1>2, <1>5, <2>1, AutoReplyAssumption DEF LoopInv, Shaped, Mems
  <2>4. GoodEntry(st) /\ HeldMsgs(st) = {i \in Stashed(s) : Conv(i) = c}
    BY ONLY <2>1, <2>3, StashOfIs
  <2>5. T.msgs = HeldMsgs(st)
    BY ONLY <2>1, <2>3, <2>4, HeldTurnIs
  <2>6. Stashed(k) \subseteq Stashed(s)
    BY <2>1, <2>3, ClearKeeps
  <2>7. /\ tick'.pc = "retryTurn" /\ tick'.turn = T /\ mem'.stash = k /\ mem'.unhanded = {}
        /\ mem'.latch = mem.latch /\ mem'.stopped = mem.stopped
    BY <1>2, <2>2 DEF Ticks, Mems
  <2>8. InHand' \subseteq InHand
    BY <2>1, <2>4, <2>5, <2>6, <2>7 DEF InHand
  <2> QED
    BY <1>1, <2>2, <2>7, <2>8 DEF Ordinary
<1>6. RetryAcquireFails(c) => mem' = mem /\ fate' = fate /\ tick' = [tick EXCEPT !.todo = @ \ {c}]
  BY DEF RetryAcquireFails
<1>7. RetryRefused(c) => \/ TickEnds(mem, fate)
                         \/ mem' = mem /\ fate' = fate /\ tick' = [tick EXCEPT !.todo = @ \ {c}]
  BY DEF RetryRefused
<1>8. RetryGranted(c) /\ mem.stopped => TickEnds(mem, fate)
  BY DEF RetryGranted
<1> QED
  BY <1>3, <1>4, <1>5, <1>6, <1>7, <1>8

LEMMA ReleasedIsOrdinary == LoopInv /\ FloorsReleased /\ LoopInv' => Ordinary
<1> SUFFICES ASSUME LoopInv, FloorsReleased, LoopInv' PROVE Ordinary
  OBVIOUS
<1>1. tick.pc = "releasing"
  BY DEF FloorsReleased
<1>2. CASE mem.stopped
  BY <1>1, <1>2, EndIsOrdinary DEF FloorsReleased
<1>3. CASE ~mem.stopped
  <2>1. ServiceDeferred(IdleTick, mem, fate)
    BY <1>3 DEF FloorsReleased
  <2>2. mem \in Mems /\ GoodStash(mem.stash) /\ fate \in Fates /\ mem.unhanded = {}
    BY <1>1 DEF LoopInv, Typed, Shaped
  <2>3. Stashed(mem.stash) \subseteq InHand
    BY DEF InHand
  <2> QED
    BY <1>1, <2>1, <2>2, <2>3, Constants, ServiceIsOrdinary
<1> QED
  BY <1>2, <1>3

LEMMA StopIsOrdinary == LoopInv /\ Stop => Ordinary
<1> SUFFICES ASSUME LoopInv, Stop PROVE Ordinary
  OBVIOUS
<1>1. PICK m, fl : m = mem /\ fl = FlushOnStop(m)
  OBVIOUS
<1>2. m \in Mems /\ GoodStash(m.stash) /\ fate \in Fates
  BY <1>1 DEF LoopInv, Typed
<1>3. PICK s : /\ fl.mem = [m EXCEPT !.unhanded = {}, !.stash = s]
               /\ Stashed(s) = {i \in Stashed(m.stash) : Conv(i) \in m.covering}
  BY ONLY <1>1, <1>2, FlushIs
<1>4. /\ tick' = tick /\ mem' = [fl.mem EXCEPT !.stopped = TRUE]
      /\ fate' = [fate EXCEPT !.dead = fate.dead \cup fl.dead]
  BY <1>1 DEF Stop
<1>5. mem'.latch = mem.latch /\ mem'.stopped /\ mem'.unhanded = {} /\ mem'.stash = s
  BY <1>1, <1>2, <1>3, <1>4 DEF Mems
<1>6. fate'.told = fate.told /\ fate'.resets = fate.resets /\ fate'.peerTurns = fate.peerTurns
  BY <1>2, <1>4 DEF Fates
<1>7. InHand' \subseteq InHand
  BY <1>1, <1>3, <1>4, <1>5 DEF InHand
<1> QED
  BY <1>4, <1>5, <1>6, <1>7 DEF Ordinary

LEMMA TimeIsOrdinary == LoopInv /\ (TimePasses \/ WindowsEnd) => Ordinary
<1> SUFFICES ASSUME LoopInv, TimePasses \/ WindowsEnd PROVE Ordinary
  OBVIOUS
<1>1. tick' = tick /\ fate' = fate /\ mem \in Mems /\ GoodStash(mem.stash)
  BY DEF TimePasses, WindowsEnd, LoopInv, Typed
<1>2. CASE TimePasses
  <2>1. PICK s, t : s = mem.stash /\ t = [k \in DOMAIN s |-> Aged(s[k])]
    OBVIOUS
  <2>2. Stashed(t) = Stashed(s)
    BY <1>1, <2>1, AgedKeeps
  <2>3. mem' = [mem EXCEPT !.stash = t]
    BY <1>2, <2>1 DEF TimePasses
  <2>4. mem'.stash = t /\ mem'.latch = mem.latch /\ mem'.stopped = mem.stopped /\ mem'.unhanded = mem.unhanded
    BY <1>1, <2>3 DEF Mems
  <2>5. InHand' = InHand
    BY <1>1, <2>1, <2>2, <2>4 DEF InHand
  <2> QED
    BY <1>1, <2>4, <2>5 DEF Ordinary
<1>3. CASE WindowsEnd
  <2>1. PICK l : l = [mem.latch EXCEPT !.recent = FreshLatch.recent, !.refreshes = FreshLatch.refreshes]
    OBVIOUS
  <2>2. mem.latch \in Latches
    BY <1>1 DEF Mems
  <2>3. l.used = mem.latch.used /\ l.escalated = mem.latch.escalated
    BY <2>1, <2>2 DEF Latches
  <2>4. mem' = [mem EXCEPT !.latch = l]
    BY <1>1, <1>3, <2>1, <2>2 DEF WindowsEnd, Mems, Latches
  <2>5. mem'.stash = mem.stash /\ mem'.latch = l /\ mem'.stopped = mem.stopped /\ mem'.unhanded = mem.unhanded
    BY <1>1, <2>4 DEF Mems
  <2>6. InHand' = InHand
    BY <1>1, <2>5 DEF InHand
  <2> QED
    BY <1>1, <2>3, <2>5, <2>6 DEF Ordinary
<1> QED
  BY <1>2, <1>3

LEMMA PollIsOrdinary == LoopInv /\ Poll => Ordinary
<1> SUFFICES ASSUME LoopInv, Poll PROVE Ordinary
  OBVIOUS
<1>1. tick.pc = "idle" /\ mem' = mem /\ fate' = fate
  BY DEF Poll
<1>2. \E S, s : tick' = [IdleTick EXCEPT !.pc = "polled", !.settings = s, !.batch = S]
  BY DEF Poll
<1>3. tick'.pc = "polled" /\ tick'.turn = NoTurn
  BY <1>2, Constants DEF Ticks
<1>4. InHand' \subseteq InHand
  BY <1>1, <1>3, Constants DEF InHand
<1> QED
  BY <1>1, <1>3, <1>4 DEF Ordinary

\* What a batch does to the latch: the conversations X are reset, which makes sp
\* of it, and g is what the gate l then does to the messages K: those that pass
\* are counted, and the conversations it is closed for are marked.
BatchDid(X, sp, l, K, g) ==
  /\ Uncapped(tick.settings) \subseteq X
  /\ sp \in Latches /\ sp.escalated = mem.latch.escalated \ X
  /\ \A c \in Convs : sp.used[c] = IF c \in X THEN 0 ELSE mem.latch.used[c]
  /\ l \in Latches /\ l.used = sp.used /\ l.escalated = sp.escalated
  /\ K \in SUBSET Ids /\ g = ApplyPeerLatch(l, tick.settings, K)
  /\ mem'.latch = [g.latch EXCEPT !.escalated = g.latch.escalated \cup g.latched]
  /\ mem'.stopped = mem.stopped /\ mem'.stash = mem.stash
  /\ mem'.unhanded = IF tick'.pc = "acking" THEN g.kept ELSE {}
  /\ tick'.kept = g.kept /\ tick'.latched = g.latched /\ tick'.turn = NoTurn
  /\ tick'.notices = g.latched \ g.latch.escalated
  /\ tick'.pc = IF tick'.notices = {} THEN "acking" ELSE "notice"
  /\ fate'.told = CountResets(fate, mem.latch, sp).told
  /\ fate'.resets = CountResets(fate, mem.latch, sp).resets
  /\ fate'.peerTurns = fate.peerTurns

LEMMA BatchDoes ==
  ASSUME LoopInv, ProcessBatch, ~mem.stopped
  PROVE  \E X, sp, l, K, g : BatchDid(X, sp, l, K, g)
<1>1. tick.pc = "polled"
  BY DEF ProcessBatch
<1>2. /\ tick \in Ticks /\ mem \in Mems /\ fate \in Fates /\ mem.unhanded = {} /\ tick.turn = NoTurn
      /\ mem.latch \in Latches
  BY <1>1 DEF LoopInv, Typed, Shaped, Mems
<1>0. PICK gen \in Gens : AdmitBatch(gen)
  BY DEF ProcessBatch
<1> DEFINE s == tick.settings
<1> DEFINE real == {i \in tick.batch : RealInbound(i, s, gen)}
<1> DEFINE declined == {i \in tick.batch : Messages[i].trigger /\ ~Autowakes(i, s, gen)}
<1> DEFINE O == ConvsOf({i \in real : FromOperator(i)})
<1> DEFINE spoken == ResetPeerLatch(RefreshBudgetForProgressSignals(
                       ReconcilePeerLatches(mem.latch, s), tick.batch, gen), O)
<1> DEFINE rated == ApplyPeerRateGate(spoken, real)
<1> DEFINE gated == ApplyPeerLatch(rated.latch, s, rated.kept)
<1> DEFINE notices == ToEscalate(gated.latch, gated.latched)
<1> DEFINE latch == [gated.latch EXCEPT !.escalated = @ \cup gated.latched]
<1> DEFINE M == [mem EXCEPT !.gen = gen, !.latch = latch]
<1> DEFINE f == [CountResets(fate, mem.latch, spoken) EXCEPT !.declined = @ \cup declined]
<1> DEFINE t == [tick EXCEPT !.real = real, !.kept = gated.kept,
                             !.latched = gated.latched, !.notices = notices]
<1>3. IF notices = {} THEN HandOver(t, M, f)
      ELSE tick' = [t EXCEPT !.pc = "notice"] /\ mem' = M /\ fate' = f
  BY <1>0, Zenon DEF AdmitBatch
<1>4. real \in SUBSET Ids /\ tick.batch \in SUBSET Ids
  BY <1>2 DEF Ticks
<1> HIDE DEF s, real, declined, O
<1>5. PICK X : /\ Uncapped(s) \subseteq X
               /\ spoken \in Latches /\ spoken.escalated = mem.latch.escalated \ X
               /\ \A c \in Convs : spoken.used[c] = IF c \in X THEN 0 ELSE mem.latch.used[c]
  <2>1. PICK l0, batch, r : l0 = mem.latch /\ batch = tick.batch /\ r = spoken
    OBVIOUS
  <2>2. /\ l0 \in Latches /\ batch \in SUBSET Ids
        /\ r = ResetPeerLatch(RefreshBudgetForProgressSignals(ReconcilePeerLatches(l0, s), batch, gen), O)
    BY <1>2, <1>4, <2>1
  <2>3. Wiped(l0, s, r)
    BY ONLY <2>2, SpokenIs
  <2> HIDE DEF spoken
  <2> QED
    BY <2>1, <2>3 DEF Wiped
<1> HIDE DEF spoken
<1>6. PICK r : r = rated
  OBVIOUS
<1>7. /\ r.kept \subseteq real /\ r.latch \in Latches
      /\ r.latch.used = spoken.used /\ r.latch.escalated = spoken.escalated
  BY <1>4, <1>5, <1>6, RateGateIs, RateGateSpares
<1>8. r.kept \in SUBSET Ids
  BY <1>4, <1>7
<1>9. PICK g : g = ApplyPeerLatch(r.latch, s, r.kept)
  OBVIOUS
<1>10. g = gated
  BY <1>6, <1>9
<1>11. g.kept \subseteq Ids /\ g.latched \subseteq Convs /\ g.latch \in Latches
  <2>1. PICK l : l = r.latch
    OBVIOUS
  <2>2. l \in Latches /\ g = ApplyPeerLatch(l, s, r.kept) /\ g.kept \subseteq r.kept
    BY <1>7, <1>8, <1>9, <2>1, LatchIs
  <2> QED
    BY <1>8, <2>2, LatchIs
<1> HIDE DEF rated, gated
<1>12. /\ notices = g.latched \ g.latch.escalated
       /\ latch = [g.latch EXCEPT !.escalated = g.latch.escalated \cup g.latched]
  BY <1>10 DEF ToEscalate
<1>13. notices \subseteq Convs /\ latch \in Latches
  BY <1>11, <1>12 DEF Latches
<1> HIDE DEF notices, latch
<1>15. PICK m : m = M
  OBVIOUS
<1>16. /\ m \in Mems /\ m.latch = latch /\ m.stash = mem.stash /\ m.stopped = mem.stopped
       /\ m.unhanded = {}
  BY <1>2, <1>13, <1>15 DEF Mems
<1>17. PICK h : h = CountResets(fate, mem.latch, spoken)
  OBVIOUS
<1>18. h \in Fates /\ h.peerTurns = fate.peerTurns
  <2>1. fate \in Fates
    BY <1>2
  <2> QED
    BY ONLY <1>17, <2>1, CountResetsIs
<1>19. f = [h EXCEPT !.declined = h.declined \cup declined]
  BY <1>17
<1>20. f.told = h.told /\ f.resets = h.resets /\ f.peerTurns = fate.peerTurns
  <2> HIDE DEF f, M, t
  <2> QED
    BY <1>18, <1>19 DEF Fates
<1>21. /\ t \in Ticks /\ t.kept = g.kept /\ t.latched = g.latched /\ t.notices = notices
       /\ t.turn = NoTurn
  BY <1>2, <1>4, <1>10, <1>11, <1>13 DEF Ticks
<1>22. \A S : /\ [f EXCEPT !.suppressed = S].told = f.told
              /\ [f EXCEPT !.suppressed = S].resets = f.resets
              /\ [f EXCEPT !.suppressed = S].peerTurns = f.peerTurns
  <2>1. f = [h EXCEPT !.declined = h.declined \cup declined]
    BY <1>19
  <2> HIDE DEF f, M, t
  <2> QED
    BY <1>18, <2>1 DEF Fates
<1> HIDE DEF M, t, f
<1>23. /\ tick'.kept = g.kept /\ tick'.latched = g.latched /\ tick'.notices = notices
       /\ tick'.turn = NoTurn /\ tick'.pc = IF notices = {} THEN "acking" ELSE "notice"
       /\ mem'.latch = latch /\ mem'.stopped = mem.stopped /\ mem'.stash = mem.stash
       /\ mem'.unhanded = IF tick'.pc = "acking" THEN g.kept ELSE {}
       /\ fate'.told = f.told /\ fate'.resets = f.resets /\ fate'.peerTurns = f.peerTurns
  <2>1. CASE notices = {}
    <3>1. /\ tick' = [t EXCEPT !.pc = "acking", !.real = {}, !.settings = IdleTick.settings]
          /\ mem' = [m EXCEPT !.seen = m.seen \cup t.real, !.unhanded = t.kept]
          /\ fate' = [f EXCEPT !.suppressed = f.suppressed \cup (t.real \ t.kept)]
      BY <1>3, <1>15, <2>1 DEF HandOver
    <3>2. /\ tick'.kept = t.kept /\ tick'.latched = t.latched /\ tick'.notices = t.notices
          /\ tick'.turn = t.turn /\ tick'.pc = "acking"
      BY <1>21, <3>1 DEF Ticks
    <3>3. mem'.latch = latch /\ mem'.stopped = mem.stopped /\ mem'.stash = mem.stash /\ mem'.unhanded = t.kept
      BY <1>16, <3>1 DEF Mems
    <3>4. fate'.told = f.told /\ fate'.resets = f.resets /\ fate'.peerTurns = f.peerTurns
      BY <1>22, <3>1
    <3> QED
      BY <1>21, <2>1, <3>2, <3>3, <3>4
  <2>2. CASE notices # {}
    <3>1. tick' = [t EXCEPT !.pc = "notice"] /\ mem' = m /\ fate' = f
      BY <1>3, <1>15, <2>2
    <3>2. /\ tick'.kept = t.kept /\ tick'.latched = t.latched /\ tick'.notices = t.notices
          /\ tick'.turn = t.turn /\ tick'.pc = "notice"
      BY <1>21, <3>1 DEF Ticks
    <3> QED
      BY <1>16, <1>21, <2>2, <3>1, <3>2
  <2> QED
    BY <2>1, <2>2
<1>24. PICK l, K : l = r.latch /\ K = r.kept
  OBVIOUS
<1>25. /\ l \in Latches /\ l.used = spoken.used /\ l.escalated = spoken.escalated
       /\ K \in SUBSET Ids /\ g = ApplyPeerLatch(l, tick.settings, K)
  BY <1>7, <1>8, <1>9, <1>24 DEF s
<1>26. Uncapped(tick.settings) \subseteq X
  BY <1>5 DEF s
<1>27. /\ mem'.latch = [g.latch EXCEPT !.escalated = g.latch.escalated \cup g.latched]
       /\ tick'.notices = g.latched \ g.latch.escalated
       /\ tick'.pc = IF tick'.notices = {} THEN "acking" ELSE "notice"
       /\ fate'.told = h.told /\ fate'.resets = h.resets /\ fate'.peerTurns = fate.peerTurns
  BY <1>12, <1>20, <1>23
<1>28. PICK sp : sp = spoken
  OBVIOUS
<1>29. BatchDid(X, sp, l, K, g)
  BY <1>5, <1>17, <1>23, <1>25, <1>26, <1>27, <1>28 DEF BatchDid
<1> QED
  BY <1>29, Zenon

LEMMA BatchLatch == LoopInv /\ LatchInv /\ ProcessBatch /\ LoopInv' => LatchInv'
<1> SUFFICES ASSUME LoopInv, LatchInv, ProcessBatch, LoopInv' PROVE LatchInv'
  OBVIOUS
<1>1. tick.pc = "polled"
  BY DEF ProcessBatch
<1>2. CASE mem.stopped
  BY <1>1, <1>2, EndIsOrdinary, OrdinaryKeeps DEF ProcessBatch
<1>3. CASE ~mem.stopped
  <2>1. PICK X, sp, l, K, g : BatchDid(X, sp, l, K, g)
    BY <1>3, BatchDoes
  <2>2. /\ tick \in Ticks /\ mem.latch \in Latches /\ fate \in Fates
        /\ mem.unhanded = {} /\ tick.turn = NoTurn
    BY <1>1 DEF LoopInv, Typed, Shaped, Mems
  <2>3. PICK C : C = {c \in Convs : \/ sp.used[c] < mem.latch.used[c]
                                    \/ c \in mem.latch.escalated \ sp.escalated}
    OBVIOUS
  <2>4. /\ fate'.told = fate.told \ C
        /\ fate'.resets = [c \in Convs |-> fate.resets[c] + (IF c \in C THEN 1 ELSE 0)]
    BY <2>1, <2>2, <2>3 DEF BatchDid, CountResets, Fates
  <2>5. mem.latch.escalated = fate.told /\ fate.told \subseteq Convs
    BY <1>1, <1>3, <2>2 DEF LatchInv, Announced, Fates
  <2>6. fate'.told = sp.escalated
    <3>1. \A c \in Convs : mem.latch.used[c] \in Nat
      BY <2>2 DEF Latches
    <3>2. \A c \in fate.told : c \in C <=> c \in X
      BY <2>1, <2>3, <2>5, <3>1 DEF BatchDid
    <3> QED
      BY <2>1, <2>4, <2>5, <3>2 DEF BatchDid
  <2>7. g.latch.escalated = sp.escalated
    <3>1. PICK s : s = tick.settings
      OBVIOUS
    <3>2. l.escalated \cap Uncapped(s) = {}
      BY <2>1, <3>1 DEF BatchDid
    <3>3. l \in Latches /\ K \in SUBSET Ids /\ g = ApplyPeerLatch(l, s, K)
      BY <2>1, <3>1 DEF BatchDid
    <3>4. g.latch.escalated = l.escalated
      BY ONLY <3>2, <3>3, LatchSpares
    <3> QED
      BY <2>1, <3>4 DEF BatchDid
  <2>8. g.latch \in Latches /\ g.kept \subseteq Ids
    <3>1. PICK s : s = tick.settings
      OBVIOUS
    <3>2. l \in Latches /\ K \in SUBSET Ids /\ g = ApplyPeerLatch(l, s, K)
      BY <2>1, <3>1 DEF BatchDid
    <3> QED
      BY ONLY <3>2, LatchIs
  <2>9. /\ mem'.latch.escalated = g.latch.escalated \cup g.latched
        /\ mem'.latch.used = g.latch.used
    BY <2>1, <2>8 DEF BatchDid, Latches
  <2>10. Announced'
    BY <2>1, <2>6, <2>7, <2>9 DEF Announced, BatchDid
  <2>11. ASSUME NEW c \in Convs, NEW b \in Nat, Ceiling(c, b) PROVE Paid(c, b)'
    <3>1. PICK s \in Settings : s = tick.settings
      BY <2>2, <2>11 DEF Ticks, Chosen, Ceiling
    <3>2. EffectiveConversationBudget(s, c) \in 1..b
      BY <2>11 DEF Ceiling
    <3>3. PICK u, v, r, p, q \in Nat : /\ u = mem.latch.used[c] /\ v = sp.used[c] /\ r = fate.resets[c]
                                       /\ p = fate.peerTurns[c] /\ q = b * r
      BY <2>1, <2>2 DEF Latches, Fates, BatchDid
    <3>4. PICK A, P : A = Claimed(c) /\ P = {i \in g.kept : Conv(i) = c /\ ~FromOperator(i)}
      OBVIOUS
    <3>5. u <= b /\ p + Cardinality(A) <= q + u
      BY <2>11, <3>3, <3>4 DEF LatchInv, Paid
    <3>6. v \in {0, u} /\ v <= b
      BY <2>1, <3>3, <3>5 DEF BatchDid
    <3>7. g.latch.used[c] = v + Cardinality(P) /\ g.latch.used[c] <= b
      <4>1. /\ l \in Latches /\ K \in SUBSET Ids /\ g = ApplyPeerLatch(l, s, K)
            /\ l.used[c] = v /\ l.used[c] <= b
        BY <2>1, <3>1, <3>3, <3>6 DEF BatchDid
      <4>2. g.latch.used[c] = l.used[c] + Cardinality(P) /\ g.latch.used[c] <= b
        BY ONLY <3>2, <3>4, <4>1, c \in Convs, b \in Nat, LatchCounts
      <4> QED
        BY <4>1, <4>2
    <3>8. Claimed(c)' = A \cup P
      <4>1. InHand = Stashed(mem.stash) /\ tick.pc # "notice"
        BY <1>1, <2>2, Constants DEF InHand
      <4>2. InHand' \cup (IF tick'.pc = "notice" THEN tick'.kept ELSE {}) = Stashed(mem.stash) \cup g.kept
        BY <2>1, Constants DEF InHand, BatchDid
      <4> QED
        BY <3>4, <4>1, <4>2 DEF Claimed
    <3>9. /\ IsFiniteSet(A) /\ Cardinality(A) \in Nat /\ IsFiniteSet(P) /\ Cardinality(P) \in Nat
      <4>1. A \in SUBSET Ids /\ P \in SUBSET Ids
        BY <1>1, <2>8, <3>4, HandIsIds DEF Claimed
      <4> QED
        BY <4>1, FiniteIds
    <3>10. Cardinality(A \cup P) <= Cardinality(A) + Cardinality(P)
      <4>1. IsFiniteSet(A \cap P) /\ Cardinality(A \cap P) \in Nat
        BY <3>9, FS_Intersection, FS_CardinalityType
      <4>2. Cardinality(A \cup P) = Cardinality(A) + Cardinality(P) - Cardinality(A \cap P)
        BY ONLY <3>9, FS_Union
      <4> QED
        BY <3>9, <4>1, <4>2
    <3>11. PICK w \in Nat : w = fate'.resets[c] /\ w = (IF c \in C THEN r + 1 ELSE r)
      BY <2>4, <3>3
    <3>12. q + u <= b * w + v
      <4>1. CASE c \in C
        <5>1. b * (r + 1) = q + b
          BY <3>3
        <5> QED
          BY <3>5, <3>11, <4>1, <5>1
      <4>2. CASE c \notin C
        <5>1. v = u
          BY <2>3, <3>3, <3>6, <4>2
        <5> QED
          BY <3>3, <3>11, <4>2, <5>1
      <4> QED
        BY <4>1, <4>2
    <3>13. /\ fate'.peerTurns[c] = p /\ mem'.latch.used[c] = v + Cardinality(P)
      BY <2>1, <2>9, <3>3, <3>7 DEF BatchDid
    <3>14. PICK z \in Nat : z = b * w
      OBVIOUS
    <3>15. p + Cardinality(Claimed(c)') <= z + (v + Cardinality(P))
      <4>1. PICK n : n = Cardinality(A \cup P)
        OBVIOUS
      <4>2. n \in Nat
        BY <3>9, <4>1, FS_Union, FS_CardinalityType
      <4>3. n <= Cardinality(A) + Cardinality(P) /\ q + u <= z + v
        BY <3>10, <3>12, <3>14, <4>1
      <4> QED
        BY <3>5, <3>8, <3>9, <4>1, <4>2, <4>3
    <3> QED
      BY <3>7, <3>11, <3>13, <3>14, <3>15 DEF Paid
  <2> QED
    BY <2>10, <2>11 DEF LatchInv, Ceiling
<1> QED
  BY <1>2, <1>3

\* A notice settles: it is told, and the last one lets the batch go on.
LEMMA NoticeLatch ==
  ASSUME NEW c \in Convs, LoopInv, LatchInv, NoticeSettles(c), LoopInv'
  PROVE  LatchInv'
<1>1. tick.pc = "notice" /\ c \in tick.notices
  BY DEF NoticeSettles
<1>2. /\ tick \in Ticks /\ mem \in Mems /\ GoodStash(mem.stash) /\ fate \in Fates
      /\ mem.unhanded = {} /\ tick.turn = NoTurn
  BY <1>1 DEF LoopInv, Typed, Shaped
<1>3. PICK f, t : /\ f = [fate EXCEPT !.told = fate.told \cup {c}]
                  /\ t = [tick EXCEPT !.notices = tick.notices \ {c}]
  OBVIOUS
<1>4. /\ f \in Fates /\ f.told = fate.told \cup {c} /\ f.resets = fate.resets
      /\ f.peerTurns = fate.peerTurns
  BY <1>2, <1>3 DEF Fates
<1>5. /\ t \in Ticks /\ t.notices = tick.notices \ {c} /\ t.latched = tick.latched /\ t.kept = tick.kept
      /\ t.turn = NoTurn /\ t.pc = "notice"
  BY <1>1, <1>2, <1>3 DEF Ticks
<1>6. /\ tick.notices \cap fate.told = {} /\ tick.latched \subseteq fate.told \cup tick.notices
      /\ mem.latch.escalated = fate.told \cup tick.notices
  BY <1>1 DEF LatchInv, Announced
<1>7. /\ mem'.latch = mem.latch /\ mem'.stopped = mem.stopped
      /\ fate'.told = f.told /\ fate'.resets = f.resets /\ fate'.peerTurns = f.peerTurns
      /\ InHand' \cup (IF tick'.pc = "notice" THEN tick'.kept ELSE {}) \subseteq InHand \cup tick.kept
      /\ \/ mem.stopped /\ tick'.pc = "idle"
         \/ ~mem.stopped /\ t.notices = {} /\ tick'.pc = "acking" /\ tick'.latched = tick.latched
         \/ ~mem.stopped /\ tick' = t
  <2>1. CASE mem.stopped
    <3>1. TickEnds(mem, f)
      BY <1>3, <2>1 DEF NoticeSettles
    <3>2. /\ tick' = IdleTick /\ mem'.unhanded = {} /\ mem'.stopped = mem.stopped /\ mem'.latch = mem.latch
          /\ Stashed(mem'.stash) \subseteq Stashed(mem.stash)
          /\ fate' = [f EXCEPT !.dead = f.dead \cup (Stashed(mem.stash) \ Stashed(mem'.stash))]
      BY <1>2, <1>4, <3>1, EndsIs
    <3>3. fate'.told = f.told /\ fate'.resets = f.resets /\ fate'.peerTurns = f.peerTurns
      BY <1>4, <3>2 DEF Fates
    <3>4. tick'.pc = "idle" /\ InHand' \subseteq InHand
      BY <3>2, Constants DEF InHand
    <3> QED
      BY <2>1, <3>2, <3>3, <3>4
  <2>2. CASE ~mem.stopped /\ t.notices = {}
    <3>1. /\ tick' = [t EXCEPT !.pc = "acking", !.real = {}, !.settings = IdleTick.settings]
          /\ mem' = [mem EXCEPT !.seen = mem.seen \cup t.real, !.unhanded = t.kept]
          /\ fate' = [f EXCEPT !.suppressed = f.suppressed \cup (t.real \ t.kept)]
      BY <1>3, <2>2 DEF NoticeSettles, HandOver
    <3>2. tick'.pc = "acking" /\ tick'.latched = tick.latched /\ tick'.turn = NoTurn
      BY <1>5, <3>1 DEF Ticks
    <3>3. /\ mem'.latch = mem.latch /\ mem'.stopped = mem.stopped /\ mem'.stash = mem.stash
          /\ mem'.unhanded = tick.kept
      BY <1>2, <1>5, <3>1 DEF Mems
    <3>4. fate'.told = f.told /\ fate'.resets = f.resets /\ fate'.peerTurns = f.peerTurns
      BY <1>4, <3>1 DEF Fates
    <3>5. InHand' \subseteq InHand \cup tick.kept
      BY <3>2, <3>3, Constants DEF InHand
    <3> QED
      BY <2>2, <3>2, <3>3, <3>4, <3>5
  <2>3. CASE ~mem.stopped /\ t.notices # {}
    <3>1. tick' = t /\ mem' = mem /\ fate' = f
      BY <1>3, <2>3 DEF NoticeSettles
    <3>2. InHand' = InHand
      BY <1>2, <1>5, <3>1 DEF InHand
    <3> QED
      BY <1>5, <2>3, <3>1, <3>2
  <2> QED
    BY <2>1, <2>2, <2>3
<1>8. Announced'
  <2>1. CASE mem.stopped /\ tick'.pc = "idle"
    BY <1>7, <2>1 DEF Announced
  <2>2. CASE ~mem.stopped /\ t.notices = {} /\ tick'.pc = "acking" /\ tick'.latched = tick.latched
    <3>1. tick.notices \subseteq {c}
      BY <1>5, <2>2
    <3>2. fate'.told = fate.told \cup tick.notices
      BY <1>1, <1>4, <1>7, <3>1
    <3> QED
      BY <1>6, <1>7, <2>2, <3>2 DEF Announced
  <2>3. CASE ~mem.stopped /\ tick' = t
    <3>1. tick'.pc = "notice" /\ tick'.notices = tick.notices \ {c} /\ tick'.latched = tick.latched
      BY <1>5, <2>3
    <3> QED
      BY <1>1, <1>4, <1>6, <1>7, <3>1 DEF Announced
  <2> QED
    BY <1>7, <2>1, <2>2, <2>3
<1>9. ASSUME NEW d \in Convs, NEW b \in Nat, Ceiling(d, b) PROVE Paid(d, b)'
  <2>1. Paid(d, b)
    BY <1>9 DEF LatchInv
  <2>2. Claimed(d)' \subseteq Claimed(d)
    BY <1>1, <1>7 DEF Claimed
  <2> QED
    BY <1>4, <1>7, <2>1, <2>2, PaidStays
<1> QED
  BY <1>8, <1>9 DEF LatchInv, Ceiling

LEMMA LatchInit == Init => LatchInv
<1> SUFFICES ASSUME Init PROVE LatchInv
  OBVIOUS
<1>1. /\ tick = IdleTick /\ fate = NoFate
      /\ mem.latch = FreshLatch /\ mem.stash = <<>> /\ mem.unhanded = {}
  BY DEF Init
<1>2. mem.latch.escalated = {} /\ fate.told = {} /\ tick.pc = "idle"
  BY <1>1, Constants DEF FreshLatch, NoFate
<1>3. Announced
  BY <1>2 DEF Announced
<1>4. InHand = {}
  <2>1. Stashed(mem.stash) = {}
    BY <1>1 DEF Stashed
  <2> QED
    BY <1>1, <2>1, Constants DEF InHand
<1>5. ASSUME NEW c \in Convs, NEW b \in Nat PROVE Paid(c, b)
  <2>1. Claimed(c) = {}
    BY <1>2, <1>4 DEF Claimed
  <2>2. mem.latch.used[c] = 0 /\ fate.peerTurns[c] = 0 /\ fate.resets[c] = 0
    BY <1>1 DEF FreshLatch, NoFate
  <2>3. Cardinality(Claimed(c)) = 0
    BY <2>1, FS_EmptySet
  <2> QED
    BY <2>2, <2>3 DEF Paid
<1> QED
  BY <1>3, <1>5 DEF LatchInv

LEMMA LatchStep == LoopInv /\ LatchInv /\ [Next]_vars /\ LoopInv' => LatchInv'
<1> SUFFICES ASSUME LoopInv, LatchInv, [Next]_vars, LoopInv' PROVE LatchInv'
  OBVIOUS
<1>1. CASE Ordinary
  BY <1>1, OrdinaryKeeps
<1>2. CASE ProcessBatch \/ \E c \in Convs : NoticeSettles(c)
  BY <1>2, BatchLatch, NoticeLatch
<1>3. Poll \/ Stop \/ TimePasses \/ WindowsEnd => Ordinary
  BY PollIsOrdinary, StopIsOrdinary, TimeIsOrdinary
<1>4. ASSUME NEW c, OtherAcquires(c) \/ OtherReleases(c) \/ LeaseExpires(c) PROVE Ordinary
  <2>1. tick' = tick /\ mem' = mem /\ fate' = fate
    BY <1>4 DEF OtherAcquires, OtherReleases, LeaseExpires
  <2> QED
    BY <2>1 DEF Ordinary, InHand
<1>5. UNCHANGED vars => Ordinary
  BY DEF vars, Ordinary, InHand
<1>6. (\E ok \in BOOLEAN : AckSettles(ok)) \/ (\E c \in Convs : AcquireFloor(c)) \/ PlanSettles => Ordinary
  BY AckIsOrdinary, AcquireIsOrdinary, PlanIsOrdinary
<1>7. ASSUME NEW started \in BOOLEAN, TurnEnds(started) \/ LateTurnEnds(started) \/ RetryTurnEnds(started)
      PROVE  Ordinary
  <2>1. CASE RetryTurnEnds(started)
    BY <2>1, EndIsOrdinary DEF RetryTurnEnds
  <2> QED
    BY <1>7, <2>1, TurnIsOrdinary, LateTurnIsOrdinary
<1>8. FloorsReleased \/ RetriesDone => Ordinary
  BY ReleasedIsOrdinary, EndIsOrdinary DEF RetriesDone
<1>9. (\E c \in Convs : RetryAcquireFails(c) \/ RetryRefused(c) \/ RetryGranted(c)) => Ordinary
  BY RetryIsOrdinary
<1>10. LoopStep => Ordinary \/ ProcessBatch \/ \E c \in Convs : NoticeSettles(c)
  BY <1>6, <1>7, <1>8, <1>9 DEF LoopStep
<1> QED
  BY <1>1, <1>2, <1>3, <1>4, <1>5, <1>10 DEF Next

\* A conversation that is always capped gets at most its largest budget of peer
\* turns between two resets of its latch, and each closing of the latch is
\* announced once (applyPeerLatch, resetPeerLatch, markConversationEscalated).
THEOREM PeersStayLatched == Spec => []PeerTurnsLatched
<1>1. LoopInv /\ LatchInv => PeerTurnsLatched
  <2> SUFFICES ASSUME LoopInv, LatchInv PROVE PeerTurnsLatched
    OBVIOUS
  <2>1. EscalatedOncePerLatch
    BY DEF LatchInv, Announced, EscalatedOncePerLatch
  <2>2. ASSUME NEW c \in Convs, \A s \in Settings : IsCapped(EffectiveConversationBudget(s, c)),
               NEW s \in Settings,
               \A r \in Settings : EffectiveConversationBudget(r, c) <= EffectiveConversationBudget(s, c)
        PROVE  fate.peerTurns[c] <= EffectiveConversationBudget(s, c) * (fate.resets[c] + 1)
    <3>1. \A r \in Settings : EffectiveConversationBudget(r, c) \in Nat
      BY AutoReplyAssumption DEF EffectiveConversationBudget, WithLocalRoomCap, EffectivePeerBudget
    <3>2. PICK b \in Nat : b = EffectiveConversationBudget(s, c)
      BY <3>1
    <3>3. Ceiling(c, b)
      BY <2>2, <3>1, <3>2 DEF Ceiling, IsCapped
    <3>4. /\ mem.latch.used[c] <= b
          /\ fate.peerTurns[c] + Cardinality(Claimed(c)) <= b * fate.resets[c] + mem.latch.used[c]
      BY <3>3 DEF LatchInv, Paid
    <3>5. Cardinality(Claimed(c)) \in Nat
      <4>1. Claimed(c) \in SUBSET Ids
        BY HandIsIds DEF Claimed, LoopInv, Typed, Ticks
      <4> QED
        BY <4>1, FiniteIds
    <3>6. PICK p, u, r, q \in Nat : /\ p = fate.peerTurns[c] /\ u = mem.latch.used[c]
                                    /\ r = fate.resets[c] /\ q = b * r
      BY DEF LoopInv, Typed, Fates, Mems, Latches
    <3>7. b * (r + 1) = q + b
      BY <3>6
    <3>8. p <= q + b
      BY <3>4, <3>5, <3>6
    <3> QED
      BY <3>2, <3>6, <3>7, <3>8
  <2>3. PeerTurnsBounded
    BY <2>2 DEF PeerTurnsBounded
  <2> QED
    BY <2>1, <2>3 DEF PeerTurnsLatched
<1>2. LoopInv /\ LatchInv /\ [Next]_vars /\ LoopInv' => LatchInv'
  BY LatchStep
<1> QED
  BY <1>1, <1>2, LatchInit, LoopInductive, PTL DEF Spec
=============================================================================
