--------------------------- MODULE ClientsProofs ----------------------------
(***************************************************************************)
(* The clients of the relay for any number of messages, threads, copies,   *)
(* failures and restarts. Each client has an inductive invariant of its    *)
(* own; a step of the composition is a step of that client or nothing to   *)
(* it.                                                                     *)
(***************************************************************************)
EXTENDS Clients, FiniteSetTheorems, SequenceTheorems, TLAPS

LEMMA Frames ==
  ASSUME [ClientsNext]_clientVars
  PROVE  /\ MailNext \/ UNCHANGED mailVars
         /\ OAuthNext \/ UNCHANGED oauthVars
         /\ WakeNext \/ UNCHANGED wakeVars
         /\ RuntimeNext \/ UNCHANGED runtimeVars
         /\ CacheNext \/ UNCHANGED cacheVars
         /\ HermesNext \/ UNCHANGED hermesVars
         /\ ConnectNext \/ UNCHANGED connectVars
         /\ ThreadNext \/ UNCHANGED threadVars
  BY DEF ClientsNext, ClientStep, OthersStand, clientVars

-----------------------------------------------------------------------------
(* The wake webhook *)

\* The flag is up exactly while a timer is set.
WakeInv ==
  /\ timer \in BOOLEAN /\ timerArmed \in BOOLEAN
  /\ timerArmed = timer
  /\ WakeArmed

\* A wake collected while a flush is still trying, or after the breaker dropped
\* one, always has a timer of its own.
THEOREM WakesAreArmed == ClientsSpec => []WakeArmed
<1>1. ClientsInit => WakeInv
  BY DEF ClientsInit, WakeInit, WakeInv, WakeArmed
<1>2. ASSUME WakeInv, WakeNext PROVE WakeInv'
  BY <1>2 DEF WakeInv, WakeArmed, WakeNext, notify, timerFires, attemptSucceeds, attemptFails,
              breakerCloses, TimerFreed
<1>3. WakeInv /\ UNCHANGED wakeVars => WakeInv'
  BY DEF WakeInv, WakeArmed, wakeVars
<1>4. WakeInv => WakeArmed
  BY DEF WakeInv
<1> QED
  BY <1>1, <1>2, <1>3, <1>4, Frames, PTL DEF ClientsSpec

-----------------------------------------------------------------------------
(* Hermes connects *)

Under == {"inside", "asked", "enrolled"}

\* Whoever is past the second look holds the lock, and nothing is connected then;
\* the token is spent without credentials only while its answer is on the way or
\* after a mishap.
LinkInv ==
  /\ at \in [Callers -> {"out", "waiting", "connected", "done"} \cup Under]
  /\ lock \in Callers \cup {"free"}
  /\ linked \in {0, 1} /\ beating = linked /\ looping \in 0..linked
  /\ agents \in {0, 1} /\ mishaps \in Nat
  /\ token = "fresh" => agents = 0
  /\ \A c \in Callers :
       /\ at[c] \in Under <=> lock = c
       /\ at[c] \in Under => linked = 0
       /\ at[c] = "connected" => linked = 1
  /\ token = "spent" /\ ~creds => mishaps > 0 \/ \E c \in Callers : at[c] = "asked"
  /\ refused => mishaps > 0

LEMMA LinkStep == LinkInv /\ ConnectNext => LinkInv'
<1> SUFFICES ASSUME LinkInv, ConnectNext PROVE LinkInv'
  OBVIOUS
<1> USE StartupAssumption DEF LinkInv, Under, Moves
<1>1. CASE restarts
  BY <1>1 DEF restarts
<1>2. ASSUME NEW c \in Callers, calls(c) PROVE LinkInv'
  BY <1>2 DEF calls
<1>3. ASSUME NEW c \in Callers, acquires(c) PROVE LinkInv'
  BY <1>3 DEF acquires, AlreadyLinked
<1>4. ASSUME NEW c \in Callers, enrollsOrLoads(c) PROVE LinkInv'
  <2>1. \A d \in Callers : d # c => at[d] \notin Under
    BY <1>4 DEF enrollsOrLoads
  <2> QED
    BY <1>4, <2>1 DEF enrollsOrLoads
<1>5. ASSUME NEW c \in Callers, enrolled(c) PROVE LinkInv'
  BY <1>5 DEF enrolled
<1>6. ASSUME NEW c \in Callers, enrollmentLost(c) PROVE LinkInv'
  BY <1>6 DEF enrollmentLost
<1>7. ASSUME NEW c \in Callers, connects(c) PROVE LinkInv'
  BY <1>7 DEF connects
<1>8. ASSUME NEW c \in Callers, proceeds(c) PROVE LinkInv'
  BY <1>8 DEF proceeds
<1>9. ASSUME NEW c \in Callers, returns(c) PROVE LinkInv'
  BY <1>9 DEF returns
<1> QED
  BY <1>1, <1>2, <1>3, <1>4, <1>5, <1>6, <1>7, <1>8, <1>9 DEF ConnectNext

\* However many threads call and wherever the process is cut off: one connection, one
\* heartbeat, at most one loop, and no thread spends the token against another.
THEOREM HermesConnectsOnce == ClientsSpec => []HermesSingletons
<1>1. ClientsInit => LinkInv
  BY StartupAssumption DEF ClientsInit, ConnectInit, LinkInv, Under
<1>2. LinkInv /\ UNCHANGED connectVars => LinkInv'
  BY DEF LinkInv, connectVars
<1>3. LinkInv => HermesSingletons
  BY DEF LinkInv, HermesSingletons
<1> QED
  BY <1>1, <1>2, <1>3, LinkStep, Frames, PTL DEF ClientsSpec

-----------------------------------------------------------------------------
(* The MCP mailbox *)

\* The place of i among the members of K.
Place(K, i) == Cardinality({j \in K : j <= i})

\* The members of a set of numbers have the places 1, 2, ..., each once.
LEMMA Places ==
  ASSUME NEW n \in Nat, NEW K \in SUBSET (1..n)
  PROVE  /\ IsFiniteSet(K) /\ Cardinality(K) \in Nat
         /\ \A i \in K : Place(K, i) \in 1..Cardinality(K)
         /\ \A i, j \in K : Place(K, i) = Place(K, j) => i = j
         /\ \A k \in 1..Cardinality(K) : \E i \in K : Place(K, i) = k
<1>1. IsFiniteSet(K) /\ Cardinality(K) \in Nat
  <2>1. PICK I : I = 1..n
    OBVIOUS
  <2>2. IsFiniteSet(I)
    BY <2>1, FS_Interval
  <2>3. IsFiniteSet(K)
    BY <2>1, <2>2, FS_Subset
  <2> QED
    BY <2>3, FS_CardinalityType
<1>2. ASSUME NEW i \in K
      PROVE  IsFiniteSet({j \in K : j <= i}) /\ Place(K, i) \in 1..Cardinality(K)
  <2>1. PICK L \in SUBSET K : L = {j \in K : j <= i}
    OBVIOUS
  <2>2. IsFiniteSet(L) /\ Cardinality(L) <= Cardinality(K) /\ Cardinality(L) \in Nat
    BY <1>1, FS_Subset, FS_CardinalityType
  <2>3. i \in L
    BY <2>1
  <2>4. Cardinality(L) # 0
    BY <2>2, <2>3, FS_EmptySet
  <2> QED
    BY <1>1, <2>1, <2>2, <2>4 DEF Place
<1>3. ASSUME NEW i \in K, NEW j \in K, i < j PROVE Place(K, i) # Place(K, j)
  <2>1. PICK A \in SUBSET K, B \in SUBSET K : A = {k \in K : k <= i} /\ B = {k \in K : k <= j}
    OBVIOUS
  <2>2. B \in SUBSET K /\ IsFiniteSet(B)
    BY <1>1, <2>1, FS_Subset
  <2>3. \A k \in K : k \in Int
    OBVIOUS
  <2>4. \A k \in A : k \in B
    BY <1>3, <2>1, <2>3
  <2>5. j \in B /\ j \notin A
    BY <1>3, <2>1, <2>3
  <2>6. Cardinality(A) # Cardinality(B)
    BY <2>2, <2>4, <2>5, FS_Subset
  <2> QED
    BY <2>1, <2>6 DEF Place
<1>4. \A i, j \in K : Place(K, i) = Place(K, j) => i = j
  BY <1>3
<1>5. PICK T : T = 1..Cardinality(K)
  OBVIOUS
<1>6. IsFiniteSet(T) /\ Cardinality(T) = Cardinality(K)
  BY <1>1, <1>5, FS_Interval
<1>7. PICK p \in [K -> T] : \A i \in K : p[i] = Place(K, i)
  <2>1. [i \in K |-> Place(K, i)] \in [K -> T]
    BY <1>2, <1>5
  <2> QED
    BY <2>1
<1>8. p \in Injection(K, T)
  BY <1>4, <1>7 DEF Injection, IsInjective
<1>9. p \in Surjection(K, T)
  BY <1>6, <1>8, FS_Injection
<1>10. \A k \in T : \E i \in K : p[i] = k
  BY <1>9 DEF Surjection
<1> QED
  BY <1>1, <1>2, <1>4, <1>5, <1>7, <1>10

Entry == [id : Mail \cup {Out}, read : BOOLEAN]
Cursor == [n : Nat, batch : SUBSET Mail]
Stores == [ring : Seq(Entry), seen : SUBSET Mail, nonces : SUBSET Mail, cursors : Seq(Cursor)]

\* The messages that wait unread in the ring.
Waiting(s) == {s.ring[i].id : i \in Unread(s)}

\* A batch enters the ring as a sequence of unread entries, one for each message.
LEMMA EntriesOf ==
  ASSUME NEW ids \in SUBSET Mail
  PROVE  /\ Entries(ids) \in Seq(Entry)
         /\ \A m \in ids : \E n \in DOMAIN Entries(ids) :
              Entries(ids)[n].id = m /\ ~Entries(ids)[n].read
         /\ \A n \in DOMAIN Entries(ids) : Entries(ids)[n].id \in ids
<1>1. PICK S : S = {[id |-> m, read |-> FALSE] : m \in ids}
  OBVIOUS
<1>2. IsFiniteSet(ids)
  BY McpMailboxAssumption, FS_Subset
<1>3. PICK f \in [ids -> S] : \A m \in ids : f[m] = [id |-> m, read |-> FALSE]
  <2>1. [m \in ids |-> [id |-> m, read |-> FALSE]] \in [ids -> S]
    BY <1>1
  <2> QED
    BY <2>1
<1>4. f \in Surjection(ids, S)
  BY <1>1, <1>3 DEF Surjection
<1>5. IsFiniteSet(S)
  BY <1>2, <1>4, FS_Surjection
<1>6. PICK c \in Nat : c = Cardinality(S)
  BY <1>5, FS_CardinalityType
<1>7. \E g \in [1..c -> S] : IsInjective(g)
  BY <1>5, <1>6, FS_CardinalityType DEF ExistsBijection, Bijection, Injection
<1>8. PICK q \in [1..c -> S] : q = Entries(ids) /\ IsInjective(q)
  BY <1>1, <1>6, <1>7 DEF Entries, SetToSeq
<1>9. IsFiniteSet(1..c) /\ Cardinality(1..c) = Cardinality(S)
  BY <1>6, FS_Interval
<1>10. q \in Surjection(1..c, S)
  BY <1>5, <1>8, <1>9, FS_Injection DEF Injection
<1>11. \A e \in S : \E n \in 1..c : q[n] = e
  BY <1>10 DEF Surjection
<1>12. \A e \in S : e \in Entry /\ e.id \in ids /\ ~e.read
  <2> SUFFICES ASSUME NEW m \in ids
               PROVE  LET e == [id |-> m, read |-> FALSE] IN e \in Entry /\ e.id \in ids /\ ~e.read
    BY <1>1
  <2> QED
    BY DEF Entry
<1>13. q \in Seq(Entry)
  BY <1>8, <1>12
<1>14. \A m \in ids : [id |-> m, read |-> FALSE] \in S
  BY <1>1
<1>15. ASSUME NEW m \in ids PROVE \E n \in 1..c : q[n].id = m /\ ~q[n].read
  <2>1. PICK n \in 1..c : q[n] = [id |-> m, read |-> FALSE]
    BY <1>11, <1>14
  <2> QED
    BY <2>1
<1> QED
  BY <1>8, <1>12, <1>13, <1>15

\* Trimming the ring takes no unread entry: whatever waited in the ring or came with
\* the new entries waits in the trimmed one, which is a ring again.
LEMMA AddKeeps ==
  ASSUME NEW s \in Stores, NEW entries \in Seq(Entry)
  PROVE  /\ add(s, entries) \in Stores
         /\ add(s, entries).seen = s.seen \cup ({entries[n].id : n \in DOMAIN entries} \ {Out})
         /\ Waiting(s) \subseteq Waiting(add(s, entries))
         /\ \A n \in DOMAIN entries : isUnread(entries[n]) => entries[n].id \in Waiting(add(s, entries))
<1>1. s.ring \in Seq(Entry)
  BY DEF Stores
<1>2. PICK R : R = s.ring \o entries
  OBVIOUS
<1>3. R \in Seq(Entry)
  BY <1>1, <1>2
<1>4. PICK z \in Nat : z = Len(R) /\ DOMAIN R = 1..z
  BY <1>3
<1>5. PICK K : K = Kept(R, Len(entries))
  OBVIOUS
<1>6. K \in SUBSET (1..z)
  BY <1>4, <1>5 DEF Kept
<1>7. \A i \in 1..z : isUnread(R[i]) => i \in K
  BY <1>4, <1>5 DEF Kept
<1>8. /\ Cardinality(K) \in Nat
      /\ \A i \in K : Place(K, i) \in 1..Cardinality(K)
      /\ \A i, j \in K : Place(K, i) = Place(K, j) => i = j
      /\ \A k \in 1..Cardinality(K) : \E i \in K : Place(K, i) = k
  BY <1>6, Places
<1>9. PICK c \in Nat : c = Cardinality(K)
  BY <1>8
<1>10. PICK N : N = [k \in 1..c |-> R[CHOOSE i \in K : Place(K, i) = k]]
  OBVIOUS
<1>11. \A i \in K : Place(K, i) \in 1..c /\ N[Place(K, i)] = R[i]
  BY <1>8, <1>9, <1>10
<1>12. N \in Seq(Entry) /\ DOMAIN N = 1..c
  <2>1. \A k \in 1..c : (CHOOSE i \in K : Place(K, i) = k) \in K
    BY <1>8, <1>9
  <2>2. \A i \in K : R[i] \in Entry
    BY <1>3, <1>4, <1>6
  <2>3. \A k \in 1..c : N[k] \in Entry
    BY <1>10, <2>1, <2>2
  <2>4. N = [k \in 1..c |-> N[k]]
    BY <1>10
  <2> QED
    BY <2>3, <2>4
<1>13. PICK D : D = {entries[n].id : n \in DOMAIN entries} \ {Out}
  OBVIOUS
<1>14. D \subseteq Mail
  <2>1. \A n \in DOMAIN entries : entries[n] \in Entry
    OBVIOUS
  <2> QED
    BY <1>13, <2>1 DEF Entry
<1>15. add(s, entries) = [s EXCEPT !.ring = N, !.seen = @ \cup D]
  BY <1>2, <1>5, <1>9, <1>10, <1>13 DEF add, Place
<1>16. /\ add(s, entries) \in Stores
       /\ add(s, entries).ring = N
       /\ add(s, entries).seen = s.seen \cup D
  BY <1>12, <1>14, <1>15 DEF Stores
<1>17. \A i \in 1..z : isUnread(R[i]) => R[i].id \in Waiting(add(s, entries))
  <2> SUFFICES ASSUME NEW i \in 1..z, isUnread(R[i]) PROVE R[i].id \in Waiting(add(s, entries))
    OBVIOUS
  <2>1. Place(K, i) \in DOMAIN N /\ N[Place(K, i)] = R[i]
    BY <1>7, <1>11, <1>12
  <2> QED
    BY <1>16, <2>1 DEF Waiting, Unread
<1>18. \A i \in DOMAIN s.ring : i \in 1..z /\ R[i] = s.ring[i]
  BY <1>1, <1>2, <1>4
<1>19. \A n \in DOMAIN entries : Len(s.ring) + n \in 1..z /\ R[Len(s.ring) + n] = entries[n]
  BY <1>1, <1>2, <1>4
<1>20. Waiting(s) \subseteq Waiting(add(s, entries))
  BY <1>17, <1>18 DEF Waiting, Unread
<1>21. \A n \in DOMAIN entries : isUnread(entries[n]) => entries[n].id \in Waiting(add(s, entries))
  BY <1>17, <1>19
<1> QED
  BY <1>13, <1>16, <1>20, <1>21

\* A confirmed batch is all that stops waiting.
LEMMA ConfirmKeeps ==
  ASSUME NEW s \in Stores, NEW c
  PROVE  /\ confirm(s, c) \in Stores
         /\ confirm(s, c).seen = s.seen
         /\ confirm(s, c).cursors = s.cursors
         /\ Waiting(s) \ BatchOf(s, c) \subseteq Waiting(confirm(s, c))
<1>1. s.ring \in Seq(Entry) /\ DOMAIN s.ring = 1..Len(s.ring) /\ Len(s.ring) \in Nat
  BY DEF Stores
<1>2. PICK R : R = [i \in DOMAIN s.ring |-> IF s.ring[i].id \in BatchOf(s, c)
                                            THEN [s.ring[i] EXCEPT !.read = TRUE] ELSE s.ring[i]]
  OBVIOUS
<1>3. ASSUME NEW i \in DOMAIN s.ring PROVE R[i] \in Entry
  <2>1. s.ring[i] \in Entry
    BY <1>1
  <2>2. [s.ring[i] EXCEPT !.read = TRUE] \in Entry
    BY <2>1 DEF Entry
  <2> QED
    BY <1>2, <2>1, <2>2
<1>4. R \in Seq(Entry)
  <2>1. PICK z \in Nat : z = Len(s.ring) /\ DOMAIN s.ring = 1..z
    BY <1>1
  <2>2. R = [i \in 1..z |-> R[i]]
    BY <1>2, <2>1
  <2>3. \A i \in 1..z : R[i] \in Entry
    BY <1>3, <2>1
  <2> QED
    BY <2>2, <2>3
<1>5. confirm(s, c) = [s EXCEPT !.ring = R]
  BY <1>2 DEF confirm
<1>6. confirm(s, c) \in Stores /\ confirm(s, c).ring = R /\ confirm(s, c).seen = s.seen
      /\ confirm(s, c).cursors = s.cursors
  BY <1>4, <1>5 DEF Stores
<1>7. \A i \in DOMAIN s.ring : s.ring[i].id \notin BatchOf(s, c) => R[i] = s.ring[i]
  BY <1>2
<1>8. DOMAIN R = DOMAIN s.ring
  BY <1>2
<1>9. Waiting(s) \ BatchOf(s, c) \subseteq Waiting(confirm(s, c))
  BY <1>6, <1>7, <1>8 DEF Waiting, Unread
<1> QED
  BY <1>6, <1>9

\* A read confirms the batch before and hands out the next under a cursor of its own.
LEMMA TakeKeeps ==
  ASSUME store \in Stores, reads \in Nat, NEW limit, NEW after
  PROVE  /\ takeUnread(limit, after) \in Stores
         /\ takeUnread(limit, after).seen = store.seen
         /\ Waiting(store) \ BatchOf(store, after) \subseteq Waiting(takeUnread(limit, after))
<1>1. PICK done \in Stores : done = confirm(store, after)
  BY ConfirmKeeps
<1>2. PICK T : T = {i \in Unread(done) : Cardinality({j \in Unread(done) : j <= i}) <= limit}
  OBVIOUS
<1>3. PICK batch : batch = {done.ring[i].id : i \in T}
  OBVIOUS
<1>4. \A i \in T : done.ring[i].id \in Mail
  <2>1. done.ring \in Seq(Entry)
    BY DEF Stores
  <2>2. \A i \in DOMAIN done.ring : done.ring[i] \in Entry
    BY <2>1
  <2> QED
    BY <1>2, <2>2 DEF Unread, isUnread, Entry
<1>5. PICK e \in Cursor : e = [n |-> reads + 1, batch |-> batch]
  <2>1. batch \in SUBSET Mail
    BY <1>3, <1>4
  <2>2. [n |-> reads + 1, batch |-> batch] \in Cursor
    BY <2>1 DEF Cursor
  <2> QED
    BY <2>2
<1>6. PICK more \in Seq(Cursor) : more = Append(done.cursors, e)
  <2>1. done.cursors \in Seq(Cursor)
    BY DEF Stores
  <2>2. Append(done.cursors, e) \in Seq(Cursor)
    BY <2>1
  <2> QED
    BY <2>2
<1>7. Newest(more) \in Seq(Cursor)
  <2>1. PICK k \in {1, 2} : Newest(more) = SubSeq(more, k, Len(more))
    BY DEF Newest
  <2> QED
    BY <2>1
<1>8. takeUnread(limit, after) = [done EXCEPT !.cursors = Newest(more)]
  BY <1>1, <1>2, <1>3, <1>5, <1>6 DEF takeUnread
<1>9. /\ takeUnread(limit, after) \in Stores
      /\ takeUnread(limit, after).seen = done.seen
      /\ takeUnread(limit, after).ring = done.ring
  BY <1>7, <1>8 DEF Stores
<1>10. Waiting(takeUnread(limit, after)) = Waiting(done)
  BY <1>9 DEF Waiting, Unread
<1> QED
  BY <1>1, <1>9, <1>10, ConfirmKeeps

\* A remembered message waits or was confirmed, in memory and on disk alike; and what
\* the relay has forgotten, or is being asked to forget, is a dead letter or is
\* remembered in both.
MailInv ==
  /\ store \in Stores /\ file \in Stores
  /\ reads \in Nat
  /\ acked \in SUBSET Mail /\ polled \in SUBSET Mail
  /\ store.seen \subseteq got \cup Waiting(store)
  /\ file.seen \subseteq got \cup Waiting(file)
  /\ acked \cup polled \subseteq dead \cup (store.seen \cap file.seen)

LEMMA MailStep == MailInv /\ MailNext => MailInv'
<1> SUFFICES ASSUME MailInv, MailNext PROVE MailInv'
  OBVIOUS
<1> USE DEF MailInv
<1>1. ASSUME NEW B \in SUBSET Mail, NEW writes \in Works, pollIngests(B, writes) PROVE MailInv'
  <2>1. PICK fresh \in SUBSET Mail : fresh = Accepted(B)
    BY DEF Accepted
  <2>2. PICK burnt \in Stores : burnt = [store EXCEPT !.nonces = @ \cup fresh]
    BY DEF Stores
  <2>3. burnt.seen = store.seen /\ Waiting(burnt) = Waiting(store)
    BY <2>2 DEF Stores, Waiting, Unread
  <2>4. PICK entries \in Seq(Entry) : entries = Entries(fresh)
    BY EntriesOf
  <2>5. PICK trimmed \in Stores : trimmed = add(burnt, entries)
    BY AddKeeps
  <2>6. {entries[n].id : n \in DOMAIN entries} \ {Out} = fresh
    BY <2>4, EntriesOf, McpMailboxAssumption
  <2>7. \A m \in fresh : m \in Waiting(trimmed)
    BY <2>4, <2>5, EntriesOf, AddKeeps, McpMailboxAssumption DEF isUnread
  <2>8. trimmed.seen = store.seen \cup fresh /\ Waiting(store) \subseteq Waiting(trimmed)
    BY <2>3, <2>5, <2>6, AddKeeps
  <2>9. trimmed.seen \subseteq got \cup Waiting(trimmed)
    BY <2>7, <2>8
  <2>10. /\ store' \in {burnt, trimmed} /\ file' \in {file, trimmed}
         /\ dead \subseteq dead'
         /\ acked' = acked /\ got' = got /\ reads' = reads
         /\ polled' \in {{}, B}
         /\ polled' = B /\ B # {} => /\ store' = trimmed /\ file' = trimmed
                                     /\ B \subseteq dead' \cup store.seen \cup fresh
    BY <1>1, <2>1, <2>2, <2>4, <2>5 DEF pollIngests, Rejected
  <2>11. Waiting(store)' = Waiting(store') /\ Waiting(file)' = Waiting(file')
    BY DEF Waiting, Unread
  <2>12. store.seen \subseteq store'.seen /\ file.seen \cap store.seen \subseteq file'.seen
    BY <2>3, <2>8, <2>10
  <2> QED
    BY <2>3, <2>8, <2>9, <2>10, <2>11, <2>12
<1>2. ASSUME NEW answered \in BOOLEAN, pollAcks(answered) PROVE MailInv'
  BY <1>2 DEF pollAcks, Waiting, Unread
<1>3. ASSUME NEW limit \in ReadLimits, NEW after \in known \cup {0},
             NEW written \in BOOLEAN, NEW answered \in BOOLEAN,
             readInbox(limit, after, written, answered)
      PROVE  MailInv'
  <2>1. PICK next \in Stores : next = takeUnread(limit, after)
    BY TakeKeeps
  <2>2. next.seen = store.seen /\ Waiting(store) \ BatchOf(store, after) \subseteq Waiting(next)
    BY <2>1, TakeKeeps
  <2>3. /\ store' = next /\ file' \in {file, next} /\ reads' = reads + 1
        /\ got' = got \cup BatchOf(store, after)
        /\ acked' = acked /\ dead' = dead /\ polled' = polled
    BY <1>3, <2>1 DEF readInbox
  <2>4. Waiting(store)' = Waiting(store') /\ Waiting(file)' = Waiting(file')
    BY DEF Waiting, Unread
  <2> QED
    BY <2>2, <2>3, <2>4
<1>4. ASSUME NEW written \in BOOLEAN, send(written) PROVE MailInv'
  <2>1. PICK entries \in Seq(Entry) : entries = <<[id |-> Out, read |-> TRUE]>>
    <3>1. PICK e \in Entry : e = [id |-> Out, read |-> TRUE]
      BY DEF Entry
    <3>2. <<e>> \in Seq(Entry)
      OBVIOUS
    <3> QED
      BY <3>1, <3>2
  <2>2. PICK next \in Stores : next = add(store, entries)
    BY AddKeeps
  <2>3. {entries[n].id : n \in DOMAIN entries} \ {Out} = {}
    BY <2>1
  <2>4. next.seen = store.seen /\ Waiting(store) \subseteq Waiting(next)
    <3>1. next.seen = store.seen \cup ({entries[n].id : n \in DOMAIN entries} \ {Out})
      BY <2>2, AddKeeps
    <3>2. Waiting(store) \subseteq Waiting(next)
      BY <2>2, AddKeeps
    <3> QED
      BY <2>3, <3>1, <3>2
  <2>5. /\ store' = next /\ file' \in {file, next}
        /\ UNCHANGED <<acked, dead, polled, reads, known, got>>
    BY <1>4, <2>1, <2>2 DEF send
  <2>6. Waiting(store)' = Waiting(store') /\ Waiting(file)' = Waiting(file')
    BY DEF Waiting, Unread
  <2> QED
    BY <2>4, <2>5, <2>6
<1>5. CASE restart
  BY <1>5 DEF restart, Waiting, Unread
<1> QED
  BY <1>1, <1>2, <1>3, <1>4, <1>5 DEF MailNext

\* Nothing acknowledged is lost, for any batches, read limits and ring size, whichever
\* writes fail, acknowledgements get lost or restarts come between.
THEOREM AcknowledgedIsKept == ClientsSpec => []MailKept
<1>1. ClientsInit => MailInv
  <2>1. EmptyStore \in Stores
    BY DEF EmptyStore, Stores
  <2> QED
    BY <2>1 DEF ClientsInit, MailInit, MailInv, EmptyStore
<1>2. MailInv /\ UNCHANGED mailVars => MailInv'
  BY DEF MailInv, mailVars, Waiting, Unread
<1>3. MailInv => MailKept
  BY DEF MailInv, MailKept, Waiting
<1> QED
  BY <1>1, <1>2, <1>3, MailStep, Frames, PTL DEF ClientsSpec

-----------------------------------------------------------------------------
(* The console's thread view *)

\* The messages that have a bubble.
Bubbled == {b.id : b \in bubbles}

Bubble(b) == DOMAIN b = {"id", "conv", "bound"}
Request(r) == {"kind", "conv", "at", "asOf", "older", "newest"} \subseteq DOMAIN r

\* A send whose answer has not come.
Posting(r) == r.kind \in {"post", "stored"}

\* The relay has stored message k in conversation c.
StoredAs(k, c) == \E e \in DOMAIN eventLog : eventLog[e].msg = k /\ eventLog[e].conv = c

\* The requests of sends: each has a number that is its own, and one that is
\* under way is in the log from the moment it is stored and not before.
PostsInv ==
  /\ \A r \in requests : Request(r) /\ (Posting(r) => r.at \in 1..sends)
  /\ \A r, q \in requests : Posting(r) /\ Posting(q) /\ r.at = q.at => r = q
  /\ \A r \in requests : r.kind = "post" => \A c : ~StoredAs(r.at, c)
  /\ \A r \in requests : r.kind = "stored" => StoredAs(r.at, r.conv)

\* A message is stored once.
LogInv ==
  /\ eventLog \in Seq([conv : Threads, msg : Nat])
  /\ \A e \in DOMAIN eventLog : eventLog[e].msg \in 0..sends
  /\ \A e, f \in DOMAIN eventLog : eventLog[e].msg = eventLog[f].msg /\ eventLog[e].msg # 0 => e = f

\* Where a bubble is while its send is under way, and once it is answered.
Homed(b) ==
  IF b.bound THEN StoredAs(b.id, b.conv)
  ELSE \E r \in requests :
         Posting(r) /\ r.at = b.id /\ (b.conv = Pending \/ (b.conv = r.conv /\ r.conv # NoThread))

BubbleInv ==
  /\ \A b \in bubbles : Bubble(b) /\ b.id \in 1..sends /\ b.bound \in BOOLEAN
  /\ \A b \in bubbles : Homed(b)

ThreadInv ==
  /\ sends \in Nat
  /\ 1..sends \subseteq Bubbled \cup settled
  /\ PostsInv /\ LogInv /\ BubbleInv

LEMMA TimelineKeeps ==
  ASSUME NEW r, NEW page, TimelineLands(r, page)
  PROVE  /\ bubbles' \subseteq bubbles
         /\ (Bubbled \cup settled) \ {0} \subseteq Bubbled' \cup settled'
  BY DEF TimelineLands, Reconciled, Bubbled

LEMMA EndedKeeps ==
  ASSUME NEW expired \in BOOLEAN, NEW bs \in SUBSET bubbles, NEW ld, Ended(expired, bs, ld)
  PROVE  bubbles' \subseteq bubbles /\ Bubbled \cup settled \subseteq Bubbled' \cup settled'
  BY DEF Ended, Bubbled

\* What leaves the posts under way and the log alone.
LEMMA HomesStand ==
  ASSUME ThreadInv, sends' = sends, eventLog' = eventLog, bubbles' \subseteq bubbles,
         \A r \in requests' : Request(r) /\ (Posting(r) => r \in requests),
         \A r \in requests \ requests' : Posting(r) => \A b \in bubbles' : b.id # r.at,
         (Bubbled \cup settled) \ {0} \subseteq Bubbled' \cup settled'
  PROVE  ThreadInv'
<1>1. \A k, c : StoredAs(k, c)' <=> StoredAs(k, c)
  BY DEF StoredAs
<1>2. PostsInv'
  BY <1>1 DEF ThreadInv, PostsInv, Posting
<1>3. LogInv'
  BY DEF ThreadInv, LogInv
<1>4. ASSUME NEW b \in bubbles' PROVE Homed(b)'
  <2>1. b \in bubbles /\ Homed(b)
    BY DEF ThreadInv, BubbleInv
  <2>2. CASE b.bound
    BY <1>1, <2>1, <2>2 DEF Homed
  <2>3. CASE ~b.bound
    <3>1. PICK r \in requests :
            Posting(r) /\ r.at = b.id /\ (b.conv = Pending \/ (b.conv = r.conv /\ r.conv # NoThread))
      BY <2>1, <2>3 DEF Homed
    <3>2. r \in requests'
      BY <3>1
    <3> QED
      BY <2>3, <3>1, <3>2 DEF Homed
  <2> QED
    BY <2>2, <2>3
<1>5. BubbleInv'
  BY <1>4 DEF ThreadInv, BubbleInv
<1> QED
  BY <1>2, <1>3, <1>5 DEF ThreadInv

LEMMA CallIs ==
  \A kind, c, n : /\ Request(Call(kind, c, n)) /\ Call(kind, c, n).kind = kind
                  /\ Call(kind, c, n).at = n /\ Call(kind, c, n).conv = c
  BY DEF Call, Request

LEMMA SendStep ==
  ASSUME ThreadInv, NEW room, handleSend(room) PROVE ThreadInv'
<1>1. PICK b : b = [id |-> sends + 1, conv |-> BubbleOf(Outgoing(room)), bound |-> FALSE]
  OBVIOUS
<1>2. PICK q : q = Call("post", Outgoing(room), sends + 1)
  OBVIOUS
<1>3. /\ bubbles' = bubbles \cup {b} /\ sends' = sends + 1 /\ settled' = settled /\ eventLog' = eventLog
      /\ requests' = requests \cup {q} /\ sends \in Nat
  BY <1>1, <1>2 DEF handleSend, Asks, viewVars, ThreadInv
<1>4. b.id = sends + 1 /\ Bubble(b) /\ b.bound = FALSE /\ b.conv = BubbleOf(Outgoing(room))
  BY <1>1 DEF Bubble
<1>5. Request(q) /\ Posting(q) /\ q.kind = "post" /\ q.at = sends + 1 /\ q.conv = Outgoing(room)
  BY <1>2, CallIs DEF Posting
<1>6. \A k, c : StoredAs(k, c)' <=> StoredAs(k, c)
  BY <1>3 DEF StoredAs
<1>7. \A c : ~StoredAs(sends + 1, c)
  BY <1>3 DEF StoredAs, ThreadInv, LogInv
<1>8. PostsInv'
  <2>1. PostsInv
    BY DEF ThreadInv
  <2>2. \A r \in requests : Posting(r) => r.at # q.at /\ r.at \in 1..sends'
    BY <1>3, <1>5, <2>1 DEF PostsInv
  <2>3. q.at \in 1..sends'
    BY <1>3, <1>5
  <2> QED
    BY <1>3, <1>5, <1>6, <1>7, <2>1, <2>2, <2>3 DEF PostsInv
<1>9. LogInv'
  BY <1>3 DEF ThreadInv, LogInv
<1>10. ASSUME NEW d \in bubbles PROVE Homed(d)'
  <2>1. Homed(d)
    BY DEF ThreadInv, BubbleInv
  <2> QED
    BY <1>3, <1>6, <2>1 DEF Homed
<1>11. Homed(b)'
  <2>1. q \in requests' /\ (b.conv = Pending \/ (b.conv = q.conv /\ q.conv # NoThread))
    BY <1>3, <1>4, <1>5 DEF BubbleOf
  <2> QED
    BY <1>4, <1>5, <2>1 DEF Homed
<1>12. BubbleInv'
  <2>1. b.id \in 1..sends' /\ \A d \in bubbles : d.id \in 1..sends'
    BY <1>3, <1>4 DEF ThreadInv, BubbleInv
  <2> QED
    BY <1>3, <1>4, <1>10, <1>11, <2>1 DEF ThreadInv, BubbleInv
<1>13. 1..sends' \subseteq Bubbled' \cup settled'
  <2>1. Bubbled \subseteq Bubbled' /\ sends + 1 \in Bubbled'
    BY <1>3, <1>4 DEF Bubbled
  <2> QED
    BY <1>3, <2>1 DEF ThreadInv
<1> QED
  BY <1>3, <1>8, <1>9, <1>12, <1>13 DEF ThreadInv

\* The log grows by one event, of a message it did not have.
LEMMA LogGrows ==
  ASSUME ThreadInv, NEW c \in Threads, NEW k \in Nat, k \in 0..sends, k = 0 \/ \A d : ~StoredAs(k, d),
         Recorded(c, k), sends' = sends
  PROVE  /\ LogInv'
         /\ \A m, d : StoredAs(m, d)' <=> StoredAs(m, d) \/ (m = k /\ d = c)
<1>1. eventLog \in Seq([conv : Threads, msg : Nat])
  BY DEF ThreadInv, LogInv
<1>2. PICK x \in [conv : Threads, msg : Nat] : x = [conv |-> c, msg |-> k]
  OBVIOUS
<1>3. x.conv = c /\ x.msg = k
  BY <1>2
<1>4. eventLog' = Append(eventLog, x)
  BY <1>2 DEF Recorded
<1>5. /\ eventLog' \in Seq([conv : Threads, msg : Nat])
      /\ DOMAIN eventLog' = DOMAIN eventLog \cup {Len(eventLog) + 1}
      /\ Len(eventLog) + 1 \notin DOMAIN eventLog
      /\ eventLog'[Len(eventLog) + 1] = x
      /\ \A e \in DOMAIN eventLog : eventLog'[e] = eventLog[e]
  BY <1>1, <1>2, <1>4
<1>6. k # 0 => \A e \in DOMAIN eventLog : eventLog[e].msg # k
  BY DEF StoredAs
<1>7. LogInv'
  BY <1>3, <1>5, <1>6 DEF ThreadInv, LogInv
<1>8. \A m, d : StoredAs(m, d)' <=> StoredAs(m, d) \/ (m = k /\ d = c)
  BY <1>3, <1>5 DEF StoredAs
<1> QED
  BY <1>7, <1>8

LEMMA OthersWrite ==
  ASSUME ThreadInv, NEW c \in Threads, othersWrite(c) PROVE ThreadInv'
<1>1. Recorded(c, 0) /\ UNCHANGED <<bubbles, requests, sends, settled>> /\ sends \in Nat
  BY DEF othersWrite, ThreadInv
<1>2. LogInv' /\ \A m, d : StoredAs(m, d)' <=> StoredAs(m, d) \/ (m = 0 /\ d = c)
  BY <1>1, LogGrows
<1>3. PostsInv'
  <2>1. PostsInv /\ \A r \in requests : Posting(r) => r.at # 0
    BY <1>1 DEF ThreadInv, PostsInv
  <2> QED
    BY <1>1, <1>2, <2>1 DEF PostsInv, Posting
<1>4. BubbleInv'
  <2>1. \A b \in bubbles : Homed(b) => Homed(b)'
    BY <1>1, <1>2 DEF Homed
  <2> QED
    BY <1>1, <2>1 DEF ThreadInv, BubbleInv
<1>5. Bubbled' = Bubbled
  BY <1>1 DEF Bubbled
<1> QED
  BY <1>1, <1>2, <1>3, <1>4, <1>5 DEF ThreadInv

LEMMA StoreStep ==
  ASSUME ThreadInv, NEW r \in requests, NEW c \in Threads, relayStores(r, c) PROVE ThreadInv'
<1>1. PICK q : q = [r EXCEPT !.kind = "stored", !.conv = c]
  OBVIOUS
<1>2. /\ r.kind = "post" /\ r.conv \in {c, NoThread} /\ Recorded(c, r.at)
      /\ requests' = (requests \ {r}) \cup {q}
      /\ UNCHANGED <<bubbles, sends, settled>> /\ sends \in Nat
  BY <1>1 DEF relayStores, ThreadInv
<1>3. Request(r) /\ Posting(r) /\ r.at \in 1..sends /\ \A d : ~StoredAs(r.at, d)
  BY <1>2 DEF ThreadInv, PostsInv, Posting
<1>4. Request(q) /\ q.kind = "stored" /\ q.conv = c /\ q.at = r.at /\ Posting(q)
  BY <1>1, <1>3 DEF Request, Posting
<1>5. LogInv' /\ \A m, d : StoredAs(m, d)' <=> StoredAs(m, d) \/ (m = r.at /\ d = c)
  BY <1>2, <1>3, LogGrows
<1>6. PostsInv'
  <2>1. PostsInv /\ \A p \in requests \ {r} : Posting(p) => p.at # r.at
    BY <1>3 DEF ThreadInv, PostsInv
  <2>2. \A p \in requests' : Request(p) /\ (Posting(p) => p.at \in 1..sends')
    BY <1>2, <1>3, <1>4, <2>1 DEF PostsInv
  <2>3. \A p, t \in requests' : Posting(p) /\ Posting(t) /\ p.at = t.at => p = t
    BY <1>2, <1>3, <1>4, <2>1 DEF PostsInv
  <2>4. \A p \in requests' : p.kind = "post" => \A d : ~StoredAs(p.at, d)'
    BY <1>2, <1>4, <1>5, <2>1 DEF PostsInv, Posting
  <2>5. \A p \in requests' : p.kind = "stored" => StoredAs(p.at, p.conv)'
    BY <1>2, <1>4, <1>5, <2>1 DEF PostsInv, Posting
  <2> QED
    BY <2>2, <2>3, <2>4, <2>5 DEF PostsInv
<1>7. ASSUME NEW b \in bubbles PROVE Homed(b)'
  <2>1. Homed(b)
    BY DEF ThreadInv, BubbleInv
  <2>2. CASE b.bound
    BY <1>5, <2>1, <2>2 DEF Homed
  <2>3. CASE ~b.bound
    <3>1. PICK p \in requests :
            Posting(p) /\ p.at = b.id /\ (b.conv = Pending \/ (b.conv = p.conv /\ p.conv # NoThread))
      BY <2>1, <2>3 DEF Homed
    <3>2. CASE p = r
      <4>1. q \in requests' /\ Posting(q) /\ q.at = b.id
        BY <1>2, <1>4, <3>1, <3>2
      <4>2. b.conv = Pending \/ (b.conv = q.conv /\ q.conv # NoThread)
        BY <1>2, <1>4, <3>1, <3>2
      <4> QED
        BY <2>3, <4>1, <4>2 DEF Homed
    <3>3. CASE p # r
      <4>1. p \in requests'
        BY <1>2, <3>3
      <4> QED
        BY <2>3, <3>1, <4>1 DEF Homed
    <3> QED
      BY <3>2, <3>3
  <2> QED
    BY <2>2, <2>3
<1>8. BubbleInv' /\ Bubbled' = Bubbled
  BY <1>2, <1>7 DEF ThreadInv, BubbleInv, Bubbled
<1> QED
  BY <1>2, <1>5, <1>6, <1>8 DEF ThreadInv

LEMMA SendAnswered ==
  ASSUME ThreadInv, NEW r \in requests, sendAnswered(r) PROVE ThreadInv'
<1>1. PICK q : q = [r EXCEPT !.kind = "echo", !.asOf = Len(eventLog)]
  OBVIOUS
<1>2. /\ r.kind = "stored" /\ requests' = (requests \ {r}) \cup {q}
      /\ UNCHANGED <<eventLog, sends, settled>>
      /\ bubbles' = {IF b.id = r.at THEN [b EXCEPT !.conv = r.conv, !.bound = TRUE] ELSE b : b \in bubbles}
  BY <1>1 DEF sendAnswered
<1>3. Request(r) /\ Posting(r) /\ StoredAs(r.at, r.conv)
  BY <1>2 DEF ThreadInv, PostsInv, Posting
<1>4. Request(q) /\ q.kind = "echo" /\ ~Posting(q)
  BY <1>1, <1>3 DEF Request, Posting
<1>5. \A k, c : StoredAs(k, c)' <=> StoredAs(k, c)
  BY <1>2 DEF StoredAs
<1>6. PostsInv' /\ LogInv'
  BY <1>2, <1>4, <1>5 DEF ThreadInv, PostsInv, LogInv
<1>7. ASSUME NEW b \in bubbles, b.id = r.at
      PROVE  LET d == [b EXCEPT !.conv = r.conv, !.bound = TRUE]
             IN  Bubble(d) /\ d.id = b.id /\ d.bound = TRUE /\ d.conv = r.conv /\ Homed(d)'
  <2>1. PICK d : d = [b EXCEPT !.conv = r.conv, !.bound = TRUE]
    OBVIOUS
  <2>2. Bubble(b)
    BY DEF ThreadInv, BubbleInv
  <2>3. Bubble(d) /\ d.id = b.id /\ d.bound = TRUE /\ d.conv = r.conv
    BY <2>1, <2>2 DEF Bubble
  <2>4. Homed(d)'
    BY <1>3, <1>5, <1>7, <2>3 DEF Homed
  <2> QED
    BY <2>1, <2>3, <2>4
<1>8. ASSUME NEW b \in bubbles, b.id # r.at PROVE Homed(b)'
  <2>1. Homed(b)
    BY DEF ThreadInv, BubbleInv
  <2>2. CASE b.bound
    BY <1>5, <2>1, <2>2 DEF Homed
  <2>3. CASE ~b.bound
    <3>1. PICK p \in requests :
            Posting(p) /\ p.at = b.id /\ (b.conv = Pending \/ (b.conv = p.conv /\ p.conv # NoThread))
      BY <2>1, <2>3 DEF Homed
    <3>2. p \in requests'
      BY <1>2, <1>8, <3>1
    <3> QED
      BY <2>3, <3>1, <3>2 DEF Homed
  <2> QED
    BY <2>2, <2>3
<1>9. ASSUME NEW d \in bubbles' PROVE Bubble(d) /\ d.id \in 1..sends' /\ d.bound \in BOOLEAN /\ Homed(d)'
  <2>1. PICK b \in bubbles : d = IF b.id = r.at THEN [b EXCEPT !.conv = r.conv, !.bound = TRUE] ELSE b
    BY <1>2
  <2>2. Bubble(b) /\ b.id \in 1..sends /\ b.bound \in BOOLEAN
    BY DEF ThreadInv, BubbleInv
  <2> QED
    BY <1>2, <1>7, <1>8, <2>1, <2>2
<1>10. Bubbled \subseteq Bubbled'
  <2> SUFFICES ASSUME NEW b \in bubbles PROVE \E d \in bubbles' : d.id = b.id
    BY DEF Bubbled
  <2>1. PICK d : d = IF b.id = r.at THEN [b EXCEPT !.conv = r.conv, !.bound = TRUE] ELSE b
    OBVIOUS
  <2>2. d \in bubbles'
    BY <1>2, <2>1
  <2>3. d.id = b.id
    BY <1>7, <2>1
  <2> QED
    BY <2>2, <2>3
<1>11. BubbleInv'
  BY <1>9 DEF BubbleInv
<1> QED
  BY <1>2, <1>6, <1>10, <1>11 DEF ThreadInv

LEMMA ThreadStep == ThreadInv /\ ThreadNext => ThreadInv'
<1> SUFFICES ASSUME ThreadInv, ThreadNext PROVE ThreadInv'
  OBVIOUS
<1>0. \A r \in requests : Request(r)
  BY DEF ThreadInv, PostsInv
<1>1. ASSUME UNCHANGED <<eventLog, bubbles, sends, settled>>,
             \A r \in requests' : Request(r) /\ (Posting(r) => r \in requests),
             \A r \in requests \ requests' : ~Posting(r)
      PROVE  ThreadInv'
  <2>1. Bubbled' = Bubbled
    BY <1>1 DEF Bubbled
  <2> QED
    BY <1>1, <2>1, HomesStand
<1>2. ASSUME NEW kind \in {"refresh", "older"}, NEW c, NEW n, Asks(Call(kind, c, n)),
             UNCHANGED <<eventLog, bubbles, sends, settled>>
      PROVE  ThreadInv'
  BY <1>0, <1>1, <1>2, CallIs DEF Asks, Posting
<1>3. ASSUME NEW c \in Threads, othersWrite(c) \/ selectConversation(c) PROVE ThreadInv'
  BY <1>2, <1>3, OthersWrite DEF selectConversation
<1>4. CASE pollTimeline \/ loadOlderTimeline \/ handleLogin
  BY <1>0, <1>1, <1>2, <1>4 DEF pollTimeline, loadOlderTimeline, handleLogin
<1>5. ASSUME NEW room, handleSend(room) PROVE ThreadInv'
  BY <1>5, SendStep
<1>6. ASSUME NEW r \in requests, NEW n, refreshLands(r, n) \/ echoLands(r, n) PROVE ThreadInv'
  <2>1. PICK page : TimelineLands(r, page)
    BY <1>6 DEF refreshLands, echoLands
  <2>2. bubbles' \subseteq bubbles /\ (Bubbled \cup settled) \ {0} \subseteq Bubbled' \cup settled'
    BY <2>1, TimelineKeeps
  <2>3. PICK q : q = [r EXCEPT !.kind = "overview", !.older = {}, !.newest = {}]
    OBVIOUS
  <2>4. Request(q) /\ ~Posting(q) /\ ~Posting(r)
    BY <1>0, <1>6, <2>3 DEF Request, Posting, refreshLands, echoLands
  <2>5. /\ sends' = sends /\ eventLog' = eventLog
        /\ requests' = requests \ {r} \/ requests' = (requests \ {r}) \cup {q}
    BY <1>6, <2>3 DEF refreshLands, echoLands
  <2> QED
    BY <1>0, <2>2, <2>4, <2>5, HomesStand
<1>7. ASSUME NEW r \in requests, NEW n, olderLands(r, n) PROVE ThreadInv'
  BY <1>0, <1>1, <1>7 DEF olderLands, Posting
<1>8. ASSUME NEW r \in requests, NEW c \in Threads, relayStores(r, c) PROVE ThreadInv'
  BY <1>8, StoreStep
<1>9. ASSUME NEW r \in requests, sendAnswered(r) PROVE ThreadInv'
  BY <1>9, SendAnswered
<1>10. ASSUME NEW r \in requests, overviewLands(r) PROVE ThreadInv'
  BY <1>0, <1>1, <1>10 DEF overviewLands, Posting
<1>11. ASSUME NEW r \in requests, NEW expired \in BOOLEAN, readFails(r, expired) \/ sendFails(r, expired)
       PROVE  ThreadInv'
  <2>1. PICK bs, ld :
          /\ bs \in SUBSET bubbles /\ Ended(expired, bs, ld)
          /\ Posting(r) => \A b \in bs : b.id # r.at
    <3>1. CASE readFails(r, expired)
      BY <3>1 DEF readFails, Posting
    <3>2. CASE sendFails(r, expired)
      BY <3>2 DEF sendFails
    <3> QED
      BY <1>11, <3>1, <3>2
  <2>2. bubbles' \subseteq bubbles /\ Bubbled \cup settled \subseteq Bubbled' \cup settled'
    BY <2>1, EndedKeeps
  <2>3. bubbles' \subseteq bs
    BY <2>1 DEF Ended
  <2>4. sends' = sends /\ eventLog' = eventLog /\ requests' = requests \ {r}
    BY <1>11 DEF readFails, sendFails
  <2> QED
    BY <1>0, <2>1, <2>2, <2>3, <2>4, HomesStand
<1> QED
  BY <1>3, <1>4, <1>5, <1>6, <1>7, <1>8, <1>9, <1>10, <1>11 DEF ThreadNext

\* A message that no page echoed has its bubble in the conversation it is in.
LEMMA ThreadSound == ThreadInv => SentShown
<1> SUFFICES ASSUME ThreadInv, NEW k \in (1..sends) \ settled
             PROVE  \E b \in bubbles :
                      /\ b.id = k
                      /\ \/ b.conv = Pending /\ Unanswered(k)
                         \/ SentTo(k, b.conv) /\ (SentTo(k, selected) => b \in PendingItems)
  BY DEF SentShown
<1>1. PICK b \in bubbles : b.id = k
  BY DEF ThreadInv, Bubbled
<1>2. Homed(b) /\ PostsInv /\ LogInv
  BY DEF ThreadInv, BubbleInv
<1>3. \A c, d : StoredAs(k, c) /\ StoredAs(k, d) => c = d
  BY <1>2 DEF StoredAs, LogInv, ThreadInv
<1>4. \A c : SentTo(k, c) <=> StoredAs(k, c) \/ \E r \in requests : r.kind = "post" /\ r.at = k /\ r.conv = c
  BY DEF SentTo, StoredAs
<1>5. \A r \in requests : r.kind = "post" /\ r.at = k => \A c : ~StoredAs(k, c)
  BY <1>2 DEF PostsInv
<1>6. \A r, q \in requests : r.kind = "post" /\ r.at = k /\ Posting(q) /\ q.at = k => q = r
  BY <1>2 DEF PostsInv, Posting
<1>7. \/ SentTo(k, b.conv) /\ \A c : SentTo(k, c) => c = b.conv
      \/ b.conv = Pending /\ Unanswered(k)
  <2>1. CASE b.bound
    BY <1>1, <1>2, <1>3, <1>4, <1>5, <2>1 DEF Homed
  <2>2. CASE ~b.bound
    <3>1. PICK r \in requests :
            Posting(r) /\ r.at = k /\ (b.conv = Pending \/ (b.conv = r.conv /\ r.conv # NoThread))
      BY <1>1, <1>2, <2>2 DEF Homed
    <3>2. CASE b.conv = Pending
      BY <3>1, <3>2 DEF Unanswered, Posting
    <3>3. CASE b.conv = r.conv /\ r.kind = "post"
      BY <1>4, <1>5, <1>6, <3>1, <3>3 DEF Posting
    <3>4. CASE b.conv = r.conv /\ r.kind = "stored"
      <4>1. StoredAs(k, r.conv)
        BY <1>2, <3>1, <3>4 DEF PostsInv
      <4> QED
        BY <1>3, <1>4, <1>5, <3>4, <4>1
    <3> QED
      BY <3>1, <3>2, <3>3, <3>4 DEF Posting
  <2> QED
    BY <2>1, <2>2
<1> QED
  BY <1>1, <1>7 DEF PendingItems

\* No message the operator sent drops out of sight of its own thread, whatever the
\* page size and however many requests answer in whatever order.
THEOREM SentStaysShown == ClientsSpec => []SentShown
<1>1. ClientsInit => ThreadInv
  <2> SUFFICES ASSUME ThreadInit PROVE ThreadInv
    BY DEF ClientsInit
  <2>1. eventLog = <<>> /\ bubbles = {} /\ requests = {} /\ sends = 0 /\ settled = {}
    BY DEF ThreadInit
  <2>2. LogInv /\ PostsInv /\ BubbleInv
    BY <2>1 DEF LogInv, PostsInv, BubbleInv
  <2> QED
    BY <2>1, <2>2 DEF ThreadInv
<1>2. ThreadInv /\ UNCHANGED threadVars => ThreadInv'
  <2> SUFFICES ASSUME ThreadInv, UNCHANGED threadVars PROVE ThreadInv'
    OBVIOUS
  <2>1. UNCHANGED <<eventLog, bubbles, requests, sends, settled>> /\ \A r \in requests : Request(r)
    BY DEF threadVars, ThreadInv, PostsInv
  <2>2. Bubbled' = Bubbled
    BY <2>1 DEF Bubbled
  <2> QED
    BY <2>1, <2>2, HomesStand
<1> QED
  BY <1>1, <1>2, ThreadSound, ThreadStep, Frames, PTL DEF ClientsSpec

-----------------------------------------------------------------------------
(* The copies of the plugin *)

Joining == {"queued", "asking", "granted"}
CopyPhases == {"off", "idle", "refused", "boot", "up"} \cup Joining

CopyType ==
  [phase : CopyPhases, epoch : Nat, by : Nat, retired : BOOLEAN, retiredAtStart : BOOLEAN,
   callers : SUBSET Nat, beats : BOOLEAN, loop : Nat, claimed : BOOLEAN, draining : Nat,
   rebinds : Seq(Nat), disposed : SUBSET Nat, failed : {"no", "unusable", "stopped", "lost", "refused"}]

\* The registry names the copy that has claimed the agent, and only that one produces.
Owned(cs, h) ==
  /\ cs \in [Copies -> CopyType] /\ h \in 0..MaxCopies
  /\ \A i \in Copies : /\ cs[i].claimed <=> h = i
                       /\ cs[i].beats \/ cs[i].loop # 0 => cs[i].claimed

\* A connected copy that was not stopped has the agent and beats.
Wanted(c) == c.phase = "up" /\ ~c.retired => c.claimed /\ c.beats

\* What a request for the agent leaves of the copy that makes it.
SameWork(c, d) ==
  /\ d.phase = c.phase /\ d.epoch = c.epoch /\ d.by = c.by
  /\ d.callers = c.callers /\ d.draining = c.draining /\ d.rebinds = c.rebinds
  /\ d.failed = c.failed /\ (c.retired => d.retired)

\* Copy g asked for the agent: another copy stands as it is or is stopped.
Asked(cs, ds, g) ==
  /\ SameWork(cs[g], ds[g])
  /\ \A i \in Copies \ {g} : ds[i] = cs[i] \/ ds[i] = Stopped(cs[i])

LEMMA StoppedType ==
  ASSUME NEW c \in CopyType
  PROVE  /\ Stopped(c) \in CopyType /\ SameWork(c, Stopped(c)) /\ Wanted(Stopped(c))
         /\ Stopped(c).retired /\ ~Stopped(c).beats /\ ~Stopped(c).claimed /\ Stopped(c).loop = 0
  BY DEF Stopped, CopyType, SameWork, Wanted

LEMMA Claims ==
  ASSUME NEW r, NEW cs, NEW h, r.copies = cs, r.holder = h, Owned(cs, h), NEW g \in Copies
  PROVE  LET claim == Claimed(r, g) IN
         /\ claim = [granted |-> claim.granted, copies |-> claim.copies, holder |-> claim.holder]
         /\ Owned(claim.copies, claim.holder)
         /\ Asked(cs, claim.copies, g)
         /\ claim.granted \in BOOLEAN
         /\ claim.granted => claim.copies[g].claimed /\ ~claim.copies[g].retired
         /\ ~claim.granted => claim.copies[g].retired
         /\ claim.copies[g].beats = cs[g].beats /\ claim.copies[g].loop = cs[g].loop
<1> DEFINE claim == Claimed(r, g)
<1> USE RuntimeAssumption
<1>1. PICK c \in CopyType : c = cs[g]
  BY DEF Owned
<1>2. claim.granted \in BOOLEAN /\ claim.granted = (~c.retired /\ (c.claimed \/ h <= g))
  BY <1>1 DEF Claimed
<1>3. claim = [granted |-> claim.granted, copies |-> claim.copies, holder |-> claim.holder]
  BY DEF Claimed
<1>4. CASE c.retired \/ c.claimed
  <2>1. claim.copies = cs /\ claim.holder = h
    BY <1>1, <1>4 DEF Claimed
  <2>2. SameWork(c, c)
    BY DEF SameWork
  <2> QED
    BY <1>1, <1>2, <1>3, <1>4, <2>1, <2>2 DEF Asked, Owned, CopyType
<1>5. CASE ~c.retired /\ ~c.claimed /\ ~(h <= g)
  <2>1. PICK d \in CopyType : d = [c EXCEPT !.retired = TRUE]
    BY DEF CopyType
  <2>2. claim.copies = [cs EXCEPT ![g] = d] /\ claim.holder = h /\ ~claim.granted
    BY <1>1, <1>2, <1>5, <2>1 DEF Claimed
  <2>3. SameWork(c, d) /\ d.retired /\ d.claimed = c.claimed /\ d.beats = c.beats /\ d.loop = c.loop
    BY <2>1 DEF SameWork, CopyType
  <2> QED
    BY <1>1, <1>2, <1>3, <2>2, <2>3 DEF Asked, Owned
<1>6. CASE ~c.retired /\ ~c.claimed /\ h <= g
  <2>1. PICK d \in CopyType : d = [c EXCEPT !.claimed = TRUE]
    BY DEF CopyType
  <2>2. SameWork(c, d) /\ d.claimed /\ d.retired = c.retired /\ d.beats = c.beats /\ d.loop = c.loop
    BY <2>1 DEF SameWork, CopyType
  <2>3. PICK ds : ds = Displace(cs, h, g)
    OBVIOUS
  <2>4. claim.copies = ds /\ claim.holder = g /\ claim.granted
    BY <1>1, <1>2, <1>6, <2>3 DEF Claimed
  <2>5. ds \in [Copies -> CopyType] /\ ds[g] = d
        /\ \A i \in Copies \ {g} : ds[i] = IF i = h THEN Stopped(cs[i]) ELSE cs[i]
    BY <1>1, <2>1, <2>3, StoppedType DEF Displace, Owned
  <2>6. h # g
    BY <1>1, <1>6 DEF Owned
  <2>7. Owned(ds, g)
    <3>1. ASSUME NEW i \in Copies
          PROVE  (ds[i].claimed <=> g = i) /\ (ds[i].beats \/ ds[i].loop # 0 => ds[i].claimed)
      <4>1. CASE i = g
        BY <1>1, <1>6, <2>2, <2>5, <4>1 DEF Owned
      <4>2. CASE i # g /\ i = h
        BY <2>5, <4>2, StoppedType DEF Owned
      <4>3. CASE i # g /\ i # h
        BY <2>5, <4>3 DEF Owned
      <4> QED
        BY <4>1, <4>2, <4>3
    <3> QED
      BY <2>5, <3>1 DEF Owned, Copies
  <2>8. Asked(cs, ds, g)
    BY <1>1, <2>2, <2>5 DEF Asked
  <2> QED
    BY <1>1, <1>2, <1>3, <1>6, <2>2, <2>4, <2>5, <2>7, <2>8
<1> QED
  BY <1>4, <1>5, <1>6

\* The heartbeat starts or the copy is one that was stopped.
LEMMA Heartbeat ==
  ASSUME NEW r, Owned(r.copies, r.holder), NEW g \in Copies
  PROVE  LET s == maybeStartHeartbeat(r, g) IN
         /\ Owned(s.copies, s.holder) /\ Asked(r.copies, s.copies, g)
         /\ Wanted(s.copies[g]) /\ s.copies[g].loop = r.copies[g].loop
<1>1. PICK cs, h : cs = r.copies /\ h = r.holder
  OBVIOUS
<1>2. cs[g] \in CopyType
  BY <1>1 DEF Owned
<1>3. CASE cs[g].beats \/ cs[g].phase # "up"
  <2>1. maybeStartHeartbeat(r, g) = r
    BY <1>1, <1>3 DEF maybeStartHeartbeat
  <2>2. Wanted(cs[g])
    BY <1>1, <1>3 DEF Owned, Wanted
  <2>3. SameWork(cs[g], cs[g])
    BY DEF SameWork
  <2> QED
    BY <1>1, <2>1, <2>2, <2>3 DEF Asked
<1>4. CASE ~cs[g].beats /\ cs[g].phase = "up"
  <2>1. PICK claim : claim = Claimed(r, g)
    OBVIOUS
  <2>2. PICK b, ks, k : b = claim.granted /\ ks = claim.copies /\ k = claim.holder
    OBVIOUS
  <2>3. /\ claim = [granted |-> b, copies |-> ks, holder |-> k]
        /\ Owned(ks, k) /\ Asked(cs, ks, g) /\ b \in BOOLEAN
        /\ b => ks[g].claimed /\ ~ks[g].retired
        /\ ~b => ks[g].retired
        /\ ks[g].beats = cs[g].beats /\ ks[g].loop = cs[g].loop
    BY <1>1, <2>1, <2>2, Claims
  <2>4. PICK d \in CopyType : d = [ks[g] EXCEPT !.beats = b]
    <3>1. ks[g] \in CopyType
      BY <2>3 DEF Owned
    <3> QED
      BY <2>3, <3>1 DEF CopyType
  <2>5. SameWork(ks[g], d) /\ d.beats = b /\ d.loop = ks[g].loop /\ d.claimed = ks[g].claimed
        /\ d.retired = ks[g].retired
    BY <2>3, <2>4 DEF SameWork, CopyType, Owned
  <2>6. PICK ds : ds = [ks EXCEPT ![g] = d]
    OBVIOUS
  <2>7. maybeStartHeartbeat(r, g).copies = ds /\ maybeStartHeartbeat(r, g).holder = k
    BY <1>1, <1>4, <2>1, <2>3, <2>4, <2>6 DEF maybeStartHeartbeat
  <2>8. Owned(ds, k)
    BY <2>3, <2>5, <2>6 DEF Owned
  <2>9. SameWork(cs[g], d)
    BY <2>3, <2>5 DEF Asked, SameWork
  <2>10. Asked(cs, ds, g) /\ ds[g] = d
    BY <2>3, <2>6, <2>9 DEF Asked, Owned
  <2>11. Wanted(d)
    BY <2>3, <2>5 DEF Wanted
  <2> QED
    BY <1>1, <2>3, <2>5, <2>7, <2>8, <2>10, <2>11
<1> QED
  BY <1>2, <1>3, <1>4 DEF CopyType

\* A loop that runs is left alone; else it starts for the registration that asks, or the
\* copy is one that was stopped.
LEMMA Polling ==
  ASSUME NEW r, Owned(r.copies, r.holder), NEW g \in Copies, NEW e \in Nat, Wanted(r.copies[g])
  PROVE  LET s == maybeStartAutoReply(r, g, e)
             c == r.copies[g]
             d == s.copies[g]
         IN
         /\ Owned(s.copies, s.holder) /\ Asked(r.copies, s.copies, g) /\ Wanted(d)
         /\ c.loop # 0 \/ c.phase # "up" \/ e = 0 => d.loop = c.loop
         /\ c.loop = 0 /\ c.phase = "up" => d.retired \/ d.loop = e
<1>1. PICK cs, h : cs = r.copies /\ h = r.holder
  OBVIOUS
<1>2. cs[g] \in CopyType
  BY <1>1 DEF Owned
<1>3. CASE cs[g].loop # 0 \/ cs[g].phase # "up" \/ e = 0
  <2>1. maybeStartAutoReply(r, g, e) = r
    BY <1>1, <1>3 DEF maybeStartAutoReply
  <2>2. SameWork(cs[g], cs[g])
    BY DEF SameWork
  <2> QED
    BY <1>1, <1>3, <2>1, <2>2 DEF Asked
<1>4. CASE cs[g].loop = 0 /\ cs[g].phase = "up" /\ e # 0
  <2>1. PICK claim : claim = Claimed(r, g)
    OBVIOUS
  <2>2. PICK b, ks, k : b = claim.granted /\ ks = claim.copies /\ k = claim.holder
    OBVIOUS
  <2>3. /\ claim = [granted |-> b, copies |-> ks, holder |-> k]
        /\ Owned(ks, k) /\ Asked(cs, ks, g) /\ b \in BOOLEAN
        /\ b => ks[g].claimed /\ ~ks[g].retired
        /\ ~b => ks[g].retired
        /\ ks[g].beats = cs[g].beats /\ ks[g].loop = cs[g].loop
    BY <1>1, <2>1, <2>2, Claims
  <2>4. PICK d \in CopyType : d = [ks[g] EXCEPT !.loop = IF b THEN e ELSE 0]
    <3>1. ks[g] \in CopyType
      BY <2>3 DEF Owned
    <3> QED
      BY <2>3, <3>1 DEF CopyType
  <2>5. SameWork(ks[g], d) /\ d.beats = ks[g].beats /\ d.loop = (IF b THEN e ELSE 0)
        /\ d.claimed = ks[g].claimed /\ d.retired = ks[g].retired
    BY <2>3, <2>4 DEF SameWork, CopyType, Owned
  <2>6. PICK ds : ds = [ks EXCEPT ![g] = d]
    OBVIOUS
  <2>7. maybeStartAutoReply(r, g, e).copies = ds /\ maybeStartAutoReply(r, g, e).holder = k
    BY <1>1, <1>4, <2>1, <2>3, <2>4, <2>6 DEF maybeStartAutoReply
  <2>8. Owned(ds, k)
    BY <2>3, <2>5, <2>6 DEF Owned
  <2>9. SameWork(cs[g], d)
    BY <2>3, <2>5 DEF Asked, SameWork
  <2>10. Asked(cs, ds, g) /\ ds[g] = d
    BY <2>3, <2>6, <2>9 DEF Asked, Owned
  <2>11. Wanted(d)
    BY <1>1, <1>4, <2>3, <2>5, <2>9 DEF Wanted, SameWork
  <2> QED
    BY <1>1, <1>4, <2>3, <2>5, <2>7, <2>8, <2>10, <2>11
<1> QED
  BY <1>2, <1>3, <1>4 DEF CopyType

\* Both at once, as ensureConnected starts them.
LEMMA Starting ==
  ASSUME NEW r, Owned(r.copies, r.holder), NEW g \in Copies, NEW e \in Nat,
         \A i \in Copies \ {g} : Wanted(r.copies[i])
  PROVE  LET s == maybeStartAutoReply(maybeStartHeartbeat(r, g), g, e)
             c == r.copies[g]
             d == s.copies[g]
         IN
         /\ Owned(s.copies, s.holder) /\ Asked(r.copies, s.copies, g)
         /\ \A i \in Copies : Wanted(s.copies[i])
         /\ d.retired \/ d.loop = IF c.loop # 0 \/ c.phase # "up" \/ e = 0 THEN c.loop ELSE e
<1>1. PICK q : q = maybeStartHeartbeat(r, g)
  OBVIOUS
<1>2. PICK s : s = maybeStartAutoReply(q, g, e)
  OBVIOUS
<1>3. PICK cs, ds, es : cs = r.copies /\ ds = q.copies /\ es = s.copies
  OBVIOUS
<1>4. Owned(ds, q.holder) /\ Asked(cs, ds, g) /\ Wanted(ds[g]) /\ ds[g].loop = cs[g].loop
  BY <1>1, <1>3, Heartbeat
<1>5. /\ Owned(es, s.holder) /\ Asked(ds, es, g) /\ Wanted(es[g])
      /\ ds[g].loop # 0 \/ ds[g].phase # "up" \/ e = 0 => es[g].loop = ds[g].loop
      /\ ds[g].loop = 0 /\ ds[g].phase = "up" => es[g].retired \/ es[g].loop = e
  BY <1>2, <1>3, <1>4, Polling
<1>6. SameWork(cs[g], es[g]) /\ ds[g].phase = cs[g].phase
  BY <1>4, <1>5 DEF Asked, SameWork
<1>7. ASSUME NEW i \in Copies \ {g}
      PROVE  (es[i] = cs[i] \/ es[i] = Stopped(cs[i])) /\ Wanted(es[i])
  <2>1. cs[i] \in CopyType
    BY <1>3 DEF Owned
  <2>2. Stopped(Stopped(cs[i])) = Stopped(cs[i])
    BY <2>1 DEF Stopped, CopyType
  <2>3. es[i] = cs[i] \/ es[i] = Stopped(cs[i])
    BY <1>4, <1>5, <2>2 DEF Asked
  <2> QED
    BY <1>3, <2>1, <2>3, StoppedType
<1>8. Asked(cs, es, g)
  BY <1>6, <1>7 DEF Asked
<1> QED
  BY <1>1, <1>2, <1>3, <1>4, <1>5, <1>6, <1>7, <1>8

\* The caller of ensureConnected joins or begins an attempt, or there was a connection:
\* then the heartbeat and the loop start unless they run.
Called(c, d, g, e) ==
  /\ d.epoch = c.epoch /\ d.draining = c.draining /\ d.rebinds = c.rebinds
  /\ c.retired => d.retired
  /\ \/ /\ c.phase \in CopyPhases \ {"off", "idle"} /\ d.phase = c.phase
        /\ d.callers = c.callers \cup ({e} \ {0}) /\ d.failed = c.failed
        /\ d.retired \/ d.loop = IF c.loop # 0 \/ c.phase # "up" \/ e = 0 THEN c.loop ELSE e
        /\ UNCHANGED <<queue, stored>>
     \/ /\ c.phase \in {"off", "idle"} /\ d.phase = "queued"
        /\ d.callers = c.callers \cup ({e} \ {0}) /\ d.failed = c.failed
        /\ queue' = Append(queue, g) /\ stored' = Migrated
     \/ /\ c.phase \in {"off", "idle"} /\ d.phase = "idle"
        /\ d.callers = {} /\ d.failed = "unusable"
        /\ UNCHANGED queue /\ stored' = Migrated

LEMMA Ensured ==
  ASSUME NEW cs, NEW g \in Copies, NEW e \in Nat, EnsureConnected(cs, g, e),
         Owned(cs, holder), \A i \in Copies \ {g} : Wanted(cs[i])
  PROVE  /\ Owned(copy', holder') /\ \A i \in Copies : Wanted(copy'[i])
         /\ \A i \in Copies \ {g} : copy'[i] = cs[i] \/ copy'[i] = Stopped(cs[i])
         /\ Called(cs[g], copy'[g], g, e)
<1>1. PICK c \in CopyType : c = [cs[g] EXCEPT !.callers = @ \cup ({e} \ {0})]
  BY DEF Owned, CopyType
<1>2. PICK b \in CopyType : b = cs[g]
  BY DEF Owned
<1>3. /\ c.callers = b.callers \cup ({e} \ {0})
      /\ c.phase = b.phase /\ c.epoch = b.epoch /\ c.draining = b.draining /\ c.rebinds = b.rebinds
      /\ c.failed = b.failed /\ c.retired = b.retired /\ c.loop = b.loop
      /\ c.claimed = b.claimed /\ c.beats = b.beats
  BY <1>1, <1>2 DEF CopyType
<1>4. PICK calling : calling = [cs EXCEPT ![g] = c]
  OBVIOUS
<1>5. Owned(calling, holder) /\ calling[g] = c /\ \A i \in Copies \ {g} : calling[i] = cs[i]
  BY <1>2, <1>3, <1>4 DEF Owned
<1>6. CASE c.phase = "up"
  <2>1. PICK r : r = [copies |-> calling, holder |-> holder]
    OBVIOUS
  <2>2. PICK s : s = maybeStartAutoReply(maybeStartHeartbeat(r, g), g, e)
    OBVIOUS
  <2>3. copy' = s.copies /\ holder' = s.holder /\ UNCHANGED <<queue, stored>>
    BY <1>1, <1>4, <1>6, <2>1, <2>2 DEF EnsureConnected, Apply
  <2>4. /\ Owned(s.copies, s.holder) /\ Asked(calling, s.copies, g)
        /\ \A i \in Copies : Wanted(s.copies[i])
        /\ s.copies[g].retired
           \/ s.copies[g].loop = IF c.loop # 0 \/ c.phase # "up" \/ e = 0 THEN c.loop ELSE e
    BY <1>5, <2>1, <2>2, Starting
  <2>5. Called(b, copy'[g], g, e)
    BY <1>3, <1>5, <1>6, <2>3, <2>4 DEF Called, Asked, SameWork, CopyPhases
  <2> QED
    BY <1>2, <1>5, <2>3, <2>4, <2>5 DEF Asked
<1>7. CASE c.phase \in {"queued", "asking", "granted", "refused", "boot"}
  <2>1. copy' = calling /\ UNCHANGED <<holder, queue, stored>>
    BY <1>1, <1>4, <1>7 DEF EnsureConnected
  <2>2. Called(b, c, g, e)
    BY <1>3, <1>7, <2>1 DEF Called, CopyPhases, Joining
  <2>3. Wanted(c)
    BY <1>7 DEF Wanted
  <2> QED
    BY <1>2, <1>5, <2>1, <2>2, <2>3
<1>8. CASE c.phase \in {"off", "idle"}
  <2>1. stored' = Migrated /\ holder' = holder
    BY <1>1, <1>8 DEF EnsureConnected
  <2>2. CASE MigrationRefuses
    <3>1. PICK d \in CopyType : d = Fails(c, "unusable")
      BY DEF Fails, CopyType, CopyPhases
    <3>2. copy' = [cs EXCEPT ![g] = d] /\ UNCHANGED queue
      BY <1>1, <1>8, <2>2, <3>1 DEF EnsureConnected
    <3>3. /\ d.phase = "idle" /\ d.callers = {} /\ d.failed = "unusable" /\ d.epoch = c.epoch
          /\ d.draining = c.draining /\ d.rebinds = c.rebinds /\ d.retired = c.retired
          /\ d.loop = c.loop /\ d.claimed = c.claimed /\ d.beats = c.beats
      BY <3>1 DEF Fails, CopyType
    <3>4. Called(b, d, g, e) /\ Wanted(d)
      BY <1>3, <1>8, <2>1, <3>2, <3>3 DEF Called, Wanted
    <3> QED
      BY <1>2, <1>3, <2>1, <3>2, <3>3, <3>4 DEF Owned
  <2>3. CASE ~MigrationRefuses
    <3>1. PICK d \in CopyType : d = [c EXCEPT !.phase = "queued", !.by = e, !.retiredAtStart = c.retired]
      BY DEF CopyType, CopyPhases, Joining
    <3>2. copy' = [cs EXCEPT ![g] = d] /\ queue' = Append(queue, g)
      BY <1>1, <1>8, <2>3, <3>1 DEF EnsureConnected
    <3>3. /\ d.phase = "queued" /\ d.callers = c.callers /\ d.failed = c.failed /\ d.epoch = c.epoch
          /\ d.draining = c.draining /\ d.rebinds = c.rebinds /\ d.retired = c.retired
          /\ d.loop = c.loop /\ d.claimed = c.claimed /\ d.beats = c.beats
      BY <3>1 DEF CopyType
    <3>4. Called(b, d, g, e) /\ Wanted(d)
      BY <1>3, <1>8, <2>1, <3>2, <3>3 DEF Called, Wanted
    <3> QED
      BY <1>2, <1>3, <2>1, <3>2, <3>3, <3>4 DEF Owned
  <2> QED
    BY <2>2, <2>3
<1> QED
  BY <1>6, <1>7, <1>8 DEF CopyType, CopyPhases, Joining

\* What connecting leaves of a copy.
SameRun(c, d) ==
  /\ d.epoch = c.epoch /\ d.draining = c.draining /\ d.rebinds = c.rebinds
  /\ d.retired = c.retired /\ d.loop = c.loop /\ d.claimed = c.claimed /\ d.beats = c.beats

LEMMA FailsType ==
  ASSUME NEW c \in CopyType, NEW why \in {"unusable", "stopped", "lost", "refused"}
  PROVE  /\ Fails(c, why) \in CopyType /\ SameRun(c, Fails(c, why))
         /\ Fails(c, why).phase = "idle" /\ Fails(c, why).callers = {} /\ Fails(c, why).failed = why
  BY DEF Fails, CopyType, CopyPhases, SameRun

LEMMA LoadedType ==
  ASSUME NEW c \in CopyType
  PROVE  /\ Loaded(c) \in CopyType /\ SameRun(c, Loaded(c))
         /\ \/ Loaded(c).phase = "boot" /\ Loaded(c).callers = c.callers /\ Loaded(c).failed = c.failed
            \/ Loaded(c).phase = "idle" /\ Loaded(c).callers = {} /\ Loaded(c).failed = "stopped"
<1>1. [c EXCEPT !.phase = "boot"] \in CopyType /\ SameRun(c, [c EXCEPT !.phase = "boot"])
      /\ [c EXCEPT !.phase = "boot"].phase = "boot"
      /\ [c EXCEPT !.phase = "boot"].callers = c.callers
      /\ [c EXCEPT !.phase = "boot"].failed = c.failed
  BY DEF CopyType, CopyPhases, SameRun
<1> QED
  BY <1>1, FailsType DEF Loaded

LEMMA PhaseType ==
  ASSUME NEW c \in CopyType, NEW p \in CopyPhases
  PROVE  LET d == [c EXCEPT !.phase = p] IN
         d \in CopyType /\ SameRun(c, d) /\ d.phase = p /\ d.callers = c.callers /\ d.failed = c.failed
  BY DEF CopyType, SameRun

LEMMA RequestQueue ==
  ASSUME NEW q \in Seq(Nat), NEW e \in Nat
  PROVE  /\ Append(q, e) \in Seq(Nat)
         /\ q # <<>> => Head(q) \in Nat /\ Tail(q) \in Seq(Nat)
  OBVIOUS

\* A rebind stops the loop, leaves it, or waits; it starts none.
LEMMA RebindType ==
  ASSUME NEW c \in CopyType, NEW e \in Nat
  PROVE  LET d == Rebind(c, e) IN
         /\ d \in CopyType /\ d.loop \in {0, c.loop}
         /\ d.phase = c.phase /\ d.epoch = c.epoch /\ d.callers = c.callers /\ d.failed = c.failed
         /\ d.retired = c.retired /\ d.claimed = c.claimed /\ d.beats = c.beats
         /\ d.disposed = c.disposed
<1>1. CASE c.draining # 0
  <2>1. PICK r \in Seq(Nat) : r = Append(c.rebinds, e)
    BY RequestQueue DEF CopyType
  <2>2. Rebind(c, e) = [c EXCEPT !.rebinds = r]
    BY <1>1, <2>1 DEF Rebind
  <2> QED
    BY <2>2 DEF CopyType
<1>2. CASE c.draining = 0 /\ c.loop = e
  BY <1>2 DEF Rebind, CopyType
<1>3. CASE c.draining = 0 /\ c.loop # e
  BY <1>3 DEF Rebind, CopyType
<1> QED
  BY <1>1, <1>2, <1>3

CopiesInv == Owned(copy, holder) /\ \A g \in Copies : Wanted(copy[g])

\* One copy changes and who produces does not.
LEMMA OwnChange ==
  ASSUME CopiesInv, NEW g \in Copies, NEW d \in CopyType,
         copy' = [copy EXCEPT ![g] = d], holder' = holder,
         d.claimed = copy[g].claimed, d.beats = copy[g].beats,
         d.loop # 0 => copy[g].loop # 0, Wanted(d)
  PROVE  CopiesInv'
  BY DEF CopiesInv, Owned

\* A copy is registered again: its state before it connects.
LEMMA RegisterType ==
  ASSUME NEW c \in CopyType
  PROVE  LET d == [c EXCEPT !.epoch = c.epoch + 1, !.retired = FALSE, !.failed = "no"] IN
         /\ d \in CopyType /\ d.epoch = c.epoch + 1 /\ ~d.retired /\ d.failed = "no"
         /\ d.phase = c.phase /\ d.callers = c.callers /\ d.draining = c.draining
         /\ d.rebinds = c.rebinds /\ d.loop = c.loop /\ d.claimed = c.claimed /\ d.beats = c.beats
<1>1. PICK n \in Nat : n = c.epoch + 1
  BY DEF CopyType
<1>2. PICK d : d = [c EXCEPT !.epoch = n, !.retired = FALSE, !.failed = "no"]
  OBVIOUS
<1>3. d \in CopyType
  BY <1>2 DEF CopyType
<1>4. /\ d.epoch = n /\ ~d.retired /\ d.failed = "no"
      /\ d.phase = c.phase /\ d.callers = c.callers /\ d.draining = c.draining
      /\ d.rebinds = c.rebinds /\ d.loop = c.loop /\ d.claimed = c.claimed /\ d.beats = c.beats
  BY <1>2 DEF CopyType
<1> QED
  BY <1>1, <1>2, <1>3, <1>4

LEMMA Registers ==
  ASSUME CopiesInv, NEW g \in Copies, register(g)
  PROVE  /\ CopiesInv'
         /\ \A i \in Copies \ {g} : copy'[i] = copy[i] \/ copy'[i] = Stopped(copy[i])
         /\ \E c \in CopyType :
              /\ c.epoch = copy[g].epoch + 1 /\ ~c.retired /\ c.failed = "no"
              /\ c.phase = copy[g].phase /\ c.callers = copy[g].callers
              /\ c.draining = copy[g].draining /\ c.rebinds = copy[g].rebinds /\ c.loop = copy[g].loop
              /\ Called(c, copy'[g], g, c.epoch)
         /\ copy[g].epoch < MaxEpochs
         /\ UNCHANGED <<spent, lostAnswers, outside>>
<1>1. PICK c \in CopyType :
        c = [copy[g] EXCEPT !.epoch = copy[g].epoch + 1, !.retired = FALSE, !.failed = "no"]
  BY RegisterType DEF CopiesInv, Owned
<1>2. /\ c.epoch = copy[g].epoch + 1 /\ ~c.retired /\ c.failed = "no"
      /\ c.phase = copy[g].phase /\ c.callers = copy[g].callers
      /\ c.draining = copy[g].draining /\ c.rebinds = copy[g].rebinds /\ c.loop = copy[g].loop
      /\ c.claimed = copy[g].claimed /\ c.beats = copy[g].beats /\ c.epoch \in Nat
  BY <1>1, RegisterType DEF CopiesInv, Owned, CopyType
<1>3. PICK cs : cs = [copy EXCEPT ![g] = c]
  OBVIOUS
<1>4. EnsureConnected(cs, g, c.epoch)
  BY <1>1, <1>2, <1>3 DEF register, CopiesInv, Owned
<1>5. Owned(cs, holder) /\ cs[g] = c /\ \A i \in Copies \ {g} : cs[i] = copy[i] /\ Wanted(cs[i])
  BY <1>2, <1>3 DEF CopiesInv, Owned
<1>6. /\ Owned(copy', holder') /\ \A i \in Copies : Wanted(copy'[i])
      /\ \A i \in Copies \ {g} : copy'[i] = cs[i] \/ copy'[i] = Stopped(cs[i])
      /\ Called(cs[g], copy'[g], g, c.epoch)
  BY <1>2, <1>4, <1>5, Ensured
<1> QED
  BY <1>2, <1>5, <1>6 DEF CopiesInv, register

LEMMA ToolCalls ==
  ASSUME CopiesInv, NEW g \in Copies, toolCall(g)
  PROVE  /\ CopiesInv'
         /\ \A i \in Copies \ {g} : copy'[i] = copy[i] \/ copy'[i] = Stopped(copy[i])
         /\ Called(copy[g], copy'[g], g, 0)
         /\ UNCHANGED <<spent, lostAnswers, outside>>
  BY Ensured DEF toolCall, CopiesInv

LEMMA Connects ==
  ASSUME CopiesInv, NEW g \in Copies, connected(g)
  PROVE  /\ CopiesInv'
         /\ \A i \in Copies \ {g} : copy'[i] = copy[i] \/ copy'[i] = Stopped(copy[i])
         /\ copy[g].phase = "boot" /\ copy'[g].phase = "up"
         /\ \E c \in CopyType : /\ SameRun(copy[g], c) /\ c.callers = copy[g].callers
                                /\ c.failed = copy[g].failed /\ SameWork(c, copy'[g])
<1>1. PICK c \in CopyType : c = [copy[g] EXCEPT !.phase = "up"]
  BY PhaseType DEF CopiesInv, Owned, CopyPhases
<1>2. SameRun(copy[g], c) /\ c.phase = "up" /\ c.callers = copy[g].callers /\ c.failed = copy[g].failed
  BY <1>1, PhaseType DEF CopiesInv, Owned, CopyPhases
<1>3. PICK r : r = [copies |-> [copy EXCEPT ![g] = c], holder |-> holder]
  OBVIOUS
<1>4. copy[g].by \in Nat
  BY DEF CopiesInv, Owned, CopyType
<1>5. PICK s : s = maybeStartAutoReply(maybeStartHeartbeat(r, g), g, copy[g].by)
  OBVIOUS
<1>6. copy' = s.copies /\ holder' = s.holder /\ copy[g].phase = "boot"
  BY <1>1, <1>3, <1>5 DEF connected, Apply
<1>7. /\ Owned(r.copies, r.holder) /\ r.copies[g] = c
      /\ \A i \in Copies \ {g} : r.copies[i] = copy[i] /\ Wanted(r.copies[i])
  BY <1>2, <1>3 DEF CopiesInv, Owned, SameRun
<1>8. /\ Owned(s.copies, s.holder) /\ Asked(r.copies, s.copies, g)
      /\ \A i \in Copies : Wanted(s.copies[i])
  BY <1>4, <1>5, <1>7, Starting
<1> QED
  BY <1>2, <1>6, <1>7, <1>8 DEF CopiesInv, Asked, SameWork

LEMMA Drains ==
  ASSUME CopiesInv, NEW g \in Copies, drained(g)
  PROVE  /\ CopiesInv'
         /\ \A i \in Copies \ {g} : copy'[i] = copy[i] \/ copy'[i] = Stopped(copy[i])
         /\ LET c == copy[g]
                d == copy'[g]
            IN  /\ d.phase = c.phase /\ d.epoch = c.epoch /\ d.callers = c.callers
                /\ d.failed = c.failed /\ d.rebinds = c.rebinds /\ d.draining = 0
                /\ c.retired => d.retired
                /\ c.loop # 0 => d.loop = c.loop
                /\ c.loop = 0 /\ c.phase = "up" => d.retired \/ d.loop = c.draining
         /\ copy[g].draining # 0 /\ UNCHANGED <<queue, stored, spent, lostAnswers, outside>>
<1>1. PICK c \in CopyType : c = [copy[g] EXCEPT !.draining = 0]
  BY DEF CopiesInv, Owned, CopyType
<1>2. /\ c.draining = 0
      /\ c.phase = copy[g].phase /\ c.epoch = copy[g].epoch /\ c.callers = copy[g].callers
      /\ c.failed = copy[g].failed /\ c.rebinds = copy[g].rebinds /\ c.loop = copy[g].loop
      /\ c.retired = copy[g].retired /\ c.claimed = copy[g].claimed /\ c.beats = copy[g].beats
  BY <1>1 DEF CopiesInv, Owned, CopyType
<1>3. PICK r : r = [copies |-> [copy EXCEPT ![g] = c], holder |-> holder]
  OBVIOUS
<1>4. PICK e \in Nat : e = copy[g].draining
  BY DEF CopiesInv, Owned, CopyType
<1>5. PICK s : s = maybeStartAutoReply(r, g, e)
  OBVIOUS
<1>6. copy' = s.copies /\ holder' = s.holder
  BY <1>1, <1>3, <1>4, <1>5 DEF drained, Apply
<1>7. /\ Owned(r.copies, r.holder) /\ r.copies[g] = c /\ Wanted(c)
      /\ \A i \in Copies \ {g} : r.copies[i] = copy[i] /\ Wanted(r.copies[i])
  BY <1>2, <1>3 DEF CopiesInv, Owned, Wanted
<1>8. /\ Owned(s.copies, s.holder) /\ Asked(r.copies, s.copies, g) /\ Wanted(s.copies[g])
      /\ c.loop # 0 => s.copies[g].loop = c.loop
      /\ c.loop = 0 /\ c.phase = "up" => s.copies[g].retired \/ s.copies[g].loop = e
  BY <1>5, <1>7, Polling
<1>9. ASSUME NEW i \in Copies \ {g}
      PROVE  (copy'[i] = copy[i] \/ copy'[i] = Stopped(copy[i])) /\ Wanted(copy'[i])
  BY <1>6, <1>7, <1>8, StoppedType DEF Asked, Owned
<1>10. copy[g].draining # 0 /\ UNCHANGED <<queue, stored, spent, lostAnswers, outside>>
  BY DEF drained
<1> QED
  BY <1>2, <1>4, <1>6, <1>7, <1>8, <1>9, <1>10 DEF CopiesInv, Asked, SameWork

\* A step of connecting: the copy goes on, or its attempt ends and fails its callers.
Proceeds(g, d) ==
  /\ copy' = [copy EXCEPT ![g] = d] /\ holder' = holder
  /\ d \in CopyType /\ SameRun(copy[g], d)
  /\ copy[g].phase \notin {"up", "off"} /\ d.phase # "up"
  /\ \/ d.callers = copy[g].callers /\ d.failed = copy[g].failed
     \/ d.phase = "idle" /\ d.callers = {} /\ d.failed # "no"

\* ... for some other reason than a refused token.
NotRefused(g, d) == d.failed = "refused" => copy[g].failed = "refused"

LEMMA LoadStep ==
  ASSUME CopiesInv, NEW g \in Copies, enrollOrLoad(g)
  PROVE  \E d : /\ Proceeds(g, d) /\ NotRefused(g, d)
                /\ copy[g].phase = "queued" /\ MyTurn(g)
                /\ \/ d.phase = "asking" /\ queue' = queue
                   \/ d.phase \in {"boot", "idle"} /\ queue' = LeaveQueue
                /\ UNCHANGED <<stored, spent, lostAnswers, outside>>
<1>1. PICK c \in CopyType : c = copy[g]
  BY DEF CopiesInv, Owned
<1>2. CASE stored = "ok"
  BY <1>1, <1>2, LoadedType DEF enrollOrLoad, Proceeds, NotRefused
<1>3. CASE stored = "unusable"
  BY <1>1, <1>3, FailsType DEF enrollOrLoad, Proceeds, NotRefused
<1>4. CASE stored = "absent"
  <2>1. PICK d : d = [c EXCEPT !.phase = "asking"]
    OBVIOUS
  <2>2. d \in CopyType /\ SameRun(c, d) /\ d.phase = "asking" /\ d.callers = c.callers
        /\ d.failed = c.failed
    BY <2>1, PhaseType DEF CopyPhases, Joining
  <2>3. copy' = [copy EXCEPT ![g] = d]
    BY <1>1, <1>4, <2>1 DEF enrollOrLoad
  <2> QED
    BY <1>1, <1>4, <2>2, <2>3 DEF enrollOrLoad, Proceeds, NotRefused
<1> QED
  BY <1>2, <1>3, <1>4 DEF enrollOrLoad

LEMMA RelayStep ==
  ASSUME CopiesInv, NEW g \in Copies, relayEnrolls(g)
  PROVE  \E d : /\ Proceeds(g, d) /\ NotRefused(g, d)
                /\ copy[g].phase = "asking"
                /\ \/ spent /\ d.phase = "refused" /\ queue' = LeaveQueue
                   \/ ~spent /\ d.phase = "granted" /\ queue' = queue
                /\ UNCHANGED <<stored, lostAnswers, outside>>
<1>1. PICK c \in CopyType : c = copy[g]
  BY DEF CopiesInv, Owned
<1>2. PICK p \in CopyPhases : p = IF spent THEN "refused" ELSE "granted"
  BY DEF CopyPhases, Joining
<1>3. PICK d : d = [c EXCEPT !.phase = p]
  OBVIOUS
<1>4. d \in CopyType /\ SameRun(c, d) /\ d.phase = p /\ d.callers = c.callers /\ d.failed = c.failed
  BY <1>3, PhaseType
<1>5. copy' = [copy EXCEPT ![g] = d]
  BY <1>1, <1>2, <1>3 DEF relayEnrolls
<1> QED
  BY <1>1, <1>2, <1>4, <1>5 DEF relayEnrolls, Proceeds, NotRefused

LEMMA AnswerStep ==
  ASSUME CopiesInv, NEW g \in Copies, enrollAnswered(g)
  PROVE  \E d : /\ Proceeds(g, d) /\ NotRefused(g, d) /\ d.phase \in {"boot", "idle"}
                /\ copy[g].phase = "granted" /\ stored' = "ok" /\ queue' = LeaveQueue
                /\ UNCHANGED <<spent, lostAnswers, outside>>
<1>1. PICK c \in CopyType : c = copy[g]
  BY DEF CopiesInv, Owned
<1> QED
  BY <1>1, LoadedType DEF enrollAnswered, Proceeds, NotRefused

LEMMA LostStep ==
  ASSUME CopiesInv, NEW g \in Copies, enrollLost(g)
  PROVE  \E d : /\ Proceeds(g, d) /\ NotRefused(g, d) /\ d.phase = "idle"
                /\ copy[g].phase \in {"asking", "granted"} /\ queue' = LeaveQueue
                /\ lostAnswers' = lostAnswers + 1
                /\ UNCHANGED <<stored, spent, outside>>
<1>1. PICK c \in CopyType : c = copy[g]
  BY DEF CopiesInv, Owned
<1> QED
  BY <1>1, FailsType DEF enrollLost, Proceeds, NotRefused

LEMMA RecheckStep ==
  ASSUME CopiesInv, NEW g \in Copies, recheck(g)
  PROVE  \E d : /\ Proceeds(g, d) /\ d.phase \in {"boot", "idle"}
                /\ stored = "ok" => NotRefused(g, d)
                /\ copy[g].phase = "refused"
                /\ UNCHANGED <<queue, stored, spent, lostAnswers, outside>>
<1>1. PICK c \in CopyType : c = copy[g]
  BY DEF CopiesInv, Owned
<1>2. CASE stored = "ok"
  BY <1>1, <1>2, LoadedType DEF recheck, Proceeds, NotRefused
<1>3. CASE stored # "ok"
  BY <1>1, <1>3, FailsType DEF recheck, Proceeds
<1> QED
  BY <1>2, <1>3

\* The loop of copy g is rebound; callers and waiting requests may go.
Rebinds(g, d) ==
  /\ copy' = [copy EXCEPT ![g] = d] /\ holder' = holder /\ d \in CopyType
  /\ d.phase = copy[g].phase /\ d.epoch = copy[g].epoch /\ d.failed = copy[g].failed
  /\ d.retired = copy[g].retired /\ d.claimed = copy[g].claimed /\ d.beats = copy[g].beats
  /\ d.loop \in {0, copy[g].loop}
  /\ UNCHANGED <<queue, stored, spent, lostAnswers, outside>>

LEMMA BindStep ==
  ASSUME CopiesInv, NEW g \in Copies, NEW e \in Epochs, bindLoop(g, e)
  PROVE  \E d : Rebinds(g, d)
<1>1. PICK b \in CopyType : b = copy[g]
  BY DEF CopiesInv, Owned
<1>2. PICK c \in CopyType : c = [b EXCEPT !.callers = @ \ {e}]
  BY DEF CopyType
<1>3. /\ c.callers = b.callers \ {e} /\ c.phase = b.phase /\ c.epoch = b.epoch /\ c.failed = b.failed
      /\ c.retired = b.retired /\ c.claimed = b.claimed /\ c.beats = b.beats /\ c.loop = b.loop
      /\ c.draining = b.draining /\ c.rebinds = b.rebinds
  BY <1>2 DEF CopyType
<1>4. e \in Nat
  BY RuntimeAssumption DEF Epochs
<1>5. PICK d : d = Rebind(c, e)
  OBVIOUS
<1>6. /\ d \in CopyType /\ d.loop \in {0, c.loop}
      /\ d.phase = c.phase /\ d.epoch = c.epoch /\ d.callers = c.callers /\ d.failed = c.failed
      /\ d.retired = c.retired /\ d.claimed = c.claimed /\ d.beats = c.beats
  BY <1>4, <1>5, RebindType
<1>7. CASE e = b.epoch
  <2>1. copy' = [copy EXCEPT ![g] = d]
    BY <1>1, <1>2, <1>3, <1>5, <1>7 DEF bindLoop
  <2> QED
    BY <1>1, <1>3, <1>6, <2>1 DEF bindLoop, Rebinds
<1>8. CASE e # b.epoch
  <2>1. copy' = [copy EXCEPT ![g] = c]
    BY <1>1, <1>2, <1>3, <1>8 DEF bindLoop
  <2> QED
    BY <1>1, <1>3, <1>8, <2>1 DEF bindLoop, Rebinds
<1> QED
  BY <1>7, <1>8

LEMMA AgainStep ==
  ASSUME CopiesInv, NEW g \in Copies, rebindAgain(g)
  PROVE  \E d : Rebinds(g, d)
<1>1. PICK b \in CopyType : b = copy[g]
  BY DEF CopiesInv, Owned
<1>2. PICK e \in Nat, r \in Seq(Nat) : e = Head(b.rebinds) /\ r = Tail(b.rebinds)
  <2>1. b.rebinds \in Seq(Nat) /\ b.rebinds # <<>>
    BY <1>1 DEF rebindAgain, CopyType
  <2> QED
    BY <2>1, RequestQueue
<1>3. PICK c \in CopyType : c = [b EXCEPT !.rebinds = r]
  BY <1>2 DEF CopyType
<1>4. /\ c.phase = b.phase /\ c.epoch = b.epoch /\ c.failed = b.failed
      /\ c.retired = b.retired /\ c.claimed = b.claimed /\ c.beats = b.beats /\ c.loop = b.loop
  BY <1>3 DEF CopyType
<1>5. PICK d : d = Rebind(c, e)
  OBVIOUS
<1>6. /\ d \in CopyType /\ d.loop \in {0, c.loop}
      /\ d.phase = c.phase /\ d.epoch = c.epoch /\ d.failed = c.failed
      /\ d.retired = c.retired /\ d.claimed = c.claimed /\ d.beats = c.beats
  BY <1>5, RebindType
<1>7. copy' = [copy EXCEPT ![g] = d]
  <2>1. copy' = [copy EXCEPT ![g] = Rebind([copy[g] EXCEPT !.rebinds = Tail(@)],
                                           Head(copy[g].rebinds))]
    BY DEF rebindAgain
  <2> QED
    BY <1>1, <1>2, <1>3, <1>5, <2>1
<1> QED
  BY <1>1, <1>4, <1>6, <1>7 DEF rebindAgain, Rebinds

LEMMA UnloadStep ==
  ASSUME CopiesInv, NEW g \in Copies, NEW e \in Epochs, unload(g, e)
  PROVE  /\ CopiesInv'
         /\ UNCHANGED <<queue, stored, spent, lostAnswers, outside>>
         /\ e \in 1..copy[g].epoch
         /\ \/ copy' = [copy EXCEPT ![g] = Stopped(@)]
            \/ \E d : Rebinds(g, d)
<1>1. PICK c \in CopyType : c = copy[g]
  BY DEF CopiesInv, Owned
<1>2. CASE e = c.epoch
  <2>1. copy' = [copy EXCEPT ![g] = Stopped(c)] /\ holder' = IF holder = g THEN 0 ELSE holder
    BY <1>1, <1>2 DEF unload
  <2>2. Owned(copy', holder')
    <3>1. ASSUME NEW i \in Copies
          PROVE  /\ copy'[i] \in CopyType
                 /\ copy'[i].claimed <=> holder' = i
                 /\ copy'[i].beats \/ copy'[i].loop # 0 => copy'[i].claimed
      BY <1>1, <2>1, StoppedType, RuntimeAssumption DEF CopiesInv, Owned, Copies
    <3> QED
      BY <2>1, <3>1, RuntimeAssumption DEF CopiesInv, Owned
  <2>3. \A i \in Copies : Wanted(copy'[i])
    BY <1>1, <2>1, StoppedType DEF CopiesInv, Owned
  <2> QED
    BY <1>1, <2>1, <2>2, <2>3 DEF CopiesInv, unload
<1>3. CASE e # c.epoch
  <2>1. PICK d : d = Rebind(c, c.epoch)
    OBVIOUS
  <2>2. /\ d \in CopyType /\ d.loop \in {0, c.loop}
        /\ d.phase = c.phase /\ d.epoch = c.epoch /\ d.callers = c.callers /\ d.failed = c.failed
        /\ d.retired = c.retired /\ d.claimed = c.claimed /\ d.beats = c.beats
    BY <2>1, RebindType DEF CopyType
  <2>3. PICK f \in CopyType : f = [d EXCEPT !.disposed = @ \cup {e}]
    <3>1. e \in Nat
      BY RuntimeAssumption DEF Epochs
    <3> QED
      BY <2>2, <3>1 DEF CopyType
  <2>4. /\ f.phase = d.phase /\ f.epoch = d.epoch /\ f.callers = d.callers /\ f.failed = d.failed
        /\ f.retired = d.retired /\ f.claimed = d.claimed /\ f.beats = d.beats /\ f.loop = d.loop
        /\ f.draining = d.draining /\ f.rebinds = d.rebinds
    BY <2>2, <2>3 DEF CopyType
  <2>5. copy' = [copy EXCEPT ![g] = f]
    <3>1. copy' = [copy EXCEPT ![g] =
                     [Rebind(copy[g], copy[g].epoch) EXCEPT !.disposed = @ \cup {e}]]
      BY <1>1, <1>3 DEF unload
    <3> QED
      BY <1>1, <2>1, <2>3, <3>1
  <2>6. Rebinds(g, f)
    BY <1>1, <1>3, <2>2, <2>4, <2>5 DEF Rebinds, unload
  <2>7. CopiesInv'
    <3>1. Wanted(f) /\ f.claimed = copy[g].claimed /\ f.beats = copy[g].beats
          /\ (f.loop # 0 => copy[g].loop # 0) /\ holder' = holder
      BY <1>1, <2>6 DEF Rebinds, Wanted, CopiesInv
    <3> QED
      BY <2>5, <3>1, OwnChange
  <2> QED
    BY <1>1, <1>3, <2>2, <2>4, <2>6, <2>7 DEF unload
<1> QED
  BY <1>2, <1>3

LEMMA ProducerStep == CopiesInv /\ RuntimeNext => CopiesInv'
<1> SUFFICES ASSUME CopiesInv, RuntimeNext PROVE CopiesInv'
  OBVIOUS
<1>1. ASSUME NEW g \in Copies, NEW d, Proceeds(g, d) PROVE CopiesInv'
  <2>1. Wanted(d)
    BY <1>1 DEF Proceeds, Wanted
  <2> QED
    BY <1>1, <2>1, OwnChange DEF Proceeds, SameRun
<1>2. ASSUME NEW g \in Copies, NEW d, Rebinds(g, d) PROVE CopiesInv'
  <2>1. Wanted(d)
    BY <1>2 DEF Rebinds, Wanted, CopiesInv
  <2> QED
    BY <1>2, <2>1, OwnChange DEF Rebinds
<1>3. ASSUME NEW g \in Copies,
             \/ register(g) \/ toolCall(g) \/ connected(g) \/ drained(g)
      PROVE  CopiesInv'
  BY <1>3, Registers, ToolCalls, Connects, Drains
<1>4. ASSUME NEW g \in Copies,
             \/ enrollOrLoad(g) \/ relayEnrolls(g) \/ enrollAnswered(g) \/ enrollLost(g) \/ recheck(g)
      PROVE  CopiesInv'
  <2>1. \E d : Proceeds(g, d)
    BY <1>4, LoadStep, RelayStep, AnswerStep, LostStep, RecheckStep
  <2> QED
    BY <1>1, <2>1
<1>5. ASSUME NEW g \in Copies, rebindAgain(g) \/ \E e \in Epochs : bindLoop(g, e) PROVE CopiesInv'
  <2>1. \E d : Rebinds(g, d)
    BY <1>5, BindStep, AgainStep
  <2> QED
    BY <1>2, <2>1
<1>6. ASSUME NEW g \in Copies, NEW e \in Epochs, unload(g, e) PROVE CopiesInv'
  BY <1>6, UnloadStep
<1>7. CASE outsideEnrolls \/ outsideSaves
  BY <1>7 DEF outsideEnrolls, outsideSaves, CopiesInv
<1> QED
  BY <1>3, <1>4, <1>5, <1>6, <1>7 DEF RuntimeNext

\* The queue holds the copies that enroll, each once, and only the first has asked.
QueueInv ==
  /\ queue \in Seq(Copies)
  /\ \A i, j \in DOMAIN queue : queue[i] = queue[j] => i = j
  /\ \A i \in DOMAIN queue : /\ copy[queue[i]].phase \in Joining
                             /\ i # 1 => copy[queue[i]].phase = "queued"
  /\ \A g \in Copies : copy[g].phase \in Joining => \E i \in DOMAIN queue : queue[i] = g

\* The phases of the other copies stand.
OthersStay(g) == \A i \in Copies \ {g} : copy'[i].phase = copy[i].phase

LEMMA FirstHasAsked ==
  ASSUME QueueInv, NEW g \in Copies,
         \/ copy[g].phase \in {"asking", "granted"}
         \/ copy[g].phase = "queued" /\ MyTurn(g)
  PROVE  queue # <<>> /\ queue[1] = g
<1>1. PICK i \in DOMAIN queue : queue[i] = g
  BY DEF QueueInv, Joining
<1>2. queue # <<>>
  BY <1>1 DEF QueueInv
<1> QED
  BY <1>1, <1>2 DEF QueueInv, MyTurn

LEMMA QueueLeft ==
  ASSUME QueueInv, NEW g \in Copies, queue # <<>>, queue[1] = g, queue' = LeaveQueue,
         copy'[g].phase \notin Joining, OthersStay(g)
  PROVE  QueueInv'
<1>1. queue' \in Seq(Copies) /\ DOMAIN queue' = 1..(Len(queue) - 1) /\ DOMAIN queue = 1..Len(queue)
      /\ Len(queue) \in Nat /\ \A i \in DOMAIN queue' : queue'[i] = queue[i + 1]
  BY DEF QueueInv, LeaveQueue
<1>2. \A i \in DOMAIN queue' : i + 1 \in DOMAIN queue /\ i + 1 # 1 /\ queue[i + 1] # g /\ queue[i + 1] \in Copies
  BY <1>1 DEF QueueInv
<1>3. \A i, j \in DOMAIN queue' : queue'[i] = queue'[j] => i = j
  BY <1>1, <1>2 DEF QueueInv
<1>4. \A i \in DOMAIN queue' : copy'[queue'[i]].phase = "queued"
  BY <1>1, <1>2 DEF QueueInv, OthersStay
<1>5. ASSUME NEW h \in Copies, copy'[h].phase \in Joining PROVE \E i \in DOMAIN queue' : queue'[i] = h
  <2>1. h # g
    BY <1>5
  <2>2. PICK j \in DOMAIN queue : queue[j] = h
    BY <1>5, <2>1 DEF QueueInv, OthersStay
  <2>3. j - 1 \in DOMAIN queue' /\ queue'[j - 1] = h
    BY <1>1, <2>1, <2>2
  <2> QED
    BY <2>3
<1> QED
  BY <1>1, <1>3, <1>4, <1>5 DEF QueueInv, Joining

LEMMA QueueStays ==
  ASSUME QueueInv, NEW g \in Copies, queue' = queue, OthersStay(g),
         \/ copy[g].phase \notin Joining /\ copy'[g].phase \notin Joining
         \/ copy'[g].phase = copy[g].phase
         \/ queue # <<>> /\ queue[1] = g /\ copy'[g].phase \in Joining
  PROVE  QueueInv'
<1>1. queue' \in Seq(Copies) /\ \A i \in DOMAIN queue' : queue[i] \in Copies
  BY DEF QueueInv
<1>2. \A i \in DOMAIN queue : /\ copy'[queue[i]].phase \in Joining
                              /\ i # 1 => copy'[queue[i]].phase = "queued"
  BY <1>1 DEF QueueInv, OthersStay
<1>3. \A h \in Copies : copy'[h].phase \in Joining => \E i \in DOMAIN queue : queue[i] = h
  BY DEF QueueInv, OthersStay
<1> QED
  BY <1>1, <1>2, <1>3 DEF QueueInv

LEMMA QueueJoined ==
  ASSUME QueueInv, NEW g \in Copies, queue' = Append(queue, g), OthersStay(g),
         copy[g].phase \notin Joining, copy'[g].phase = "queued"
  PROVE  QueueInv'
<1>1. PICK n \in Nat : n = Len(queue) /\ DOMAIN queue = 1..n
  BY DEF QueueInv
<1>2. queue' \in Seq(Copies) /\ DOMAIN queue' = 1..(n + 1) /\ queue'[n + 1] = g
      /\ \A i \in 1..n : queue'[i] = queue[i] /\ queue[i] \in Copies
  BY <1>1 DEF QueueInv
<1>3. \A i \in 1..n : queue[i] # g
  BY <1>1 DEF QueueInv
<1>4. \A i, j \in DOMAIN queue' : queue'[i] = queue'[j] => i = j
  BY <1>1, <1>2, <1>3 DEF QueueInv
<1>5. \A i \in DOMAIN queue' : /\ copy'[queue'[i]].phase \in Joining
                               /\ i # 1 => copy'[queue'[i]].phase = "queued"
  BY <1>1, <1>2, <1>3 DEF QueueInv, OthersStay, Joining
<1>6. \A h \in Copies : copy'[h].phase \in Joining => \E i \in DOMAIN queue' : queue'[i] = h
  BY <1>1, <1>2 DEF QueueInv, OthersStay
<1> QED
  BY <1>2, <1>4, <1>5, <1>6 DEF QueueInv

\* A spent token is accounted for: its credentials are saved or about to be, an answer was
\* lost, or another process has them.
Excused == lostAnswers > 0 \/ outside # "idle"

TokenInv ==
  /\ lostAnswers \in Nat
  /\ spent => stored = "ok" \/ Excused \/ \E g \in Copies : copy[g].phase = "granted"
  /\ \A g \in Copies : /\ copy[g].phase = "refused" => stored = "ok" \/ Excused
                       /\ copy[g].failed = "refused" => Excused

EnrolInv == CopiesInv /\ QueueInv /\ TokenInv

\* Nobody's phase moves into or out of a relay's answer.
LEMMA TokenStays ==
  ASSUME TokenInv, stored = "ok" => stored' = "ok", UNCHANGED <<spent, lostAnswers, outside>>,
         \A g \in Copies : /\ copy[g].phase = "granted" => copy'[g].phase = "granted"
                           /\ copy'[g].phase = "refused" => copy[g].phase = "refused"
                           /\ copy'[g].failed = "refused" => copy[g].failed = "refused"
  PROVE  TokenInv'
  BY DEF TokenInv, Excused

LEMMA CallKeeps ==
  ASSUME QueueInv, TokenInv, NEW g \in Copies, NEW c, NEW e,
         c.phase = copy[g].phase, c.failed \in {copy[g].failed, "no"},
         \A i \in Copies \ {g} : copy'[i].phase = copy[i].phase /\ copy'[i].failed = copy[i].failed,
         Called(c, copy'[g], g, e), UNCHANGED <<spent, lostAnswers, outside>>
  PROVE  QueueInv' /\ TokenInv'
<1>1. OthersStay(g)
  BY DEF OthersStay
<1>2. stored = "ok" => stored' = "ok"
  BY DEF Called, Migrated
<1>3. /\ copy[g].phase = "granted" => copy'[g].phase = "granted"
      /\ copy'[g].phase = "refused" => copy[g].phase = "refused"
      /\ copy'[g].failed = "refused" => copy[g].failed = "refused"
  BY DEF Called
<1>4. TokenInv'
  BY <1>2, <1>3, TokenStays
<1>5. CASE copy'[g].phase = copy[g].phase /\ queue' = queue
  BY <1>1, <1>4, <1>5, QueueStays
<1>6. CASE copy[g].phase \in {"off", "idle"} /\ copy'[g].phase = "queued" /\ queue' = Append(queue, g)
  BY <1>1, <1>4, <1>6, QueueJoined DEF Joining
<1>7. CASE copy[g].phase \in {"off", "idle"} /\ copy'[g].phase = "idle" /\ queue' = queue
  BY <1>1, <1>4, <1>7, QueueStays DEF Joining
<1> QED
  BY <1>5, <1>6, <1>7 DEF Called

LEMMA EnrolStep == EnrolInv /\ RuntimeNext => EnrolInv'
<1> SUFFICES ASSUME EnrolInv, RuntimeNext PROVE QueueInv' /\ TokenInv'
  BY ProducerStep DEF EnrolInv
<1> USE DEF EnrolInv
<1>1. \A i \in Copies : /\ copy[i] \in CopyType
                        /\ Stopped(copy[i]).phase = copy[i].phase
                        /\ Stopped(copy[i]).failed = copy[i].failed
  BY StoppedType DEF CopiesInv, Owned, SameWork
<1>2. ASSUME NEW g \in Copies, register(g) PROVE QueueInv' /\ TokenInv'
  <2>1. \A i \in Copies \ {g} : copy'[i].phase = copy[i].phase /\ copy'[i].failed = copy[i].failed
    BY <1>1, <1>2, Registers
  <2> QED
    BY <1>2, <2>1, Registers, CallKeeps
<1>3. ASSUME NEW g \in Copies, toolCall(g) PROVE QueueInv' /\ TokenInv'
  <2>1. \A i \in Copies \ {g} : copy'[i].phase = copy[i].phase /\ copy'[i].failed = copy[i].failed
    BY <1>1, <1>3, ToolCalls
  <2> QED
    BY <1>3, <2>1, ToolCalls, CallKeeps
<1>4. ASSUME NEW g \in Copies, NEW d, Proceeds(g, d)
      PROVE  /\ copy'[g] = d /\ OthersStay(g)
             /\ \A i \in Copies \ {g} : copy'[i] = copy[i]
  BY <1>4 DEF Proceeds, CopiesInv, Owned, OthersStay
<1>5. ASSUME NEW g \in Copies, enrollOrLoad(g) PROVE QueueInv' /\ TokenInv'
  <2>1. PICK d : /\ Proceeds(g, d) /\ NotRefused(g, d)
                 /\ copy[g].phase = "queued" /\ MyTurn(g)
                 /\ \/ d.phase = "asking" /\ queue' = queue
                    \/ d.phase \in {"boot", "idle"} /\ queue' = LeaveQueue
                 /\ UNCHANGED <<stored, spent, lostAnswers, outside>>
    BY <1>5, LoadStep
  <2>2. TokenInv'
    BY <1>4, <2>1, TokenStays DEF NotRefused
  <2>3. QueueInv'
    BY <1>4, <2>1, FirstHasAsked, QueueLeft, QueueStays DEF Joining
  <2> QED
    BY <2>2, <2>3
<1>6. ASSUME NEW g \in Copies, relayEnrolls(g) PROVE QueueInv' /\ TokenInv'
  <2>1. PICK d : /\ Proceeds(g, d) /\ NotRefused(g, d)
                 /\ copy[g].phase = "asking"
                 /\ \/ spent /\ d.phase = "refused" /\ queue' = LeaveQueue
                    \/ ~spent /\ d.phase = "granted" /\ queue' = queue
                 /\ UNCHANGED <<stored, lostAnswers, outside>>
    BY <1>6, RelayStep
  <2>2. queue # <<>> /\ queue[1] = g
    BY <2>1, FirstHasAsked
  <2>3. QueueInv'
    BY <1>4, <2>1, <2>2, QueueLeft, QueueStays DEF Joining
  <2>4. \A h \in Copies : copy[h].phase # "granted"
    BY <2>1, <2>2, FirstHasAsked
  <2>5. TokenInv'
    BY <1>4, <2>1, <2>4 DEF TokenInv, Excused, NotRefused
  <2> QED
    BY <2>3, <2>5
<1>7. ASSUME NEW g \in Copies, enrollAnswered(g) PROVE QueueInv' /\ TokenInv'
  <2>1. PICK d : /\ Proceeds(g, d) /\ NotRefused(g, d) /\ d.phase \in {"boot", "idle"}
                 /\ copy[g].phase = "granted" /\ stored' = "ok" /\ queue' = LeaveQueue
                 /\ UNCHANGED <<spent, lostAnswers, outside>>
    BY <1>7, AnswerStep
  <2>2. QueueInv'
    BY <1>4, <2>1, FirstHasAsked, QueueLeft DEF Joining
  <2>3. TokenInv'
    BY <1>4, <2>1 DEF TokenInv, Excused, NotRefused
  <2> QED
    BY <2>2, <2>3
<1>8. ASSUME NEW g \in Copies, enrollLost(g) PROVE QueueInv' /\ TokenInv'
  <2>1. PICK d : /\ Proceeds(g, d) /\ NotRefused(g, d) /\ d.phase = "idle"
                 /\ copy[g].phase \in {"asking", "granted"} /\ queue' = LeaveQueue
                 /\ lostAnswers' = lostAnswers + 1
                 /\ UNCHANGED <<stored, spent, outside>>
    BY <1>8, LostStep
  <2>2. QueueInv'
    BY <1>4, <2>1, FirstHasAsked, QueueLeft DEF Joining
  <2>3. TokenInv'
    BY <1>4, <2>1 DEF TokenInv, Excused, NotRefused
  <2> QED
    BY <2>2, <2>3
<1>9. ASSUME NEW g \in Copies, recheck(g) PROVE QueueInv' /\ TokenInv'
  <2>1. PICK d : /\ Proceeds(g, d) /\ d.phase \in {"boot", "idle"}
                 /\ stored = "ok" => NotRefused(g, d)
                 /\ copy[g].phase = "refused"
                 /\ UNCHANGED <<queue, stored, spent, lostAnswers, outside>>
    BY <1>9, RecheckStep
  <2>2. QueueInv'
    BY <1>4, <2>1, QueueStays DEF Joining
  <2>3. TokenInv'
    BY <1>4, <2>1 DEF TokenInv, Excused, NotRefused
  <2> QED
    BY <2>2, <2>3
<1>10. ASSUME NEW g \in Copies, UNCHANGED <<queue, stored, spent, lostAnswers, outside>>,
              \/ copy'[g].phase = copy[g].phase
              \/ copy[g].phase = "boot" /\ copy'[g].phase = "up",
              copy'[g].failed = copy[g].failed,
              \A i \in Copies \ {g} : copy'[i] = copy[i] \/ copy'[i] = Stopped(copy[i])
       PROVE  QueueInv' /\ TokenInv'
  <2>1. OthersStay(g) /\ \A i \in Copies \ {g} : copy'[i].failed = copy[i].failed
    BY <1>1, <1>10 DEF OthersStay
  <2>2. QueueInv'
    BY <1>10, <2>1, QueueStays DEF Joining
  <2>3. TokenInv'
    BY <1>10, <2>1, TokenStays DEF OthersStay
  <2> QED
    BY <2>2, <2>3
<1>11. ASSUME NEW g \in Copies, connected(g) PROVE QueueInv' /\ TokenInv'
  <2>1. copy'[g].failed = copy[g].failed
    BY <1>11, Connects DEF SameWork
  <2>2. UNCHANGED <<queue, stored, spent, lostAnswers, outside>>
    BY <1>11 DEF connected
  <2> QED
    BY <1>10, <1>11, <2>1, <2>2, Connects
<1>12. ASSUME NEW g \in Copies, drained(g) PROVE QueueInv' /\ TokenInv'
  BY <1>10, <1>12, Drains
<1>13. ASSUME NEW g \in Copies, NEW d, Rebinds(g, d) PROVE QueueInv' /\ TokenInv'
  <2>1. copy'[g] = d /\ \A i \in Copies \ {g} : copy'[i] = copy[i]
    BY <1>13 DEF Rebinds, CopiesInv, Owned
  <2> QED
    BY <1>10, <1>13, <2>1 DEF Rebinds
<1>14. ASSUME NEW g \in Copies, rebindAgain(g) \/ \E e \in Epochs : bindLoop(g, e)
       PROVE  QueueInv' /\ TokenInv'
  BY <1>13, <1>14, BindStep, AgainStep
<1>15. ASSUME NEW g \in Copies, NEW e \in Epochs, unload(g, e) PROVE QueueInv' /\ TokenInv'
  <2>1. CASE copy' = [copy EXCEPT ![g] = Stopped(@)]
    <3>1. copy'[g] = Stopped(copy[g]) /\ \A i \in Copies \ {g} : copy'[i] = copy[i]
      BY <2>1 DEF CopiesInv, Owned
    <3> QED
      BY <1>1, <1>10, <1>15, <3>1, UnloadStep
  <2> QED
    BY <1>13, <1>15, <2>1, UnloadStep
<1>16. CASE outsideEnrolls \/ outsideSaves
  BY <1>16 DEF outsideEnrolls, outsideSaves, QueueInv, TokenInv, Excused
<1> QED
  BY <1>2, <1>3, <1>5, <1>6, <1>7, <1>8, <1>9, <1>11, <1>12, <1>14, <1>15, <1>16 DEF RuntimeNext

LEMMA RuntimeBegins == ClientsInit => EnrolInv
<1> SUFFICES ASSUME ClientsInit PROVE EnrolInv
  OBVIOUS
<1>1. Unloaded \in CopyType /\ Wanted(Unloaded)
  BY DEF Unloaded, CopyType, CopyPhases, Wanted
<1>2. copy = [g \in Copies |-> Unloaded] /\ holder = 0 /\ queue = <<>> /\ ~spent /\ lostAnswers = 0
  BY DEF ClientsInit, RuntimeInit
<1>3. CopiesInv
  BY <1>1, <1>2, RuntimeAssumption DEF CopiesInv, Owned, Unloaded, Copies
<1>4. QueueInv
  BY <1>2 DEF QueueInv, Unloaded, Joining
<1>5. TokenInv
  BY <1>2 DEF TokenInv, Unloaded
<1> QED
  BY <1>3, <1>4, <1>5 DEF EnrolInv

\* Any number of copies, registrations and lost answers: one copy produces, the newest
\* one connected and wanted, and no refused token goes unexplained.
THEOREM OneProducer == ClientsSpec => []RuntimeSound
<1>1. EnrolInv /\ UNCHANGED runtimeVars => EnrolInv'
  BY DEF EnrolInv, CopiesInv, QueueInv, TokenInv, Excused, runtimeVars
<1>2. EnrolInv => RuntimeSound
  BY DEF EnrolInv, CopiesInv, Owned, Wanted, TokenInv, Excused, RuntimeSound, SingleProducer, RefusedOnlyIfLost
<1> QED
  BY <1>1, <1>2, RuntimeBegins, EnrolStep, Frames, PTL DEF ClientsSpec

-----------------------------------------------------------------------------
(* The MCP connector's OAuth server *)

Token == [kind : {"access", "refresh"}, client : OClients, grant : Grants, n : Nat]
Registry == [clients : Seq(OClients), tokens : SUBSET Token]
Consents == [Grants -> [st : {"none", "open", "code", "spent"}, client : OClients \cup {0}]]

Unforked(s) ==
  /\ \A i, j \in DOMAIN s.clients : s.clients[i] = s.clients[j] => i = j
  /\ \A t \in s.tokens : Registered(s, t.client)
  /\ \A t, u \in Refreshes(s) : t.grant = u.grant => t = u

\* A grant that has tokens, in memory or on disk, has used its code up.
OAuthInv ==
  /\ oauth \in Registry /\ oauthFile \in Registry /\ pairs \in Nat
  /\ Unforked(oauth) /\ Unforked(oauthFile)
  /\ consent \in Consents
  /\ \A t \in oauth.tokens \cup oauthFile.tokens : consent[t.grant].st = "spent"

LEMMA TrimKeeps ==
  ASSUME NEW s \in Registry, Unforked(s)
  PROVE  Trimmed(s) \in Registry /\ Unforked(Trimmed(s)) /\ Trimmed(s).tokens \subseteq s.tokens
<1>1. PICK T : T = {t \in s.tokens : Cardinality({u \in s.tokens : IssuedAfter(u, t)}) < MaxTokens}
  OBVIOUS
<1>2. Trimmed(s) = [s EXCEPT !.tokens = T]
  BY <1>1 DEF Trimmed
<1>3. T \subseteq s.tokens
  BY <1>1
<1>4. Trimmed(s) \in Registry /\ Trimmed(s).clients = s.clients /\ Trimmed(s).tokens = T
  BY <1>2, <1>3 DEF Registry
<1> QED
  BY <1>3, <1>4 DEF Unforked, Refreshes, Registered

LEMMA PersistKeeps ==
  ASSUME OAuthInv, NEW s \in Registry, Unforked(s), NEW written \in BOOLEAN, persist(s, written),
         pairs' \in Nat,
         consent' \in Consents,
         \A t \in s.tokens \cup oauthFile.tokens : consent'[t.grant].st = "spent"
  PROVE  OAuthInv'
<1>1. PICK T \in Registry : T = Trimmed(s) /\ Unforked(T) /\ T.tokens \subseteq s.tokens
  BY TrimKeeps
<1>2. oauth' = T /\ oauthFile' \in {T, oauthFile}
  BY <1>1 DEF persist
<1>3. Unforked(oauth)' /\ Unforked(oauthFile)'
  BY <1>1, <1>2 DEF OAuthInv, Unforked, Refreshes, Registered
<1> QED
  BY <1>1, <1>2, <1>3 DEF OAuthInv

LEMMA AppendKeeps ==
  ASSUME NEW s \in Registry, Unforked(s), NEW c \in OClients, ~Registered(s, c)
  PROVE  LET r == [s EXCEPT !.clients = Append(@, c)] IN
         r \in Registry /\ Unforked(r) /\ r.tokens = s.tokens
<1>1. PICK n \in Nat : n = Len(s.clients) /\ DOMAIN s.clients = 1..n
  BY DEF Registry
<1>2. PICK C : C = Append(s.clients, c)
  OBVIOUS
<1>3. C \in Seq(OClients) /\ DOMAIN C = 1..(n + 1) /\ C[n + 1] = c /\ \A i \in 1..n : C[i] = s.clients[i]
  BY <1>1, <1>2 DEF Registry
<1>4. PICK r : r = [s EXCEPT !.clients = C]
  OBVIOUS
<1>5. r \in Registry /\ r.clients = C /\ r.tokens = s.tokens
  BY <1>3, <1>4 DEF Registry
<1>6. \A i, j \in DOMAIN C : C[i] = C[j] => i = j
  BY <1>1, <1>3 DEF Unforked, Registered, Range
<1>7. \A t \in r.tokens : Registered(r, t.client)
  BY <1>1, <1>3, <1>5 DEF Unforked, Registered, Range
<1> QED
  BY <1>2, <1>4, <1>5, <1>6, <1>7 DEF Unforked, Refreshes

LEMMA RemoveAtIs ==
  ASSUME NEW S, NEW s \in Seq(S), NEW i \in 1..Len(s)
  PROVE  /\ RemoveAt(s, i) \in Seq(S) /\ Len(RemoveAt(s, i)) = Len(s) - 1
         /\ \A k \in 1..(Len(s) - 1) : RemoveAt(s, i)[k] = IF k < i THEN s[k] ELSE s[k + 1]
<1>1. PICK n \in Nat : n = Len(s)
  OBVIOUS
<1>2. i \in Int /\ 1 <= i /\ i <= n /\ \A k \in 1..n : s[k] \in S
  BY <1>1
<1>3. PICK A, B : A = SubSeq(s, 1, i - 1) /\ B = SubSeq(s, i + 1, n)
  OBVIOUS
<1>4. \A k \in 1..(i - 1) : s[k] \in S
  BY <1>2
<1>5. A \in Seq(S) /\ Len(A) = i - 1 /\ \A k \in 1..(i - 1) : A[k] = s[k]
  <2>1. 1 \in Int /\ i - 1 \in Int
    BY <1>2
  <2>2. /\ A \in Seq(S) /\ Len(A) = IF 1 <= i - 1 THEN i - 1 - 1 + 1 ELSE 0
        /\ \A k \in 1..(i - 1 - 1 + 1) : A[k] = s[1 + k - 1]
    BY ONLY <1>3, <1>4, <2>1, SubSeqProperties
  <2> QED
    BY <1>2, <2>2
<1>6. \A k \in (i + 1)..n : s[k] \in S
  BY <1>2
<1>7. B \in Seq(S) /\ Len(B) = n - i /\ \A k \in 1..(n - i) : B[k] = s[i + k]
  <2>1. i + 1 \in Int /\ n \in Int
    BY <1>1, <1>2
  <2>2. /\ B \in Seq(S) /\ Len(B) = IF i + 1 <= n THEN n - (i + 1) + 1 ELSE 0
        /\ \A k \in 1..(n - (i + 1) + 1) : B[k] = s[i + 1 + k - 1]
    BY ONLY <1>3, <1>6, <2>1, SubSeqProperties
  <2> QED
    BY <1>1, <1>2, <2>2
<1>8. PICK C : C = A \o B
  OBVIOUS
<1>9. /\ C \in Seq(S) /\ Len(C) = Len(A) + Len(B)
      /\ \A k \in 1..(Len(A) + Len(B)) : C[k] = IF k <= Len(A) THEN A[k] ELSE B[k - Len(A)]
  BY ONLY <1>5, <1>7, <1>8, ConcatProperties
<1>10. ASSUME NEW k \in 1..(n - 1) PROVE C[k] = IF k < i THEN s[k] ELSE s[k + 1]
  <2>1. k \in 1..(Len(A) + Len(B))
    BY <1>1, <1>2, <1>5, <1>7
  <2>2. CASE k < i
    BY <1>2, <1>5, <1>9, <2>1, <2>2
  <2>3. CASE k >= i
    <3>1. C[k] = B[k - (i - 1)] /\ k - (i - 1) \in 1..(n - i)
      BY <1>1, <1>2, <1>5, <1>9, <2>1, <2>3
    <3>2. B[k - (i - 1)] = s[i + (k - (i - 1))] /\ i + (k - (i - 1)) = k + 1
      BY <1>1, <1>2, <1>7, <3>1
    <3> QED
      BY <2>3, <3>1, <3>2
  <2> QED
    BY <1>2, <2>2, <2>3
<1>11. RemoveAt(s, i) = C
  BY <1>1, <1>3, <1>8 DEF RemoveAt
<1> QED
  BY <1>1, <1>2, <1>5, <1>7, <1>9, <1>10, <1>11

LEMMA RemoveKeeps ==
  ASSUME NEW s \in Registry, Unforked(s), NEW i \in DOMAIN s.clients
  PROVE  /\ removeClientAt(s, i) \in Registry /\ Unforked(removeClientAt(s, i))
         /\ removeClientAt(s, i).tokens \subseteq s.tokens
         /\ Range(removeClientAt(s, i).clients) \subseteq Range(s.clients)
<1>1. PICK D \in Seq(OClients) : D = s.clients
  BY DEF Registry
<1>2. PICK n \in Nat : n = Len(D) /\ DOMAIN D = 1..n /\ i \in 1..n
  BY <1>1
<1>3. PICK C : C = RemoveAt(D, i)
  OBVIOUS
<1>4. C \in Seq(OClients) /\ Len(C) = n - 1 /\ \A k \in 1..(n - 1) : C[k] = IF k < i THEN D[k] ELSE D[k + 1]
  BY <1>2, <1>3, RemoveAtIs
<1>5. DOMAIN C = 1..(n - 1)
  BY <1>4
<1>6. PICK T : T = {t \in s.tokens : t.client # D[i]}
  OBVIOUS
<1>7. removeClientAt(s, i) = [clients |-> C, tokens |-> T]
  BY <1>1, <1>3, <1>6 DEF removeClientAt
<1>8. /\ removeClientAt(s, i) \in Registry
      /\ removeClientAt(s, i).clients = C /\ removeClientAt(s, i).tokens = T
  BY <1>4, <1>6, <1>7 DEF Registry
<1>9. \A j, k \in 1..n : D[j] = D[k] => j = k
  BY <1>1, <1>2 DEF Unforked
<1>10. ASSUME NEW j \in 1..(n - 1), NEW k \in 1..(n - 1), C[j] = C[k] PROVE j = k
  <2>1. PICK a \in 1..n : C[j] = D[a] /\ a = IF j < i THEN j ELSE j + 1
    BY <1>2, <1>4
  <2>2. PICK b \in 1..n : C[k] = D[b] /\ b = IF k < i THEN k ELSE k + 1
    BY <1>2, <1>4
  <2>3. a = b
    BY <1>9, <1>10, <2>1, <2>2
  <2> QED
    BY <1>2, <2>1, <2>2, <2>3
<1>11. ASSUME NEW j \in 1..n, j # i PROVE D[j] \in Range(C)
  <2>1. CASE j < i
    <3>1. j \in 1..(n - 1) /\ C[j] = D[j]
      BY <1>2, <1>4, <2>1
    <3> QED
      BY <1>5, <3>1 DEF Range
  <2>2. CASE j > i
    <3>1. j - 1 \in 1..(n - 1) /\ ~(j - 1 < i) /\ (j - 1) + 1 = j
      BY <1>2, <2>2
    <3>2. C[j - 1] = D[j]
      BY <1>4, <3>1
    <3> QED
      BY <1>5, <3>1, <3>2 DEF Range
  <2> QED
    BY <1>2, <1>11, <2>1, <2>2
<1>12. \A t \in T : t.client \in Range(C)
  BY <1>1, <1>2, <1>6, <1>11 DEF Unforked, Registered, Range
<1>13. ASSUME NEW k \in 1..(n - 1) PROVE C[k] \in Range(D)
  <2>1. PICK a \in 1..n : C[k] = D[a]
    BY <1>2, <1>4
  <2> QED
    BY <1>2, <2>1 DEF Range
<1>14. Range(C) \subseteq Range(D)
  BY <1>5, <1>13 DEF Range
<1> QED
  BY <1>1, <1>5, <1>6, <1>8, <1>10, <1>12, <1>14 DEF Unforked, Refreshes, Registered

\* A new pair for a grant that has no refresh token left.
LEMMA IssueKeeps ==
  ASSUME OAuthInv, NEW s \in Registry, Unforked(s), s.tokens \subseteq oauth.tokens,
         NEW g \in Grants, NEW c \in OClients, NEW written \in BOOLEAN, NEW reaches \in BOOLEAN,
         Registered(s, c), \A t \in Refreshes(s) : t.grant # g,
         issueTokens(s, g, c, written, reaches),
         consent' \in Consents, consent'[g].st = "spent",
         \A h \in Grants : consent[h].st = "spent" => consent'[h].st = "spent"
  PROVE  OAuthInv'
<1>1. PICK a \in Token, r \in Token :
        /\ a = [kind |-> "access", client |-> c, grant |-> g, n |-> pairs]
        /\ r = [kind |-> "refresh", client |-> c, grant |-> g, n |-> pairs]
  BY DEF OAuthInv, Token
<1>2. PICK q : q = [s EXCEPT !.tokens = s.tokens \cup {a, r}]
  OBVIOUS
<1>3. q \in Registry /\ q.clients = s.clients /\ q.tokens = s.tokens \cup {a, r}
  BY <1>1, <1>2 DEF Registry
<1>4. persist(q, written) /\ pairs' \in Nat
  BY <1>1, <1>2 DEF issueTokens, OAuthInv
<1>5. \A t \in q.tokens : Registered(q, t.client)
  BY <1>1, <1>3 DEF Unforked, Registered
<1>6. ASSUME NEW t \in Refreshes(q), NEW u \in Refreshes(q), t.grant = u.grant PROVE t = u
  <2>1. t \in Refreshes(s) \cup {r} /\ u \in Refreshes(s) \cup {r}
    BY <1>1, <1>3 DEF Refreshes
  <2>2. r.grant = g
    BY <1>1
  <2> QED
    BY <1>6, <2>1, <2>2 DEF Unforked
<1>7. Unforked(q)
  BY <1>3, <1>5, <1>6 DEF Unforked
<1>8. \A t \in oauth.tokens \cup oauthFile.tokens : t.grant \in Grants /\ consent'[t.grant].st = "spent"
  BY DEF OAuthInv, Registry, Token
<1>9. \A t \in q.tokens \cup oauthFile.tokens : consent'[t.grant].st = "spent"
  BY <1>1, <1>3, <1>8
<1> QED
  BY <1>3, <1>4, <1>7, <1>9, PersistKeeps DEF Consents

LEMMA ConsentKeeps ==
  ASSUME OAuthInv, UNCHANGED <<oauthFile, pairs>>, oauth' \in {oauth, oauthFile}, consent' \in Consents,
         \A h \in Grants : consent[h].st = "spent" => consent'[h].st = "spent"
  PROVE  OAuthInv'
<1>1. \A t \in oauth.tokens \cup oauthFile.tokens : t.grant \in Grants /\ consent'[t.grant].st = "spent"
  BY DEF OAuthInv, Registry, Token
<1>2. oauth' \in Registry /\ oauthFile' \in Registry /\ pairs' \in Nat
  BY DEF OAuthInv
<1>3. Unforked(oauth)' /\ Unforked(oauthFile)'
  BY DEF OAuthInv, Unforked, Refreshes, Registered
<1> QED
  BY <1>1, <1>2, <1>3 DEF OAuthInv, Consents

LEMMA DropKeeps ==
  ASSUME NEW s \in Registry, Unforked(s), NEW D
  PROVE  LET r == [s EXCEPT !.tokens = @ \ D] IN
         r \in Registry /\ Unforked(r) /\ r.clients = s.clients /\ r.tokens = s.tokens \ D
<1>1. PICK r : r = [s EXCEPT !.tokens = @ \ D]
  OBVIOUS
<1>2. r \in Registry /\ r.clients = s.clients /\ r.tokens = s.tokens \ D
  BY <1>1 DEF Registry
<1>3. Unforked(r)
  BY <1>2 DEF Unforked, Refreshes, Registered
<1> QED
  BY <1>1, <1>2, <1>3

LEMMA OAuthStep ==
  ASSUME OAuthInv, OAuthNext \/ UNCHANGED oauthVars
  PROVE  OAuthInv'
<1>1. ASSUME NEW c \in OClients, NEW written \in BOOLEAN, registerClient(c, written) PROVE OAuthInv'
  <2>1. ~Registered(oauth, c) /\ UNCHANGED <<consent, pairs>>
    BY <1>1 DEF registerClient
  <2>2. CASE persist([oauth EXCEPT !.clients = Append(@, c)], written)
    <3>1. PICK r \in Registry : /\ r = [oauth EXCEPT !.clients = Append(@, c)]
                                /\ Unforked(r) /\ r.tokens = oauth.tokens
      BY <2>1, AppendKeeps DEF OAuthInv
    <3> QED
      BY <2>1, <2>2, <3>1, PersistKeeps DEF OAuthInv
  <2>3. ASSUME NEW i \in DOMAIN oauth.clients,
               persist([removeClientAt(oauth, i) EXCEPT !.clients = Append(@, c)], written)
        PROVE  OAuthInv'
    <3>1. PICK q \in Registry : /\ q = removeClientAt(oauth, i) /\ Unforked(q)
                                /\ q.tokens \subseteq oauth.tokens /\ Range(q.clients) \subseteq Range(oauth.clients)
      BY RemoveKeeps DEF OAuthInv
    <3>2. ~Registered(q, c)
      BY <2>1, <3>1 DEF Registered
    <3>3. PICK r \in Registry : /\ r = [q EXCEPT !.clients = Append(@, c)]
                                /\ Unforked(r) /\ r.tokens = q.tokens
      BY <3>1, <3>2, AppendKeeps
    <3> QED
      BY <2>1, <2>3, <3>1, <3>3, PersistKeeps DEF OAuthInv
  <2> QED
    BY <1>1, <2>2, <2>3 DEF registerClient
<1>2. ASSUME NEW g \in Grants, NEW c \in OClients, beginConsent(g, c) PROVE OAuthInv'
  BY <1>2, ConsentKeeps DEF beginConsent, OAuthInv, Consents
<1>3. ASSUME NEW g \in Grants, completeConsent(g) PROVE OAuthInv'
  BY <1>3, ConsentKeeps DEF completeConsent, OAuthInv, Consents
<1>4. ASSUME NEW g \in Grants, consentExpires(g) PROVE OAuthInv'
  BY <1>4, ConsentKeeps DEF consentExpires, OAuthInv, Consents
<1>5. ASSUME NEW g \in Grants, NEW c \in OClients, NEW proof \in BOOLEAN, NEW written \in BOOLEAN,
             NEW reaches \in BOOLEAN, tokenFromCode(g, c, proof, written, reaches)
      PROVE  OAuthInv'
  <2>1. /\ Registered(oauth, c) /\ consent[g].st = "code"
        /\ consent' = [consent EXCEPT ![g].st = "spent"]
        /\ \/ issueTokens(oauth, g, c, written, reaches)
           \/ UNCHANGED <<oauth, oauthFile, pairs, handed>>
    BY <1>5 DEF tokenFromCode, Spent
  <2>2. /\ consent' \in Consents /\ consent'[g].st = "spent"
        /\ \A h \in Grants : consent[h].st = "spent" => consent'[h].st = "spent"
    BY <2>1 DEF OAuthInv, Consents
  <2>3. \A t \in Refreshes(oauth) : t.grant # g
    BY <2>1 DEF OAuthInv, Refreshes
  <2>4. oauth \in Registry /\ Unforked(oauth) /\ oauth.tokens \subseteq oauth.tokens
    BY DEF OAuthInv
  <2>5. CASE issueTokens(oauth, g, c, written, reaches)
    BY <2>1, <2>2, <2>3, <2>4, <2>5, IssueKeeps
  <2>6. CASE UNCHANGED <<oauth, oauthFile, pairs, handed>>
    BY <2>2, <2>6, ConsentKeeps
  <2> QED
    BY <2>1, <2>5, <2>6
<1>6. ASSUME NEW t \in handed, NEW c \in OClients, NEW written \in BOOLEAN, NEW reaches \in BOOLEAN,
             tokenFromRefresh(t, c, written, reaches)
      PROVE  OAuthInv'
  <2>1. /\ Registered(oauth, c) /\ t \in Refreshes(oauth) /\ UNCHANGED consent
        /\ issueTokens([oauth EXCEPT !.tokens = @ \ {t}], t.grant, c, written, reaches)
    BY <1>6 DEF tokenFromRefresh
  <2>2. t \in Token /\ t.grant \in Grants /\ consent[t.grant].st = "spent"
    BY <2>1 DEF OAuthInv, Registry, Refreshes, Token
  <2>3. PICK s \in Registry : /\ s = [oauth EXCEPT !.tokens = @ \ {t}]
                              /\ Unforked(s) /\ s.clients = oauth.clients /\ s.tokens = oauth.tokens \ {t}
    BY DropKeeps DEF OAuthInv
  <2>4. Registered(s, c) /\ \A u \in Refreshes(s) : u.grant # t.grant
    BY <2>1, <2>3 DEF OAuthInv, Unforked, Refreshes, Registered
  <2>5. consent' \in Consents /\ issueTokens(s, t.grant, c, written, reaches)
    BY <2>1, <2>3 DEF OAuthInv, Consents
  <2> QED
    BY <2>1, <2>2, <2>3, <2>4, <2>5, IssueKeeps
<1>7. ASSUME NEW t \in oauth.tokens, tokenExpires(t) PROVE OAuthInv'
  <2>1. /\ oauth' \in Registry /\ Unforked(oauth') /\ oauth'.tokens \subseteq oauth.tokens
        /\ oauthFile' \in Registry /\ Unforked(oauthFile') /\ oauthFile'.tokens \subseteq oauthFile.tokens
    <3>1. PICK r \in Registry : /\ r = [oauth EXCEPT !.tokens = @ \ {t}]
                                /\ Unforked(r) /\ r.tokens = oauth.tokens \ {t}
      BY DropKeeps DEF OAuthInv
    <3>2. PICK q \in Registry : /\ q = [oauthFile EXCEPT !.tokens = @ \ {t}]
                                /\ Unforked(q) /\ q.tokens = oauthFile.tokens \ {t}
      BY DropKeeps DEF OAuthInv
    <3>3. oauth' = r /\ oauthFile' = q
      BY <1>7, <3>1, <3>2 DEF tokenExpires
    <3> QED
      BY <3>1, <3>2, <3>3
  <2>2. consent' = consent /\ pairs' = pairs
    BY <1>7 DEF tokenExpires
  <2> QED
    BY <2>1, <2>2 DEF OAuthInv, Unforked, Refreshes, Registered
<1>8. CASE oauthRestarts
  <2>1. consent' \in Consents /\ \A h \in Grants : consent[h].st = "spent" => consent'[h].st = "spent"
    BY <1>8 DEF oauthRestarts, OAuthInv, Consents
  <2> QED
    BY <1>8, <2>1, ConsentKeeps DEF oauthRestarts
<1>9. CASE UNCHANGED oauthVars
  BY <1>9, ConsentKeeps DEF oauthVars, OAuthInv, Consents
<1> QED
  BY <1>1, <1>2, <1>3, <1>4, <1>5, <1>6, <1>7, <1>8, <1>9 DEF OAuthNext

\* One consent, one line of refresh tokens, whatever is presented, lost,
\* trimmed or restarted (GrantUnforked).
THEOREM GrantsStayUnforked == ClientsSpec => []GrantUnforked
<1>1. ClientsInit => OAuthInv
  <2>1. SUFFICES ASSUME ClientsInit PROVE OAuthInv
    OBVIOUS
  <2>2. /\ oauth = [clients |-> <<>>, tokens |-> {}] /\ oauthFile = oauth /\ pairs = 0
        /\ consent = [g \in Grants |-> [st |-> "none", client |-> 0]]
    BY <2>1 DEF ClientsInit, OAuthInit
  <2>3. oauth \in Registry /\ oauth.tokens = {} /\ DOMAIN oauth.clients = {}
    BY <2>2 DEF Registry
  <2> QED
    BY <2>2, <2>3 DEF OAuthInv, Consents, Unforked, Refreshes
<1>2. OAuthInv => GrantUnforked
  <2>1. SUFFICES ASSUME OAuthInv, NEW g \in Grants
                 PROVE  Cardinality({t \in Refreshes(oauth) : t.grant = g}) <= 1
    BY DEF OAuthInv, Unforked, GrantUnforked
  <2>2. PICK S : S = {t \in Refreshes(oauth) : t.grant = g}
    OBVIOUS
  <2>3. S = {} \/ \E t \in S : S = {t}
    BY <2>1, <2>2 DEF OAuthInv, Unforked
  <2>4. Cardinality(S) = 0 \/ Cardinality(S) = 1
    BY <2>3, FS_EmptySet, FS_Singleton
  <2> QED
    BY <2>2, <2>4
<1> QED
  BY <1>1, <1>2, OAuthStep, Frames, PTL DEF ClientsSpec

-----------------------------------------------------------------------------
(* The Hermes loop *)

\* What was chosen had never been seen before, a conversation has one stash and
\* that holds its own messages, the tick's messages wait only for its plan, and
\* stashes are covered only while the child that was given them runs. What is
\* planned, stashed or in a deferred turn has not been dead-lettered, and the
\* inbox delivers what was judged before only when it was not acknowledged.
HermesInv ==
  /\ turned \in [HMsgs -> Nat] /\ redone \in [HMsgs -> Nat]
  /\ hinbox \subseteq HMsgs /\ seen \subseteq HMsgs
  /\ chosen \subseteq seen /\ kept \subseteq chosen /\ Held(stash) \subseteq chosen
  /\ hphase # "planning" => kept = {}
  /\ hphase # "turn" => cover = {}
  /\ \A e, d \in stash : e.conv = d.conv => e = d
  /\ \A e \in stash : {"conv", "msgs"} \subseteq DOMAIN e /\ \A m \in e.msgs : m.conv = e.conv
  /\ \A m \in HMsgs \ chosen : turned[m] = 0 /\ redone[m] = 0 /\ m \notin deadLettered \cup unspawned
  /\ \A m \in kept : m \notin Held(stash)
  /\ \A m \in kept \cup Held(stash) : m \notin deadLettered \cup unspawned
  /\ hphase \in {"expired turn", "retry turn"} => turn \subseteq chosen /\ turn \cap (deadLettered \cup Held(stash)) = {}
  /\ HermesOneFate
  /\ HermesOneVerdict /\ hinbox \cap (seen \cup denied) \subseteq again

LEMMA HeldIs == \A st, m : m \in Held(st) <=> \E e \in st : m \in e.msgs
  BY DEF Held

\* What a plan leaves in the stash: one entry a conversation, of messages it
\* held before or, where the floor was refused, of this tick.
LEMMA PlanKeeps ==
  ASSUME HermesInv, NEW held
  PROVE  /\ \A e, d \in StashPlan(held) : e.conv = d.conv => e = d
         /\ \A e \in StashPlan(held) :
              /\ {"conv", "msgs"} \subseteq DOMAIN e
              /\ \A m \in e.msgs : m.conv = e.conv /\ (m \in Held(stash) \/ (m \in kept /\ m.conv \in held))
<1> DEFINE made == {Merged(held, c) : c \in held}
           grown == ClearDeferred(held, stash) \cup made
<1>1. StashPlan(held) \subseteq grown
  BY DEF StashPlan
<1>2. ASSUME NEW c \in held
      PROVE  LET e == Merged(held, c)
             IN  /\ e.conv = c /\ {"conv", "msgs"} \subseteq DOMAIN e
                 /\ \A m \in e.msgs : m.conv = c /\ (m \in Held(stash) \/ (m \in kept /\ m.conv \in held))
  <2>1. Merged(held, c).conv = c /\ {"conv", "msgs"} \subseteq DOMAIN Merged(held, c)
    BY DEF Merged
  <2>2. Merged(held, c).msgs \subseteq Held(Existing(held, c)) \cup {m \in kept : m.conv = c}
    BY DEF Merged, NewestHeld
  <2>3. \A m \in Held(Existing(held, c)) : m \in Held(stash) /\ m.conv = c
    <3> SUFFICES ASSUME NEW m \in Held(Existing(held, c)) PROVE m \in Held(stash) /\ m.conv = c
      OBVIOUS
    <3>1. PICK e \in Existing(held, c) : m \in e.msgs
      BY HeldIs
    <3>2. e \in stash /\ e.conv = c
      BY DEF Existing
    <3> QED
      BY <3>1, <3>2, HeldIs DEF HermesInv
  <2> QED
    BY <2>1, <2>2, <2>3
<1>3. ASSUME NEW e \in ClearDeferred(held, stash)
      PROVE  /\ e \in stash /\ e.conv \notin held
             /\ \A m \in e.msgs : m \in Held(stash)
  BY HeldIs DEF ClearDeferred
<1>4. \A e \in made : \E c \in held : e = Merged(held, c)
  OBVIOUS
<1>0. /\ \A e, d \in stash : e.conv = d.conv => e = d
      /\ \A e \in stash : {"conv", "msgs"} \subseteq DOMAIN e /\ \A m \in e.msgs : m.conv = e.conv
  BY DEF HermesInv
<1> HIDE DEF made
<1>5. \A e, d \in grown : e.conv = d.conv => e = d
  BY <1>0, <1>2, <1>3, <1>4
<1>6. \A e \in grown :
        /\ {"conv", "msgs"} \subseteq DOMAIN e
        /\ \A m \in e.msgs : m.conv = e.conv /\ (m \in Held(stash) \/ (m \in kept /\ m.conv \in held))
  BY <1>0, <1>2, <1>3, <1>4
<1> QED
  BY <1>1, <1>5, <1>6

\* The accounting reads these variables only.
LEMMA FatesFrame ==
  ASSUME HermesInv,
         UNCHANGED <<seen, kept, stash, turn, cover, chosen, turned, redone, deadLettered, unspawned>>,
         hphase' = hphase \/ (hphase \notin {"turn", "planning"} /\ hphase' = "waiting"),
         hinbox' \subseteq HMsgs, HermesOneVerdict', hinbox' \cap (seen' \cup denied') \subseteq again'
  PROVE  HermesInv'
<1>1. Held(stash)' = Held(stash) /\ Held(ClearDeferred(cover, stash))' = Held(ClearDeferred(cover, stash))
  BY DEF Held, ClearDeferred
<1>2. HermesOneFate'
  <2>1. ASSUME NEW m PROVE Fates(m)' = Fates(m)
    BY <1>1 DEF Fates
  <2> QED
    BY <2>1 DEF HermesInv, HermesOneFate
<1> QED
  BY <1>1, <1>2 DEF HermesInv

LEMMA ArriveStep ==
  ASSUME HermesInv, NEW m \in HMsgs, arrives(m) PROVE HermesInv'
<1>1. /\ UNCHANGED <<seen, kept, stash, turn, cover, chosen, turned, redone, deadLettered, unspawned>>
      /\ UNCHANGED <<hphase, denied, again>>
      /\ hinbox' = hinbox \cup {m} /\ m \notin seen \cup denied
  BY DEF arrives
<1>2. /\ hinbox' \subseteq HMsgs /\ HermesOneVerdict' /\ hinbox' \cap (seen' \cup denied') \subseteq again'
  BY <1>1 DEF HermesInv, HermesOneVerdict
<1> QED
  BY <1>1, <1>2, FatesFrame

LEMMA HermesPolls ==
  ASSUME HermesInv, NEW b, NEW checking \in BOOLEAN, NEW bad \in SUBSET hinbox,
         NEW real \in SUBSET hinbox, NEW passed, NEW refreshed, NEW ackOk \in BOOLEAN,
         poll(b, checking, bad, real, passed, refreshed, ackOk)
  PROVE  HermesInv'
<1> DEFINE left == ResetLatches(Reopened(b, real, refreshed))
           ks == KeptOf(passed, b, left)
<1>1. ks \subseteq real /\ real \cap seen = {} /\ real \cap bad = {} /\ real \subseteq HMsgs
  BY DEF KeptOf, poll, RateGate, RealInbound, HermesInv
<1> HIDE DEF ks
<1>2. /\ kept' = ks /\ chosen' = chosen \cup ks /\ seen' = seen \cup real
      /\ hinbox' \subseteq hinbox /\ kept = {} /\ cover = {}
      /\ denied' = denied \cup bad
      /\ UNCHANGED <<stash, turn, cover, turned, redone, deadLettered, unspawned>>
      /\ hphase' = IF real = {} THEN "service" ELSE "planning"
  BY DEF ks, poll, markSeen, ack, HermesInv
<1>3. Held(stash)' = Held(stash) /\ Held(ClearDeferred(cover, stash))' = Held(ClearDeferred(cover, stash))
  BY <1>2 DEF Held, ClearDeferred
<1>4. Held(ClearDeferred(cover, stash)) = Held(stash)
  BY <1>2 DEF Held, ClearDeferred
<1>5. HermesOneFate'
  <2> SUFFICES ASSUME NEW m \in chosen' PROVE Fates(m)' = 1 + redone'[m]
    BY DEF HermesOneFate
  <2>1. CASE m \in chosen
    BY <1>1, <1>2, <1>3, <2>1 DEF HermesInv, HermesOneFate, Fates
  <2>2. CASE m \in ks
    <3>1. m \in HMsgs /\ m \notin chosen
      BY <1>1, <2>2 DEF HermesInv
    <3>2. turned[m] = 0 /\ redone[m] = 0 /\ m \notin deadLettered \cup unspawned /\ m \notin Held(stash)
      BY <3>1 DEF HermesInv
    <3> QED
      BY <1>2, <1>3, <1>4, <2>2, <3>2 DEF Fates
  <2> QED
    BY <1>2, <2>1, <2>2
<1>6. again \subseteq again' /\ hinbox' \cap (seen' \cup denied') \subseteq again'
  BY DEF poll, ack
<1>7. HermesOneVerdict'
  <2>1. chosen \cap denied \subseteq again /\ hinbox \cap (seen \cup denied) \subseteq again /\ chosen \subseteq seen
    BY DEF HermesInv, HermesOneVerdict
  <2> QED
    BY <1>1, <1>2, <1>6, <2>1 DEF HermesOneVerdict
<1>8. \A m \in kept' : m \notin Held(stash) \cup deadLettered \cup unspawned
  BY <1>1, <1>2 DEF HermesInv
<1> QED
  BY <1>1, <1>2, <1>3, <1>5, <1>6, <1>7, <1>8 DEF HermesInv

LEMMA HermesPlans ==
  ASSUME HermesInv, NEW held, NEW spawns \in BOOLEAN, plan(held, spawns)
  PROVE  HermesInv'
<1> DEFINE after == StashPlan(held)
           floored == {m \in kept : m.conv \notin held}
           covers == {e.conv : e \in after} \cap {m.conv : m \in floored}
           given == floored \cup Held({e \in after : e.conv \in covers})
           gone == (Held(stash) \cup (kept \ floored)) \ Held(after)
<1>1. /\ \A e, d \in after : e.conv = d.conv => e = d
      /\ \A e \in after :
           /\ {"conv", "msgs"} \subseteq DOMAIN e
           /\ \A m \in e.msgs : m.conv = e.conv /\ (m \in Held(stash) \/ (m \in kept /\ m.conv \in held))
  BY PlanKeeps
<1>2. /\ deadLettered' = deadLettered \cup gone /\ kept' = {} /\ stash' = after
      /\ UNCHANGED <<hinbox, seen, chosen, redone, denied, again>>
  BY DEF plan, CoverKept, verdictVars
<1>3. IF floored # {} /\ spawns
      THEN /\ hphase' = "turn" /\ turn' = given /\ cover' = covers /\ unspawned' = unspawned
           /\ turned' = [m \in HMsgs |-> turned[m] + IF m \in given THEN 1 ELSE 0]
      ELSE /\ hphase' = "service" /\ unspawned' = unspawned \cup floored
           /\ UNCHANGED <<turn, cover, turned>>
  BY DEF plan, StartTurn
<1>4. cover = {} /\ hphase = "planning"
  BY DEF plan, HermesInv
<1>5. Held(ClearDeferred(cover, stash)) = Held(stash)
  BY <1>4 DEF Held, ClearDeferred
<1>6. Held(after) \subseteq Held(stash) \cup (kept \ floored)
  BY <1>1, HeldIs
<1>7. \A m \in Held(after) :
        /\ m \in Held({e \in after : e.conv \in covers}) <=> m.conv \in covers
        /\ m \in Held(ClearDeferred(covers, after)) <=> m.conv \notin covers
  <2> SUFFICES ASSUME NEW m \in Held(after)
               PROVE  /\ m \in Held({e \in after : e.conv \in covers}) <=> m.conv \in covers
                      /\ m \in Held(ClearDeferred(covers, after)) <=> m.conv \notin covers
    OBVIOUS
  <2> HIDE DEF covers
  <2>1. PICK e \in after : m \in e.msgs
    BY HeldIs
  <2>2. \A d \in after : m \in d.msgs => d.conv = m.conv
    BY <1>1
  <2>3. m \in Held({x \in after : x.conv \in covers}) <=> \E d \in {x \in after : x.conv \in covers} : m \in d.msgs
    BY HeldIs
  <2>4. m \in Held(ClearDeferred(covers, after)) <=> \E d \in after : d.conv \notin covers /\ m \in d.msgs
    BY HeldIs DEF ClearDeferred
  <2> QED
    BY <2>1, <2>2, <2>3, <2>4
<1>8. /\ Held({e \in after : e.conv \in covers}) \subseteq Held(after)
      /\ \A cs : Held(ClearDeferred(cs, after)) \subseteq Held(after)
  BY HeldIs DEF ClearDeferred
<1>9. /\ turned \in [HMsgs -> Nat] /\ redone \in [HMsgs -> Nat]
      /\ seen \subseteq HMsgs /\ chosen \subseteq seen /\ kept \subseteq chosen
      /\ Held(stash) \subseteq chosen
      /\ \A m \in HMsgs \ chosen : turned[m] = 0 /\ redone[m] = 0 /\ m \notin deadLettered \cup unspawned
      /\ \A m \in kept : m \notin Held(stash)
      /\ \A m \in kept \cup Held(stash) : m \notin deadLettered \cup unspawned
      /\ \A m \in chosen : Fates(m) = 1 + redone[m]
  BY DEF HermesInv, HermesOneFate
<1>10. floored \subseteq kept
  OBVIOUS
<1> HIDE DEF after, floored, covers
<1>11. given \subseteq chosen /\ gone \subseteq chosen /\ floored \subseteq chosen
  BY <1>6, <1>8, <1>9, <1>10
<1>12. ClearDeferred(cover, stash)' = ClearDeferred(cover', after)
  BY <1>2 DEF ClearDeferred
<1>13. Held(ClearDeferred(cover, stash))' = Held(ClearDeferred(cover', after))
  BY <1>12 DEF Held
<1>14. cover' = {} => Held(ClearDeferred(cover', after)) = Held(after)
  BY DEF Held, ClearDeferred
<1>15. HermesOneFate'
  <2> SUFFICES ASSUME NEW m \in chosen' PROVE Fates(m)' = 1 + redone'[m]
    BY DEF HermesOneFate
  <2>1. m \in chosen /\ m \in HMsgs
    BY <1>2, <1>9
  <2>2. /\ ~(m \in kept /\ m \in Held(stash))
        /\ m \in kept \cup Held(stash) => m \notin deadLettered \cup unspawned
    BY <1>9
  <2>3. turned[m] \in Nat /\ redone[m] \in Nat
    BY <1>9, <2>1
  <2>4. CASE floored # {} /\ spawns
    <3>1. /\ m \in given <=> (m \in floored \/ (m \in Held(after) /\ m.conv \in covers))
          /\ m \in Held(ClearDeferred(covers, after)) <=> (m \in Held(after) /\ m.conv \notin covers)
      BY <1>7, <1>8
    <3> QED
      BY <1>2, <1>3, <1>5, <1>6, <1>9, <1>10, <1>13, <2>1, <2>2, <2>3, <2>4, <3>1 DEF Fates
  <2>5. CASE ~(floored # {} /\ spawns)
    BY <1>2, <1>3, <1>4, <1>5, <1>6, <1>9, <1>10, <1>13, <1>14, <2>1, <2>2, <2>3, <2>5 DEF Fates
  <2> QED
    BY <2>4, <2>5
<1>16. turned' \in [HMsgs -> Nat] /\ (hphase' # "turn" => cover' = {})
  <2>1. [m \in HMsgs |-> turned[m] + IF m \in given THEN 1 ELSE 0] \in [HMsgs -> Nat]
    BY <1>9
  <2>2. CASE floored # {} /\ spawns
    BY <1>3, <2>1, <2>2
  <2>3. CASE ~(floored # {} /\ spawns)
    BY <1>3, <1>4, <1>9, <2>3
  <2> QED
    BY <2>2, <2>3
<1>17. Held(stash') \subseteq chosen'
  BY <1>2, <1>6, <1>9
<1>18. \A m \in HMsgs \ chosen' :
         turned'[m] = 0 /\ redone'[m] = 0 /\ m \notin deadLettered' \cup unspawned'
  <2> SUFFICES ASSUME NEW m \in HMsgs, m \notin chosen
               PROVE  turned'[m] = 0 /\ redone'[m] = 0 /\ m \notin deadLettered' \cup unspawned'
    BY <1>2
  <2>1. /\ turned[m] = 0 /\ redone[m] = 0 /\ m \notin deadLettered \cup unspawned
        /\ m \notin given /\ m \notin gone /\ m \notin floored
    BY <1>9, <1>11
  <2> QED
    BY <1>2, <1>3, <1>9, <2>1
<1>19. Held(stash)' = Held(stash')
  BY DEF Held
<1>20. \A m \in Held(stash') : m \notin deadLettered' \cup unspawned'
  BY <1>2, <1>3, <1>6, <1>9, <1>10
<1>21. HermesOneVerdict' /\ hinbox' \cap (seen' \cup denied') \subseteq again'
  BY <1>2 DEF HermesInv, HermesOneVerdict
<1>22. kept' = {} /\ hphase' \in {"turn", "service"}
  BY <1>2, <1>3
<1>23. hinbox' \subseteq HMsgs
  BY <1>2 DEF HermesInv
<1> QED
  BY <1>1, <1>2, <1>9, <1>15, <1>16, <1>17, <1>18, <1>19, <1>20, <1>21, <1>22, <1>23 DEF HermesInv, after

LEMMA HermesTurnEnds ==
  ASSUME HermesInv, NEW ok \in BOOLEAN, turnEnds(ok) PROVE HermesInv'
<1> DEFINE over == Held({e \in stash : e.conv \in cover})
<1>1. /\ cover' = {} /\ hphase = "turn" /\ hphase' = "service"
      /\ UNCHANGED <<hinbox, seen, denied, again, kept, chosen, turned, deadLettered, unspawned>>
      /\ stash' = IF ok THEN ClearDeferred(cover, stash) ELSE stash
      /\ redone' = IF ok THEN redone ELSE Redone(over)
  BY DEF turnEnds, verdictVars
<1>2. stash' \subseteq stash
  BY <1>1 DEF ClearDeferred
<1>3. Held(ClearDeferred(cover, stash))' = Held(stash')
  BY <1>1 DEF Held, ClearDeferred
<1>4. Held(stash') \subseteq Held(stash) /\ Held(stash)' = Held(stash')
  BY <1>2 DEF Held
<1>5. over \subseteq Held(stash)
  BY DEF Held
<1>6. \A m \in Held(stash) : m \in over <=> m \notin Held(ClearDeferred(cover, stash))
  <2> SUFFICES ASSUME NEW m \in Held(stash) PROVE m \in over <=> m \notin Held(ClearDeferred(cover, stash))
    OBVIOUS
  <2>1. \A d \in stash : m \in d.msgs => d.conv = m.conv
    BY DEF HermesInv
  <2>2. PICK e \in stash : m \in e.msgs
    BY HeldIs
  <2>3. m \in over <=> \E d \in stash : d.conv \in cover /\ m \in d.msgs
    BY HeldIs
  <2>4. m \in Held(ClearDeferred(cover, stash)) <=> \E d \in stash : d.conv \notin cover /\ m \in d.msgs
    BY HeldIs DEF ClearDeferred
  <2> QED
    BY <2>1, <2>2, <2>3, <2>4
<1>7. Held(ClearDeferred(cover, stash)) \subseteq Held(stash)
  BY DEF Held, ClearDeferred
<1> HIDE DEF over
<1>8. redone' \in [HMsgs -> Nat] /\ \A m \in HMsgs \ chosen : redone'[m] = 0
  BY <1>1, <1>5 DEF HermesInv, Redone
<1>9. HermesOneFate'
  <2> SUFFICES ASSUME NEW m \in chosen PROVE Fates(m)' = 1 + redone'[m]
    BY <1>1 DEF HermesOneFate
  <2>1. m \in HMsgs /\ turned[m] \in Nat /\ redone[m] \in Nat /\ Fates(m) = 1 + redone[m]
    BY DEF HermesInv, HermesOneFate
  <2>2. CASE ok
    BY <1>1, <1>3, <2>1, <2>2 DEF Fates
  <2>3. CASE ~ok
    <3>1. redone'[m] = redone[m] + IF m \in over THEN 1 ELSE 0
      BY <1>1, <2>1, <2>3 DEF Redone
    <3>2. m \in Held(stash') <=> m \in Held(ClearDeferred(cover, stash)) \/ m \in over
      BY <1>1, <1>5, <1>6, <1>7, <2>3
    <3>3. m \in over => m \notin Held(ClearDeferred(cover, stash))
      BY <1>5, <1>6
    <3> QED
      BY <1>1, <1>3, <2>1, <3>1, <3>2, <3>3 DEF Fates
  <2> QED
    BY <2>2, <2>3
<1>10. HermesOneVerdict' /\ hinbox' \cap (seen' \cup denied') \subseteq again'
  BY <1>1 DEF HermesInv, HermesOneVerdict
<1> QED
  BY <1>1, <1>2, <1>4, <1>8, <1>9, <1>10 DEF HermesInv

LEMMA HermesAges ==
  ASSUME HermesInv, NEW e \in stash, stashAges(e) PROVE HermesInv'
<1> DEFINE aged == [e EXCEPT !.late = TRUE]
<1>1. aged.conv = e.conv /\ aged.msgs = e.msgs /\ DOMAIN aged = DOMAIN e
  BY DEF HermesInv
<1>2. /\ stash' = (stash \ {e}) \cup {aged}
      /\ UNCHANGED <<hinbox, hphase, seen, denied, again, kept, turn, cover, chosen, turned, redone,
                     deadLettered, unspawned>>
  BY DEF stashAges, verdictVars
<1> HIDE DEF aged
<1>3. Held(stash)' = Held(stash)
  BY <1>1, <1>2 DEF Held
<1>4. Held(ClearDeferred(cover, stash))' = Held(ClearDeferred(cover, stash))
  <2>1. \A m : m \in Held(ClearDeferred(cover, stash))' <=> \E d \in stash' : d.conv \notin cover /\ m \in d.msgs
    BY <1>2 DEF Held, ClearDeferred
  <2>2. \A m : m \in Held(ClearDeferred(cover, stash)) <=> \E d \in stash : d.conv \notin cover /\ m \in d.msgs
    BY DEF Held, ClearDeferred
  <2> QED
    BY <1>1, <1>2, <2>1, <2>2
<1>5. HermesOneFate'
  BY <1>2, <1>4 DEF HermesInv, HermesOneFate, Fates
<1>6. HermesOneVerdict' /\ hinbox' \cap (seen' \cup denied') \subseteq again'
  BY <1>2 DEF HermesInv, HermesOneVerdict
<1>7. /\ \A a, d \in stash : a.conv = d.conv => a = d
      /\ \A d \in stash : {"conv", "msgs"} \subseteq DOMAIN d /\ \A m \in d.msgs : m.conv = d.conv
  BY DEF HermesInv
<1>8. /\ \A a, d \in stash' : a.conv = d.conv => a = d
      /\ \A d \in stash' : {"conv", "msgs"} \subseteq DOMAIN d /\ \A m \in d.msgs : m.conv = d.conv
  BY <1>1, <1>2, <1>7
<1> QED
  BY <1>2, <1>3, <1>5, <1>6, <1>8 DEF HermesInv

LEMMA DeferredKeeps ==
  ASSUME HermesInv, hphase \in {"service", "retry"}, hphase' # "turn", hphase' # "planning",
         NEW e \in stash, NEW spawns \in BOOLEAN, RunDeferred(e, spawns),
         spawns \/ hphase' \in {"retry", "waiting"}
  PROVE  HermesInv'
<1>1. /\ cover = {} /\ cover' = {} /\ kept = {} /\ stash' = ClearDeferred({e.conv}, stash)
      /\ UNCHANGED <<hinbox, seen, denied, again, kept, chosen, redone, unspawned>>
  BY DEF RunDeferred, HermesInv, verdictVars
<1>2. /\ turned \in [HMsgs -> Nat] /\ redone \in [HMsgs -> Nat] /\ seen \subseteq HMsgs /\ chosen \subseteq seen
      /\ Held(stash) \subseteq chosen
      /\ \A m \in HMsgs \ chosen : turned[m] = 0 /\ redone[m] = 0 /\ m \notin deadLettered \cup unspawned
      /\ \A m \in Held(stash) : m \notin deadLettered \cup unspawned
      /\ \A m \in chosen : Fates(m) = 1 + redone[m]
  BY DEF HermesInv, HermesOneFate
<1>3. Held(ClearDeferred(cover, stash)) = Held(stash) /\ Held(ClearDeferred(cover, stash))' = Held(stash')
  BY <1>1 DEF Held, ClearDeferred
<1>4. e.msgs \subseteq Held(stash)
  BY HeldIs
<1>5. \A m : m \in Held(stash') <=> m \in Held(stash) /\ m \notin e.msgs
  <2>1. \A d \in stash : d.conv = e.conv => d = e
    BY DEF HermesInv
  <2>2. \A d \in stash : \A m \in d.msgs : m.conv = d.conv
    BY DEF HermesInv
  <2>3. \A d : d \in stash' <=> d \in stash /\ d.conv # e.conv
    BY <1>1 DEF ClearDeferred
  <2> QED
    BY <2>1, <2>2, <2>3, HeldIs
<1>6. IF spawns
      THEN /\ turn' = e.msgs /\ UNCHANGED deadLettered
           /\ turned' = [m \in HMsgs |-> turned[m] + IF m \in e.msgs THEN 1 ELSE 0]
      ELSE deadLettered' = deadLettered \cup e.msgs /\ UNCHANGED turned
  BY DEF RunDeferred
<1>7. HermesOneFate'
  <2> SUFFICES ASSUME NEW m \in chosen PROVE Fates(m)' = 1 + redone'[m]
    BY <1>1 DEF HermesOneFate
  <2>1. /\ m \in HMsgs /\ turned[m] \in Nat /\ redone[m] \in Nat /\ Fates(m) = 1 + redone[m]
        /\ m \in Held(stash) => m \notin deadLettered \cup unspawned
    BY <1>2
  <2>2. /\ m \notin kept /\ m \notin kept'
        /\ m \in Held(ClearDeferred(cover, stash)) <=> m \in Held(stash)
        /\ m \in Held(ClearDeferred(cover, stash))' <=> m \in Held(stash) /\ m \notin e.msgs
        /\ m \in e.msgs => m \in Held(stash)
    BY <1>1, <1>3, <1>4, <1>5
  <2>3. CASE spawns
    <3>1. turned'[m] = turned[m] + (IF m \in e.msgs THEN 1 ELSE 0) /\ UNCHANGED deadLettered
      BY <1>6, <2>1, <2>3
    <3> QED
      BY <1>1, <2>1, <2>2, <3>1 DEF Fates
  <2>4. CASE ~spawns
    <3>1. deadLettered' = deadLettered \cup e.msgs /\ UNCHANGED turned
      BY <1>6, <2>4
    <3> QED
      BY <1>1, <2>1, <2>2, <3>1 DEF Fates
  <2> QED
    BY <2>3, <2>4
<1>8. turned' \in [HMsgs -> Nat]
  BY <1>2, <1>6
<1>9. \A m \in HMsgs \ chosen' :
        turned'[m] = 0 /\ redone'[m] = 0 /\ m \notin deadLettered' \cup unspawned'
  <2> SUFFICES ASSUME NEW m \in HMsgs, m \notin chosen
               PROVE  turned'[m] = 0 /\ redone'[m] = 0 /\ m \notin deadLettered' \cup unspawned'
    BY <1>1
  <2>1. m \notin e.msgs /\ turned[m] = 0 /\ redone[m] = 0 /\ m \notin deadLettered \cup unspawned
    BY <1>2, <1>4
  <2> QED
    BY <1>1, <1>2, <1>6, <2>1
<1>10. stash' \subseteq stash /\ Held(stash)' = Held(stash')
  BY <1>1 DEF ClearDeferred, Held
<1>11. hphase' \in {"expired turn", "retry turn"} => turn' \subseteq chosen' /\ turn' \cap (deadLettered' \cup Held(stash')) = {}
  BY <1>1, <1>2, <1>4, <1>5, <1>6
<1>12. \A m \in Held(stash') : m \notin deadLettered' \cup unspawned'
  BY <1>1, <1>2, <1>5, <1>6
<1>13. HermesOneVerdict' /\ hinbox' \cap (seen' \cup denied') \subseteq again' /\ hinbox' \subseteq HMsgs
  BY <1>1 DEF HermesInv, HermesOneVerdict
<1> QED
  BY <1>1, <1>2, <1>5, <1>7, <1>8, <1>9, <1>10, <1>11, <1>12, <1>13 DEF HermesInv

LEMMA HermesDeferredEnds ==
  ASSUME HermesInv, NEW ok \in BOOLEAN, deferredTurnEnds(ok) PROVE HermesInv'
<1>1. /\ hphase \in {"expired turn", "retry turn"} /\ hphase' \in {"waiting", "retry"}
      /\ UNCHANGED <<hinbox, seen, denied, again, kept, stash, cover, chosen, turned, unspawned>>
      /\ deadLettered' = IF ok THEN deadLettered ELSE deadLettered \cup turn
      /\ redone' = IF ok THEN redone ELSE Redone(turn)
  BY DEF deferredTurnEnds, verdictVars
<1>2. turn \subseteq chosen /\ turn \cap (deadLettered \cup Held(stash)) = {} /\ kept = {} /\ chosen \subseteq HMsgs
  BY <1>1 DEF HermesInv
<1>3. Held(stash)' = Held(stash) /\ Held(ClearDeferred(cover, stash))' = Held(ClearDeferred(cover, stash))
  BY <1>1 DEF Held, ClearDeferred
<1>4. redone' \in [HMsgs -> Nat] /\ \A m \in HMsgs \ chosen : redone'[m] = 0
  <2>1. redone \in [HMsgs -> Nat] /\ \A m \in HMsgs \ chosen : redone[m] = 0
    BY DEF HermesInv
  <2>2. Redone(turn) \in [HMsgs -> Nat] /\ \A m \in HMsgs \ chosen : Redone(turn)[m] = 0
    BY <1>2, <2>1 DEF Redone
  <2> QED
    BY <1>1, <2>1, <2>2
<1>5. HermesOneFate'
  <2> SUFFICES ASSUME NEW m \in chosen PROVE Fates(m)' = 1 + redone'[m]
    BY <1>1 DEF HermesOneFate
  <2>1. m \in HMsgs /\ turned[m] \in Nat /\ redone[m] \in Nat /\ Fates(m) = 1 + redone[m]
    BY DEF HermesInv, HermesOneFate
  <2>2. CASE ok
    BY <1>1, <1>3, <2>1, <2>2 DEF Fates
  <2>3. CASE ~ok
    <3>1. redone'[m] = redone[m] + IF m \in turn THEN 1 ELSE 0
      BY <1>1, <2>1, <2>3 DEF Redone
    <3>2. /\ m \in deadLettered' <=> m \in deadLettered \/ m \in turn
          /\ m \in turn => m \notin deadLettered
      BY <1>1, <1>2, <2>3
    <3>3. UNCHANGED <<kept, turned, unspawned>>
      BY <1>1
    <3> QED
      BY <1>3, <2>1, <3>1, <3>2, <3>3 DEF Fates
  <2> QED
    BY <2>2, <2>3
<1>6. HermesOneVerdict' /\ hinbox' \cap (seen' \cup denied') \subseteq again'
  BY <1>1 DEF HermesInv, HermesOneVerdict
<1>7. \A m \in Held(stash) : m \notin deadLettered' \cup unspawned'
  BY <1>1, <1>2 DEF HermesInv
<1> QED
  BY <1>1, <1>2, <1>3, <1>4, <1>5, <1>6, <1>7 DEF HermesInv

LEMMA HermesStep == HermesInv /\ HermesNext => HermesInv'
<1> SUFFICES ASSUME HermesInv, HermesNext PROVE HermesInv'
  OBVIOUS
<1>1. ASSUME NEW m \in HMsgs, arrives(m) PROVE HermesInv'
  BY <1>1, ArriveStep
<1>2. ASSUME NEW b \in HBudgets, NEW real \in SUBSET hinbox, NEW refreshed \in SUBSET HConvs,
             NEW checking \in BOOLEAN, NEW bad \in SUBSET hinbox, NEW ackOk \in BOOLEAN,
             NEW passed \in SUBSET real, poll(b, checking, bad, real, passed, refreshed, ackOk)
      PROVE  HermesInv'
  BY <1>2, HermesPolls
<1>3. ASSUME NEW held \in SUBSET HConvs, NEW spawns \in BOOLEAN, plan(held, spawns) PROVE HermesInv'
  BY <1>3, HermesPlans
<1>4. ASSUME NEW ok \in BOOLEAN, turnEnds(ok) \/ deferredTurnEnds(ok) PROVE HermesInv'
  BY <1>4, HermesTurnEnds, HermesDeferredEnds
<1>6. CASE retryNone \/ stop
  <2>1. /\ UNCHANGED <<seen, kept, stash, turn, cover, chosen, turned, redone, deadLettered, unspawned>>
        /\ UNCHANGED <<hinbox, denied, again>>
        /\ hphase' = hphase \/ (hphase \notin {"turn", "planning"} /\ hphase' = "waiting")
    BY <1>6 DEF retryNone, stop, MayRetry, verdictVars
  <2>2. hinbox' \subseteq HMsgs /\ HermesOneVerdict' /\ hinbox' \cap (seen' \cup denied') \subseteq again'
    BY <2>1 DEF HermesInv, HermesOneVerdict
  <2> QED
    BY <2>1, <2>2, FatesFrame
<1>7. ASSUME NEW e \in stash, stashAges(e) PROVE HermesInv'
  BY <1>7, HermesAges
<1>8. ASSUME NEW e \in stash, NEW spawns \in BOOLEAN, expiredTurn(e, spawns) \/ retryTurn(e, spawns)
      PROVE  HermesInv'
  <2>1. /\ RunDeferred(e, spawns)
        /\ hphase \in {"service", "retry"} /\ hphase' \notin {"turn", "planning"}
        /\ spawns \/ hphase' \in {"retry", "waiting"}
    BY <1>8 DEF expiredTurn, retryTurn, MayRetry
  <2> QED
    BY <2>1, DeferredKeeps
<1> QED
  BY <1>1, <1>2, <1>3, <1>4, <1>6, <1>7, <1>8 DEF HermesNext

\* For any messages, budgets and caps: the Hermes loop gives every message that
\* was to get a turn exactly one fate, and one more only for each turn that broke
\* after its child ran; it refuses a message beside only when that was delivered
\* again; and its process has one connection.
THEOREM HermesStaysSound == ClientsSpec => []HermesSound
<1>1. ClientsInit => HermesInv
  <2> SUFFICES ASSUME HermesInit PROVE HermesInv
    BY DEF ClientsInit
  <2>1. Held(stash) = {}
    BY DEF HermesInit, Held
  <2> QED
    BY <2>1 DEF HermesInit, HermesInv, HermesOneFate, HermesOneVerdict
<1>2. HermesInv /\ UNCHANGED hermesVars => HermesInv'
  <2> SUFFICES ASSUME HermesInv, UNCHANGED hermesVars PROVE HermesInv'
    OBVIOUS
  <2>1. /\ UNCHANGED <<seen, kept, stash, turn, cover, chosen, turned, redone, deadLettered, unspawned>>
        /\ UNCHANGED <<hphase, hinbox, denied, again>>
    BY DEF hermesVars, verdictVars
  <2>2. hinbox' \subseteq HMsgs /\ HermesOneVerdict' /\ hinbox' \cap (seen' \cup denied') \subseteq again'
    BY <2>1 DEF HermesInv, HermesOneVerdict
  <2> QED
    BY <2>1, <2>2, FatesFrame
<1>3. HermesInv => HermesOneFate /\ HermesOneVerdict
  BY DEF HermesInv
<1> QED
  BY <1>1, <1>2, <1>3, HermesStep, HermesConnectsOnce, Frames, PTL DEF ClientsSpec, HermesSound

-----------------------------------------------------------------------------
(* The inbox cache *)

\* A verdict that m may carry in a ring of the generation gen.
Binds(v, m, gen) ==
  v = NoVerdict \/ v = Failed(m) \/ (v = Passed(m) /\ m.key \in gen.pins)

\* It is of m itself, by a key of the generation; failed if m is on the rejects list, and
\* if it was ever labelled so and has not lapsed; and a failure that is not on the list is
\* of a message that is not refused.
Fits(v, m, gen, rejected) ==
  /\ Binds(v, m, gen)
  /\ m \in rejected => v = Failed(m)
  /\ v = Failed(m) /\ m \notin rejected => Unrefused(m)
  /\ m \in shown \ lapsed => v = Failed(m)

\* What was ever labelled as failed is on the rejects list, still in the ring or lapsed, and
\* what has lapsed is back only in a ring for which nothing is checked.
CacheInv ==
  /\ \A e \in ring :
       /\ {"msg", "verdict"} \subseteq DOMAIN e
       /\ Fits(e.verdict, e.msg, ringGen, rejects)
       /\ e.msg \in lapsed => ringGen.pins = {}
  /\ \A e, f \in ring : e.msg = f.msg => e.verdict = f.verdict
  /\ \A m \in lapsed : m.key = Unsigned
  /\ \A m \in shown : m \in rejects \cup lapsed \/ \E e \in ring : e.msg = m

LEMMA Verdicts ==
  /\ NoVerdict.ok = FALSE
  /\ \A m : Failed(m).ok = FALSE /\ Failed(m).of = m /\ Passed(m).ok = TRUE /\ Passed(m).of = m
  /\ \A m : Failed(m) # NoVerdict /\ Passed(m) # NoVerdict
<1>1. \A m : "of" \in DOMAIN Failed(m) /\ "of" \in DOMAIN Passed(m) /\ "of" \notin DOMAIN NoVerdict
  BY DEF Failed, Passed, NoVerdict
<1>2. \A m : Failed(m) # NoVerdict /\ Passed(m) # NoVerdict
  BY <1>1
<1>3. NoVerdict.ok = FALSE
  BY DEF NoVerdict
<1>4. \A m : Failed(m).ok = FALSE /\ Failed(m).of = m
  BY DEF Failed
<1>5. \A m : Passed(m).ok = TRUE /\ Passed(m).of = m
  BY DEF Passed
<1> QED
  BY <1>2, <1>3, <1>4, <1>5

\* The failed labels of a ring are the failures of its entries.
LEMMA FailuresAre ==
  ASSUME NEW r, NEW gen, \A e \in r : Binds(e.verdict, e.msg, gen), NEW m
  PROVE  m \in FailedIn(r) <=> \E e \in r : e.msg = m /\ e.verdict = Failed(m)
  BY Verdicts DEF FailedIn, Binds

\* What recordBatch carries over for a message, from a ring of the generation.
LEMMA PreviousIs ==
  ASSUME CacheInv, NEW gen, NEW m
  PROVE  Fits(Previous(FreshCache(gen), m, Carried(gen)), m, gen, Carried(gen))
<1> DEFINE r == FreshCache(gen)
           same == {e \in r : e.msg = m}
           v == Previous(r, m, Carried(gen))
<1>1. \A e \in r : e \in ring /\ gen = ringGen /\ Carried(gen) = rejects
  BY DEF FreshCache, Carried
<1>2. CASE same # {}
  <2>1. PICK e \in same : v = e.verdict
    <3>1. (CHOOSE e \in same : TRUE) \in same
      BY <1>2
    <3>2. v = (CHOOSE e \in same : TRUE).verdict
      BY <1>2 DEF Previous
    <3> QED
      BY <3>1, <3>2
  <2>2. e \in ring /\ e.msg = m /\ gen = ringGen /\ Carried(gen) = rejects
    BY <1>1
  <2> QED
    BY <2>1, <2>2 DEF CacheInv
<1>3. CASE same = {} /\ m \in Carried(gen)
  <2>1. v = Failed(m)
    BY <1>3 DEF Previous
  <2> QED
    BY <1>3, <2>1 DEF Fits, Binds
<1>4. CASE same = {} /\ m \notin Carried(gen)
  <2>1. v = NoVerdict
    BY <1>4 DEF Previous
  <2>2. ASSUME m \in shown \ lapsed PROVE FALSE
    <3>1. m \notin rejects
      BY <1>4 DEF Carried
    <3>2. PICK e \in ring : e.msg = m
      BY <2>2, <3>1 DEF CacheInv
    <3>3. e.verdict = Failed(m) /\ \A d \in ring : Binds(d.verdict, d.msg, ringGen)
      BY <2>2, <3>2 DEF CacheInv, Fits
    <3>4. gen # ringGen
      BY <1>4, <3>2 DEF FreshCache
    <3>5. m \in FailedIn(ring)
      BY <3>2, <3>3, FailuresAre
    <3> QED
      BY <1>4, <3>4, <3>5 DEF Carried
  <2> QED
    BY <1>4, <2>1, <2>2, Verdicts DEF Fits, Binds
<1> QED
  BY <1>2, <1>3, <1>4

\* recordBatch keeps an entry of a ring of the generation, or files a message of the batch
\* under what it carries.
Keeps(e, gen) ==
  \E d \in ring : /\ e.msg = d.msg /\ e.verdict = d.verdict
                  /\ gen = ringGen /\ Carried(gen) = rejects

LEMMA RecordKeeps ==
  ASSUME CacheInv, NEW gen, NEW e \in RecordBatch(FreshCache(gen), Carried(gen))
  PROVE  /\ {"msg", "verdict"} \subseteq DOMAIN e
         /\ Fits(e.verdict, e.msg, gen, Carried(gen))
         /\ \/ e.msg \notin pending /\ Keeps(e, gen)
            \/ e.msg \in pending /\ e.verdict = Previous(FreshCache(gen), e.msg, Carried(gen))
<1> DEFINE r == FreshCache(gen)
           others == {d \in r : \A m \in pending : m.id # d.msg.id}
           Older(d) == Cardinality(pending) + Cardinality({x \in others : x.age < d.age})
           Newer(m) == Cardinality({x \in pending : x.id > m.id})
<1>1. \/ \E d \in others : e = [d EXCEPT !.age = Older(d)]
      \/ \E m \in pending : e = [msg |-> m, verdict |-> Previous(r, m, Carried(gen)), age |-> Newer(m)]
  BY DEF RecordBatch
<1> HIDE DEF Older, Newer
<1>2. CASE \E d \in others : e = [d EXCEPT !.age = Older(d)]
  <2>1. PICK d \in others : e = [d EXCEPT !.age = Older(d)]
    BY <1>2
  <2>2. d \in ring /\ gen = ringGen /\ Carried(gen) = rejects
    BY DEF FreshCache, Carried
  <2>3. {"msg", "verdict"} \subseteq DOMAIN d /\ Fits(d.verdict, d.msg, ringGen, rejects)
    BY <2>2 DEF CacheInv
  <2>4. DOMAIN e = DOMAIN d /\ e.msg = d.msg /\ e.verdict = d.verdict
    BY <2>1, <2>3
  <2>5. e.msg \notin pending
    BY <2>4
  <2> QED
    BY <2>2, <2>3, <2>4, <2>5 DEF Keeps
<1>3. CASE \E m \in pending : e = [msg |-> m, verdict |-> Previous(r, m, Carried(gen)), age |-> Newer(m)]
  <2>1. PICK m \in pending : e = [msg |-> m, verdict |-> Previous(r, m, Carried(gen)), age |-> Newer(m)]
    BY <1>3
  <2>2. {"msg", "verdict"} \subseteq DOMAIN e /\ e.msg = m /\ e.verdict = Previous(r, m, Carried(gen))
    BY <2>1
  <2> QED
    BY <2>2, PreviousIs
<1> QED
  BY <1>1, <1>2, <1>3

LEMMA TickKeeps ==
  ASSUME CacheInv, NEW tr, tr.pins \subseteq OpKeys, NEW operatorTrusted, NEW ackOk,
         tick(tr, operatorTrusted, ackOk)
  PROVE  CacheInv'
<1> DEFINE rejected == Carried(tr)
           verdict == [m \in pending |-> IF m \in rejected THEN Failed(m) ELSE VerifyBatch(m, tr)]
           refusals == {m \in pending : VerificationReject(m, verdict[m]) \/ RequireSignedWithheld(m, verdict[m])}
           base == RecordBatch(FreshCache(tr), rejected)
           after == RecordVerifications(base, verdict, refusals)
           pushed == PushedOut(tr, after)
           fails == FailedIn(after)
<1>1. /\ ring' = after /\ ringGen' = tr /\ mode' = mode
      /\ rejects' = rejected \cup (refusals \cap {e.msg : e \in after})
      /\ shown' = shown \cup fails
      /\ lapsed' = (lapsed \cup pushed) \ fails
  BY DEF tick
<1>2. /\ rejects \subseteq rejected
      /\ tr # ringGen => FailedIn(ring) \subseteq rejected
  BY DEF Carried
<1>3. ASSUME NEW m \in pending
      PROVE  /\ Binds(verdict[m], m, tr)
             /\ m \in rejected => verdict[m] = Failed(m)
             /\ m.key = Unsigned /\ verdict[m] # NoVerdict => verdict[m] = Failed(m)
             /\ m.key = Unsigned /\ tr.pins # {} => verdict[m] = Failed(m)
  BY CacheAssumption, Verdicts DEF VerifyBatch, VerifyInbound, Binds
<1>4. ASSUME NEW m \in pending \ refusals, verdict[m] = Failed(m) PROVE Unrefused(m)
  BY <1>4, Verdicts DEF VerificationReject, RequireSignedWithheld, Unrefused
<1>5. refusals \subseteq pending
  OBVIOUS
<1>6. \A x \in after : \E e \in base : x = [e EXCEPT !.verdict = Labelled(e, verdict, refusals)]
  BY DEF RecordVerifications
<1>7. ASSUME NEW e \in base
      PROVE  /\ {"msg", "verdict"} \subseteq DOMAIN e
             /\ Fits(e.verdict, e.msg, tr, rejected)
             /\ \/ e.msg \notin pending /\ Keeps(e, tr)
                \/ e.msg \in pending /\ e.verdict = Previous(FreshCache(tr), e.msg, rejected)
  BY RecordKeeps
<1>8. pushed = {m \in {e.msg : e \in FreshCache(tr)} \ {e.msg : e \in after} : Unrefused(m)}
  BY DEF PushedOut
<1>9. ASSUME NEW e \in base, NEW f \in base, e.msg = f.msg PROVE e.verdict = f.verdict
  BY <1>7, <1>9 DEF Keeps, CacheInv
<1> HIDE DEF rejected, verdict, refusals, base, after, pushed, fails
<1>10. ASSUME NEW e \in base
       PROVE  LET v == Labelled(e, verdict, refusals)
              IN  /\ Binds(v, e.msg, tr)
                  /\ e.msg \in rejected \cup refusals => v = Failed(e.msg)
                  /\ v = Failed(e.msg) /\ e.msg \notin rejected \cup refusals => Unrefused(e.msg)
                  /\ e.msg \in shown \ lapsed => v = Failed(e.msg)
                  /\ e.msg \in pending /\ e.msg.key = Unsigned /\ tr.pins # {} => v = Failed(e.msg)
  <2>0. Fits(e.verdict, e.msg, tr, rejected)
    BY <1>7
  <2>1. CASE e.msg \in refusals
    <3>1. Labelled(e, verdict, refusals) = Failed(e.msg)
      BY <2>1 DEF Labelled
    <3> QED
      BY <2>1, <3>1 DEF Binds
  <2>2. CASE e.msg \in pending \ refusals /\ verdict[e.msg] # NoVerdict
    <3>1. Labelled(e, verdict, refusals) = verdict[e.msg]
      BY <2>2 DEF Labelled
    <3>2. e.msg \in shown \ lapsed => e.msg \in rejected \/ e.msg.key = Unsigned
      BY <2>0 DEF Fits, Unrefused
    <3> QED
      BY <1>3, <1>4, <2>2, <3>1, <3>2
  <2>3. CASE e.msg \notin refusals /\ ~(e.msg \in pending \ refusals /\ verdict[e.msg] # NoVerdict)
    <3>1. Labelled(e, verdict, refusals) = e.verdict
      BY <2>3 DEF Labelled
    <3>2. e.msg \in pending => ~(e.msg.key = Unsigned /\ tr.pins # {})
      BY <1>3, <2>3, Verdicts
    <3> QED
      BY <2>0, <2>3, <3>1, <3>2 DEF Fits
  <2> QED
    BY <2>1, <2>2, <2>3
<1>11. ASSUME NEW x \in after
       PROVE  \E e \in base : /\ {"msg", "verdict"} \subseteq DOMAIN x
                              /\ x.msg = e.msg /\ x.verdict = Labelled(e, verdict, refusals)
  <2>1. PICK e \in base : x = [e EXCEPT !.verdict = Labelled(e, verdict, refusals)]
    BY <1>6
  <2>2. {"msg", "verdict"} \subseteq DOMAIN e
    BY <1>7
  <2>3. DOMAIN x = DOMAIN e /\ x.msg = e.msg /\ x.verdict = Labelled(e, verdict, refusals)
    BY <2>1, <2>2
  <2> QED
    BY <2>2, <2>3
<1>12. ASSUME NEW x \in after, NEW y \in after, x.msg = y.msg PROVE x.verdict = y.verdict
  <2>1. PICK e \in base : x.msg = e.msg /\ x.verdict = Labelled(e, verdict, refusals)
    BY <1>11
  <2>2. PICK f \in base : y.msg = f.msg /\ y.verdict = Labelled(f, verdict, refusals)
    BY <1>11
  <2>3. e.msg = f.msg /\ e.verdict = f.verdict
    BY <1>9, <1>12, <2>1, <2>2
  <2>4. Labelled(e, verdict, refusals) = Labelled(f, verdict, refusals)
    BY <2>3 DEF Labelled
  <2> QED
    BY <2>1, <2>2, <2>4
<1>13. \A x \in after : Binds(x.verdict, x.msg, tr)
  BY <1>10, <1>11
<1>14. \A m : m \in fails <=> \E x \in after : x.msg = m /\ x.verdict = Failed(m)
  BY <1>13, FailuresAre DEF fails
<1>15. ASSUME NEW x \in after
       PROVE  /\ {"msg", "verdict"} \subseteq DOMAIN x
              /\ x.msg \in rejects' => x.verdict = Failed(x.msg)
              /\ x.verdict = Failed(x.msg) /\ x.msg \notin rejects' => Unrefused(x.msg)
              /\ x.msg \in shown' \ lapsed' => x.verdict = Failed(x.msg)
              /\ x.msg \in lapsed' => tr.pins = {}
  <2>1. PICK e \in base : /\ {"msg", "verdict"} \subseteq DOMAIN x
                          /\ x.msg = e.msg /\ x.verdict = Labelled(e, verdict, refusals)
    BY <1>11
  <2>2. x.msg \in rejects' <=> x.msg \in rejected \cup refusals
    BY <1>1
  <2>3. x.msg \in fails => x.verdict = Failed(x.msg)
    BY <1>12, <1>14
  <2>4. x.msg \notin fails => (x.msg \in lapsed' <=> x.msg \in lapsed) /\ (x.msg \in shown' <=> x.msg \in shown)
    BY <1>1, <1>8
  <2>5. x.msg \in shown' \ lapsed' => x.verdict = Failed(x.msg)
    BY <1>10, <2>1, <2>3, <2>4
  <2>6. ASSUME x.msg \in lapsed' PROVE tr.pins = {}
    <3>1. x.msg \notin fails /\ x.msg \in lapsed /\ x.msg.key = Unsigned
      BY <1>1, <2>4, <2>6 DEF CacheInv
    <3>2. CASE x.msg \in pending
      BY <1>10, <1>14, <2>1, <3>1, <3>2
    <3>3. CASE x.msg \notin pending
      BY <1>7, <2>1, <3>1, <3>3 DEF Keeps, CacheInv
    <3> QED
      BY <3>2, <3>3
  <2> QED
    BY <1>10, <2>1, <2>2, <2>5, <2>6
<1>16. \A m \in lapsed' : m.key = Unsigned
  BY <1>1, <1>8 DEF CacheInv, Unrefused
<1>17. ASSUME NEW m \in shown' PROVE m \in rejects' \cup lapsed' \/ \E e \in after : e.msg = m
  <2>1. CASE m \in fails
    BY <1>14, <2>1
  <2>2. CASE m \notin fails /\ m \in rejects \cup lapsed
    BY <1>1, <1>2, <2>2
  <2>3. CASE m \notin fails /\ m \notin rejects \cup lapsed
    <3>1. m \in shown
      BY <1>1, <2>3
    <3>2. PICK d \in ring : d.msg = m
      BY <2>3, <3>1 DEF CacheInv
    <3>3. d.verdict = Failed(m) /\ Unrefused(m) /\ \A e \in ring : Binds(e.verdict, e.msg, ringGen)
      BY <2>3, <3>1, <3>2 DEF CacheInv, Fits
    <3>4. CASE tr # ringGen
      <4>1. m \in FailedIn(ring)
        BY <3>2, <3>3, FailuresAre
      <4> QED
        BY <1>1, <1>2, <3>4, <4>1
    <3>5. CASE tr = ringGen
      <4>1. m \in {e.msg : e \in FreshCache(tr)}
        BY <3>2, <3>5 DEF FreshCache
      <4> QED
        BY <1>1, <1>8, <2>3, <3>3, <4>1
    <3> QED
      BY <3>4, <3>5
  <2> QED
    BY <2>1, <2>2, <2>3
<1>18. /\ \A m : Unrefused(m)' <=> Unrefused(m)
       /\ \A v, m : Binds(v, m, ringGen)' <=> Binds(v, m, tr)
  BY <1>1 DEF Unrefused, RequireSignedWithheld, Binds, NoVerdict, Failed, Passed
<1>19. \A x \in ring' : Fits(x.verdict, x.msg, ringGen, rejects)'
  BY <1>1, <1>13, <1>15, <1>18 DEF Fits, Failed
<1> QED
  BY <1>1, <1>12, <1>15, <1>16, <1>17, <1>19 DEF CacheInv

LEMMA CacheStands ==
  CacheInv /\ UNCHANGED <<ring, ringGen, rejects, mode, shown, lapsed>> => CacheInv'
  BY DEF CacheInv, Fits, Binds, Unrefused, RequireSignedWithheld

LEMMA CacheStep == CacheInv /\ CacheNext => CacheInv'
<1> SUFFICES ASSUME CacheInv, CacheNext PROVE CacheInv'
  OBVIOUS
<1>1. ASSUME NEW m \in traffic, arrive(m) PROVE CacheInv'
  BY <1>1, CacheStands DEF arrive
<1>2. ASSUME NEW p \in SUBSET OpKeys, NEW d \in SUBSET OpKeys, NEW operatorTrusted \in BOOLEAN,
             NEW ackOk \in BOOLEAN, tick([pins |-> p, gone |-> d], operatorTrusted, ackOk)
      PROVE  CacheInv'
  BY <1>2, TickKeeps
<1>3. CASE takeOver
  BY <1>3, CacheStands DEF takeOver
<1>4. CASE reconnect
  BY <1>4, CacheStands DEF reconnect
<1> QED
  BY <1>1, <1>2, <1>3, <1>4 DEF CacheNext

\* The labels follow from the ring: a verdict shown is the entry's own, and one
\* that passed is shown only to a reader of the ring's generation.
LEMMA LabelsFollow == CacheInv => LabelsSound
<1> SUFFICES ASSUME CacheInv, NEW e \in ring, NEW g
             PROVE  /\ View(e, g) = "verified-operator" => e.verdict.of = e.msg /\ e.msg.key \in g.pins
                    /\ View(e, g) = "attested-operator" => ringGen = g
                    /\ e.msg \in shown => \/ View(e, g) = "rejected-signature"
                                          \/ e.msg \in lapsed /\ ringGen.pins = {}
  BY DEF LabelsSound, AuthorityIsCurrent, RejectionSticks
<1> DEFINE v == Shown(e, g)
           status == Status(v, e.msg)
<1>1. /\ Binds(e.verdict, e.msg, ringGen)
      /\ e.msg \in shown \ lapsed => e.verdict = Failed(e.msg)
      /\ e.msg \in lapsed => ringGen.pins = {}
  BY DEF CacheInv, Fits
<1>2. View(e, g) = TrustOf(e.msg, status, vouched /\ ringGen = g)
  BY DEF View
<1>3. v = NoVerdict \/ v = Failed(e.msg) \/ (v = Passed(e.msg) /\ e.verdict = v /\ ringGen = g)
  BY <1>1, Verdicts DEF Shown, Binds
<1>4. e.msg \in shown \ lapsed => v = Failed(e.msg)
  BY <1>1, Verdicts DEF Shown
<1> HIDE DEF v
<1>5. /\ v = NoVerdict => status = "unchecked"
      /\ v = Failed(e.msg) => status = "failed"
      /\ v = Passed(e.msg) => status = "verified"
  BY Verdicts DEF Status
<1> HIDE DEF status
<1>6. \A m, s : \A b \in BOOLEAN :
        /\ s = "failed" => TrustOf(m, s, b) = "rejected-signature"
        /\ TrustOf(m, s, b) = "verified-operator" => s = "verified"
        /\ TrustOf(m, s, b) = "attested-operator" => b
  BY DEF TrustOf
<1> QED
  BY <1>1, <1>2, <1>3, <1>4, <1>5, <1>6, Verdicts DEF Binds

\* For any messages, keys and ring, whichever copy of the plugin wrote it: ekho_inbox shows
\* an operator's authority only on what the reader trusts, and what the ring has labelled as
\* failed stays rejected, but for an unsigned message that left the ring unrecorded and comes
\* back when nothing is checked.
THEOREM LabelsStaySound == ClientsSpec => []LabelsSound
<1>1. ClientsInit => CacheInv
  BY DEF ClientsInit, CacheInit, CacheInv
<1>2. CacheInv /\ UNCHANGED cacheVars => CacheInv'
  BY CacheStands DEF cacheVars
<1> QED
  BY <1>1, <1>2, CacheStep, LabelsFollow, Frames, PTL DEF ClientsSpec
=============================================================================
