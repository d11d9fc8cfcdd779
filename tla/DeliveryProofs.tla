--------------------------- MODULE DeliveryProofs ---------------------------
(***************************************************************************)
(* Delivery's invariants for any fleet, any number of messages, any        *)
(* timeout, backoff table and retry limit.                                 *)
(***************************************************************************)
EXTENDS Delivery, WellFoundedInduction, TLAPS

-----------------------------------------------------------------------------
(* What the sweep does to one row *)

\* The status names, so that no later step expands the set of them.
LEMMA StatusNames ==
  /\ "none" \in DlvStatus /\ "queued" \in DlvStatus /\ "delivered" \in DlvStatus
  /\ "acked" \in DlvStatus /\ "dead_lettered" \in DlvStatus /\ "expired" \in DlvStatus
  /\ "queued" \in MsgStatus /\ "acked" \in MsgStatus
  BY DEF DlvStatus, MsgStatus

LEMMA BackoffType == \A n \in Nat \ {0} : BackoffOf(n) \in Nat
  BY DeliveryAssumption DEF BackoffOf

\* The rows the handlers write are rows.
LEMMA RowTypes ==
  ASSUME now \in Nat, NEW row \in DlvRow
  PROVE  /\ QueuedRow \in DlvRow
         /\ DeliveredRow(row) \in DlvRow
         /\ RequeuedRow(row) \in DlvRow
         /\ \A st \in DlvStatus : [row EXCEPT !.status = st] \in DlvRow
<1>1. QueuedRow \in DlvRow
  BY StatusNames DEF QueuedRow, NoDlv, DlvRow
<1>2. row.attempts + 1 \in Nat /\ row.retryCount + 1 \in Nat \ {0}
  BY DEF DlvRow
<1>3. DeliveredRow(row) \in DlvRow
  BY <1>2, StatusNames DEF DeliveredRow, DlvRow
<1>4. now + BackoffOf(row.retryCount + 1) \in Nat
  BY <1>2, BackoffType
<1>5. RequeuedRow(row) \in DlvRow
  BY <1>2, <1>4, StatusNames DEF RequeuedRow, DlvRow
<1>6. \A st \in DlvStatus : [row EXCEPT !.status = st] \in DlvRow
  BY DEF DlvRow
<1> QED
  BY <1>1, <1>3, <1>5, <1>6

\* The retry sweep takes rows of unexpired messages, the expiry sweep rows of
\* expired ones.
LEMMA SweepsDisjoint ==
  ASSUME TypeOK, NEW d \in Deliveries
  PROVE  ~(TimedOut(d) /\ PastTtl(d))
<1>1. d[1] \in Msgs /\ now \in Int /\ msg[d[1]].expiresAt \in Int
  BY DeliveryAssumption DEF TypeOK, Deliveries, MsgRow, NoTime
<1> QED
  BY <1>1 DEF TimedOut, PastTtl

LEMMA SweptRowCases ==
  ASSUME TypeOK, NEW d \in Deliveries, NEW rr \in BOOLEAN, NEW er \in BOOLEAN
  PROVE  \/ /\ rr /\ moveToDeadLetter(d)
            /\ SweptRow(d, rr, er) = [dlv[d] EXCEPT !.status = "dead_lettered"]
         \/ /\ rr /\ TimedOut(d) /\ ~OutOfRetries(d)
            /\ SweptRow(d, rr, er) = RequeuedRow(dlv[d])
         \/ /\ er /\ PastTtl(d) /\ ~moveToDeadLetter(d)
            /\ SweptRow(d, rr, er) = [dlv[d] EXCEPT !.status = "expired"]
         \/ /\ ~(rr /\ moveToDeadLetter(d)) /\ ~(er /\ PastTtl(d))
            /\ SweptRow(d, rr, er) = dlv[d]
<1>1. ~(TimedOut(d) /\ PastTtl(d))
  BY SweepsDisjoint
<1> QED
  BY <1>1 DEF SweptRow, moveToDeadLetter

\* The senders differ only in whom they reach.
LEMMA NextCases ==
  ASSUME [Next]_vars
  PROVE  \/ \E m \in Msgs, ttl \in Ttls, R \in SUBSET Agents : enqueue(m, ttl, R)
         \/ \E a \in Agents, arrives \in BOOLEAN : getInbox(a, arrives)
         \/ \E a \in Agents : ClientRestart(a)
         \/ \E a \in Agents, m \in Msgs : ackMessages(a, m)
         \/ \E rr, er \in BOOLEAN : sweep(rr, er)
         \/ Tick
         \/ UNCHANGED vars
<1>1. ASSUME NEW s \in Agents, NEW R \in Audiences(s) PROVE R \in SUBSET Agents
  BY DEF Audiences
<1>2. Operator \in Agents
  BY DeliveryAssumption
<1>3. ASSUME \/ \E s \in Agents, m \in Msgs, ttl \in Ttls : createMessage(s, m, ttl)
             \/ \E m \in Msgs, ttl \in Ttls : createOperatorMessage(m, ttl)
      PROVE  \E m \in Msgs, ttl \in Ttls, R \in SUBSET Agents : enqueue(m, ttl, R)
  BY <1>1, <1>2, <1>3 DEF createMessage, createOperatorMessage
<1>4. ASSUME \/ \E m \in Msgs, ttl \in Ttls : resumeConversation(m, ttl)
             \/ \E m \in Msgs, ttl \in Ttls : deliverFeedItem(m, ttl)
      PROVE  \E m \in Msgs, ttl \in Ttls, R \in SUBSET Agents : enqueue(m, ttl, R)
  <2>1. \A R \in SUBSET (Agents \ {Operator}) \ {{}} : R \in SUBSET Agents
    OBVIOUS
  <2> QED
    BY <1>4, <2>1 DEF resumeConversation, deliverFeedItem
<1> QED
  BY <1>3, <1>4 DEF Next

-----------------------------------------------------------------------------
(* Type correctness *)

LEMMA TypeInit == Init => TypeOK
  BY DeliveryAssumption
  DEF Init, TypeOK, MsgRow, DlvRow, MsgStatus, DlvStatus, NoMsg, NoDlv, NoTime

LEMMA TypeStep == TypeOK /\ [Next]_vars => TypeOK'
<1> SUFFICES ASSUME TypeOK, [Next]_vars PROVE TypeOK'
  OBVIOUS
<1>0. now \in Nat /\ \A d \in Deliveries : dlv[d] \in DlvRow
  BY DeliveryAssumption DEF TypeOK
<1>1. ASSUME NEW m \in Msgs, NEW ttl \in Ttls, NEW R \in SUBSET Agents, enqueue(m, ttl, R)
      PROVE  TypeOK'
  <2>1. [status |-> "queued", expiresAt |-> now + ttl] \in MsgRow
    BY <1>0, DeliveryAssumption, StatusNames DEF MsgRow
  <2>2. Deliveries # {} => QueuedRow \in DlvRow
    BY <1>0, RowTypes
  <2>3. dlv' = [d \in Deliveries |-> IF d[1] = m /\ d[2] \in R THEN QueuedRow ELSE dlv[d]]
    BY <1>1 DEF enqueue
  <2>4. dlv' \in [Deliveries -> DlvRow]
    BY <1>0, <2>2, <2>3
  <2> QED
    BY <1>1, <2>1, <2>4 DEF enqueue, TypeOK
<1>2. ASSUME NEW a \in Agents, NEW arrives \in BOOLEAN, getInbox(a, arrives)
      PROVE  TypeOK'
  <2>1. \A d \in Deliveries : DeliveredRow(dlv[d]) \in DlvRow
    BY <1>0, RowTypes
  <2>2. PICK B \in Batches(a) :
          /\ dlv' = [d \in Deliveries |->
                       IF d[1] \in B /\ d[2] = a THEN DeliveredRow(dlv[d]) ELSE dlv[d]]
          /\ received' = IF arrives THEN [received EXCEPT ![a] = @ \cup B] ELSE received
    BY <1>2 DEF getInbox
  <2>3. B \subseteq Msgs
    BY DEF Batches, Collectable
  <2> QED
    BY <1>0, <1>2, <2>1, <2>2, <2>3 DEF getInbox, TypeOK
<1>3. ASSUME NEW a \in Agents, ClientRestart(a) PROVE TypeOK'
  BY <1>3 DEF ClientRestart, TypeOK
<1>4. ASSUME NEW a \in Agents, NEW m \in Msgs, ackMessages(a, m) PROVE TypeOK'
  <2>1. <<m, a>> \in Deliveries
    BY DEF Deliveries
  <2>2. [dlv[<<m, a>>] EXCEPT !.status = "acked"] \in DlvRow
    BY <1>0, <2>1, RowTypes, StatusNames
  <2>3. dlv' \in [Deliveries -> DlvRow]
    BY <1>4, <2>1, <2>2 DEF ackMessages, TypeOK
  <2>4. msg' \in [Msgs -> MsgRow]
    BY <1>4, StatusNames DEF ackMessages, TypeOK, MsgRow
  <2> QED
    BY <1>4, <2>3, <2>4 DEF ackMessages, TypeOK
<1>5. ASSUME NEW rr \in BOOLEAN, NEW er \in BOOLEAN, sweep(rr, er) PROVE TypeOK'
  <2>1. ASSUME NEW d \in Deliveries PROVE SweptRow(d, rr, er) \in DlvRow
    BY <1>0, RowTypes, SweptRowCases, StatusNames
  <2>2. ASSUME NEW m \in Msgs PROVE SweptStatus(m, rr, er) \in MsgStatus
    BY DEF SweptStatus, TypeOK, MsgRow, MsgStatus
  <2>3. msg' \in [Msgs -> MsgRow]
    BY <1>5, <2>2 DEF sweep, TypeOK, MsgRow
  <2> QED
    BY <1>5, <2>1, <2>3 DEF sweep, TypeOK
<1>6. CASE Tick
  BY <1>6, DeliveryAssumption DEF Tick, TypeOK
<1>7. CASE UNCHANGED vars
  BY <1>7 DEF vars, TypeOK
<1> QED
  BY <1>1, <1>2, <1>3, <1>4, <1>5, <1>6, <1>7, NextCases

\* Every handler keeps the three tables, the clock and the clients' memory
\* well formed.
THEOREM DeliveryTypeOK == Spec => []TypeOK
  BY TypeInit, TypeStep, PTL DEF Spec

-----------------------------------------------------------------------------
(* What any step may do to one delivery and its dead letters *)

RowChange(d) ==
  \/ dlv'[d] = dlv[d] /\ letters'[d] = letters[d]
  \/ /\ msg[d[1]].status = "none" /\ msg'[d[1]].status = "queued"
     /\ dlv'[d] = QueuedRow /\ letters'[d] = letters[d]
  \/ /\ dlv[d].status = "queued" /\ msg[d[1]].expiresAt > now /\ dlv[d].nextRetryAt <= now
     /\ dlv'[d] = DeliveredRow(dlv[d]) /\ letters'[d] = letters[d]
  \/ /\ d[1] \in received[d[2]] /\ dlv[d].status # "acked"
     /\ dlv'[d] = [dlv[d] EXCEPT !.status = "acked"] /\ letters'[d] = letters[d]
  \/ /\ moveToDeadLetter(d)
     /\ dlv'[d] = [dlv[d] EXCEPT !.status = "dead_lettered"] /\ letters'[d] = letters[d] + 1
  \/ /\ TimedOut(d) /\ ~OutOfRetries(d)
     /\ dlv'[d] = RequeuedRow(dlv[d]) /\ letters'[d] = letters[d]
  \/ /\ PastTtl(d)
     /\ dlv'[d] = [dlv[d] EXCEPT !.status = "expired"] /\ letters'[d] = letters[d]

LEMMA RowStep ==
  ASSUME TypeOK, [Next]_vars, NEW d \in Deliveries
  PROVE  RowChange(d)
<1>0. d[1] \in Msgs /\ d[2] \in Agents /\ d = <<d[1], d[2]>>
  BY DEF Deliveries
<1>1. ASSUME NEW m \in Msgs, NEW ttl \in Ttls, NEW R \in SUBSET Agents, enqueue(m, ttl, R)
      PROVE  RowChange(d)
  BY <1>0, <1>1 DEF enqueue, RowChange, TypeOK
<1>2. ASSUME NEW a \in Agents, NEW arrives \in BOOLEAN, getInbox(a, arrives)
      PROVE  RowChange(d)
  <2>1. PICK B \in Batches(a) :
          dlv' = [e \in Deliveries |->
                    IF e[1] \in B /\ e[2] = a THEN DeliveredRow(dlv[e]) ELSE dlv[e]]
    BY <1>2 DEF getInbox
  <2>2. B \subseteq Collectable(a)
    BY DEF Batches
  <2>3. d[1] \in B /\ d[2] = a
          => dlv[d].status = "queued" /\ msg[d[1]].expiresAt > now /\ dlv[d].nextRetryAt <= now
    BY <1>0, <2>2 DEF Collectable
  <2> QED
    BY <1>2, <2>1, <2>3 DEF getInbox, RowChange
<1>3. ASSUME NEW a \in Agents, ClientRestart(a) PROVE RowChange(d)
  BY <1>3 DEF ClientRestart, RowChange
<1>4. ASSUME NEW a \in Agents, NEW m \in Msgs, ackMessages(a, m) PROVE RowChange(d)
  <2>1. CASE d = <<m, a>>
    BY <1>0, <1>4, <2>1 DEF ackMessages, RowChange, TypeOK
  <2>2. CASE d # <<m, a>>
    BY <1>0, <1>4, <2>2 DEF ackMessages, RowChange, TypeOK
  <2> QED
    BY <2>1, <2>2
<1>5. ASSUME NEW rr \in BOOLEAN, NEW er \in BOOLEAN, sweep(rr, er) PROVE RowChange(d)
  <2>1. /\ dlv'[d] = SweptRow(d, rr, er)
        /\ letters'[d] = IF rr /\ moveToDeadLetter(d) THEN letters[d] + 1 ELSE letters[d]
    BY <1>5 DEF sweep
  <2>2. ~(moveToDeadLetter(d) /\ ~OutOfRetries(d))
    BY DEF moveToDeadLetter
  <2> QED
    BY <2>1, <2>2, SweptRowCases DEF RowChange
<1>6. CASE Tick
  BY <1>6 DEF Tick, RowChange
<1>7. CASE UNCHANGED vars
  BY <1>7 DEF vars, RowChange
<1> QED
  BY <1>1, <1>2, <1>3, <1>4, <1>5, <1>6, <1>7, NextCases

LEMMA MessageStays ==
  ASSUME TypeOK, [Next]_vars, NEW m \in Msgs, msg[m].status # "none"
  PROVE  msg'[m].status # "none"
<1>1. ASSUME NEW n \in Msgs, NEW ttl \in Ttls, NEW R \in SUBSET Agents, enqueue(n, ttl, R)
      PROVE  msg'[m].status # "none"
  BY <1>1 DEF enqueue, TypeOK
<1>2. ASSUME NEW a \in Agents, NEW n \in Msgs, ackMessages(a, n)
      PROVE  msg'[m].status # "none"
  BY <1>2 DEF ackMessages, TypeOK, MsgRow
<1>3. ASSUME NEW rr \in BOOLEAN, NEW er \in BOOLEAN, sweep(rr, er)
      PROVE  msg'[m].status # "none"
  <2>1. msg'[m].status = SweptStatus(m, rr, er)
    BY <1>3 DEF sweep, TypeOK, MsgRow
  <2> QED
    BY <2>1 DEF SweptStatus
<1>4. CASE msg' = msg
  BY <1>4
<1> QED
  BY <1>1, <1>2, <1>3, <1>4, NextCases DEF getInbox, ClientRestart, Tick, vars

-----------------------------------------------------------------------------
(* The life of a delivery: which counters and dead letters go with which    *)
(* status. AttemptsAccounted and DeadLetterOnce are not inductive: the      *)
(* retry limit must be known to bound retryCount while a row is still       *)
(* moving, and rows must not exist before their message does.               *)

RowAccounted(d) ==
  /\ dlv[d].attempts <= MaxRetries + 1
  /\ dlv[d].status = "none" => dlv[d].attempts = 0
  /\ dlv[d].status = "queued" =>
       dlv[d].attempts = dlv[d].retryCount /\ dlv[d].retryCount <= MaxRetries
  /\ dlv[d].status = "delivered" =>
       dlv[d].attempts = dlv[d].retryCount + 1 /\ dlv[d].retryCount <= MaxRetries
  /\ dlv[d].status = "dead_lettered" => dlv[d].attempts = MaxRetries + 1

LetterAccounted(d) ==
  /\ letters[d] \in {0, 1}
  /\ dlv[d].status = "dead_lettered" => letters[d] = 1
  /\ letters[d] = 1 => dlv[d].status \in {"dead_lettered", "acked"}

Linked ==
  /\ \A d \in Deliveries : Exists(d) => msg[d[1]].status # "none"
  /\ \A d \in Deliveries : d[1] \in received[d[2]] => Exists(d)

LifeInv ==
  /\ TypeOK
  /\ Linked
  /\ \A d \in Deliveries : RowAccounted(d) /\ LetterAccounted(d)

LEMMA LifeInit == Init => LifeInv
<1> SUFFICES ASSUME Init PROVE LifeInv
  OBVIOUS
<1>1. TypeOK
  BY TypeInit
<1>2. \A d \in Deliveries : d[2] \in Agents
  BY DEF Deliveries
<1> QED
  BY <1>1, <1>2, DeliveryAssumption
  DEF Init, LifeInv, Linked, RowAccounted, LetterAccounted, Exists, NoDlv

LEMMA RowExists ==
  ASSUME TypeOK, [Next]_vars, NEW d \in Deliveries, dlv'[d] # dlv[d]
  PROVE  Exists(d)'
<1>1. dlv[d] \in DlvRow
  BY DEF TypeOK
<1> QED
  BY <1>1, RowStep DEF RowChange, Exists, QueuedRow, NoDlv, DeliveredRow, RequeuedRow, DlvRow

LEMMA LinkedStep == LifeInv /\ [Next]_vars => Linked'
<1> SUFFICES ASSUME LifeInv, [Next]_vars PROVE Linked'
  OBVIOUS
<1>0. TypeOK /\ Linked
  BY DEF LifeInv
<1>1. ASSUME NEW d \in Deliveries, Exists(d)' PROVE (msg[d[1]].status # "none")'
  <2>0. d[1] \in Msgs /\ d[2] \in Agents
    BY DEF Deliveries
  <2>1. CASE Exists(d)
    BY <1>0, <2>0, <2>1, MessageStays DEF Linked
  <2>2. CASE ~Exists(d)
    BY <1>0, <1>1, <2>2, RowStep
    DEF RowChange, Linked, Exists, moveToDeadLetter, TimedOut, PastTtl
  <2> QED
    BY <2>1, <2>2
<1>2. ASSUME NEW d \in Deliveries, (d[1] \in received[d[2]])' PROVE Exists(d)'
  <2>0. d[1] \in Msgs /\ d[2] \in Agents /\ d = <<d[1], d[2]>>
    BY DEF Deliveries
  <2>1. CASE d[1] \in received[d[2]]
    BY <1>0, <2>1, RowExists DEF Linked, Exists
  <2>2. CASE d[1] \notin received[d[2]]
    <3>1. PICK a \in Agents, arrives \in BOOLEAN : getInbox(a, arrives)
      BY <1>0, <1>2, <2>0, <2>2, NextCases
      DEF enqueue, ClientRestart, ackMessages, sweep, Tick, vars, TypeOK
    <3>2. PICK B \in Batches(a) :
            /\ dlv' = [e \in Deliveries |->
                         IF e[1] \in B /\ e[2] = a THEN DeliveredRow(dlv[e]) ELSE dlv[e]]
            /\ received' = IF arrives THEN [received EXCEPT ![a] = @ \cup B] ELSE received
      BY <3>1 DEF getInbox
    <3>3. d[2] = a /\ d[1] \in B
      BY <1>0, <1>2, <2>0, <2>2, <3>2 DEF TypeOK
    <3>4. dlv'[d] = DeliveredRow(dlv[d]) /\ dlv[d] \in DlvRow
      BY <1>0, <3>2, <3>3 DEF TypeOK
    <3> QED
      BY <3>4 DEF Exists, DeliveredRow, DlvRow
  <2> QED
    BY <2>1, <2>2
<1> QED
  BY <1>1, <1>2 DEF Linked

LEMMA AccountStep ==
  ASSUME LifeInv, [Next]_vars, NEW d \in Deliveries
  PROVE  (RowAccounted(d) /\ LetterAccounted(d))'
<1>0. /\ TypeOK /\ Linked /\ RowAccounted(d) /\ LetterAccounted(d)
      /\ dlv[d] \in DlvRow /\ MaxRetries \in Nat
      /\ dlv[d].attempts \in Nat /\ dlv[d].retryCount \in Nat
  BY DeliveryAssumption DEF LifeInv, TypeOK, DlvRow
<1>1. RowChange(d)
  BY <1>0, RowStep
<1> DEFINE Same == /\ dlv'[d].attempts = dlv[d].attempts
                   /\ dlv'[d].retryCount = dlv[d].retryCount
<1>2. CASE dlv'[d] = dlv[d] /\ letters'[d] = letters[d]
  BY <1>0, <1>2 DEF RowAccounted, LetterAccounted
<1>3. CASE /\ msg[d[1]].status = "none" /\ dlv'[d] = QueuedRow /\ letters'[d] = letters[d]
  <2>1. dlv'[d].status = "queued" /\ dlv'[d].attempts = 0 /\ dlv'[d].retryCount = 0
    BY <1>3 DEF QueuedRow, NoDlv
  <2>2. dlv[d].status = "none"
    BY <1>0, <1>3 DEF Linked, Exists
  <2> QED
    BY <1>0, <1>3, <2>1, <2>2 DEF RowAccounted, LetterAccounted
<1>4. CASE /\ dlv[d].status = "queued"
           /\ dlv'[d] = DeliveredRow(dlv[d]) /\ letters'[d] = letters[d]
  <2>1. /\ dlv'[d].status = "delivered" /\ dlv'[d].attempts = dlv[d].attempts + 1
        /\ dlv'[d].retryCount = dlv[d].retryCount
    BY <1>0, <1>4 DEF DeliveredRow, DlvRow
  <2> QED
    BY <1>0, <1>4, <2>1 DEF RowAccounted, LetterAccounted
<1>5. CASE dlv'[d] = [dlv[d] EXCEPT !.status = "acked"] /\ letters'[d] = letters[d]
  <2>1. dlv'[d].status = "acked" /\ Same
    BY <1>0, <1>5 DEF DlvRow
  <2> QED
    BY <1>0, <1>5, <2>1 DEF RowAccounted, LetterAccounted
<1>6. CASE /\ moveToDeadLetter(d)
           /\ dlv'[d] = [dlv[d] EXCEPT !.status = "dead_lettered"]
           /\ letters'[d] = letters[d] + 1
  <2>1. dlv'[d].status = "dead_lettered" /\ Same
    BY <1>0, <1>6 DEF DlvRow
  <2>2. dlv[d].status = "delivered" /\ dlv[d].retryCount + 1 > MaxRetries
    BY <1>6 DEF moveToDeadLetter, TimedOut, OutOfRetries
  <2> QED
    BY <1>0, <1>6, <2>1, <2>2 DEF RowAccounted, LetterAccounted
<1>7. CASE /\ TimedOut(d) /\ ~OutOfRetries(d)
           /\ dlv'[d] = RequeuedRow(dlv[d]) /\ letters'[d] = letters[d]
  <2>1. /\ dlv'[d].status = "queued" /\ dlv'[d].attempts = dlv[d].attempts
        /\ dlv'[d].retryCount = dlv[d].retryCount + 1
    BY <1>0, <1>7 DEF RequeuedRow, DlvRow
  <2>2. dlv[d].status = "delivered" /\ dlv[d].retryCount + 1 <= MaxRetries
    BY <1>0, <1>7 DEF TimedOut, OutOfRetries
  <2> QED
    BY <1>0, <1>7, <2>1, <2>2 DEF RowAccounted, LetterAccounted
<1>8. CASE /\ PastTtl(d)
           /\ dlv'[d] = [dlv[d] EXCEPT !.status = "expired"] /\ letters'[d] = letters[d]
  <2>1. dlv'[d].status = "expired" /\ Same
    BY <1>0, <1>8 DEF DlvRow
  <2>2. dlv[d].status \in {"queued", "delivered"}
    BY <1>8 DEF PastTtl
  <2> QED
    BY <1>0, <1>8, <2>1, <2>2 DEF RowAccounted, LetterAccounted
<1> QED
  BY <1>1, <1>2, <1>3, <1>4, <1>5, <1>6, <1>7, <1>8 DEF RowChange

LEMMA LifeStep == LifeInv /\ [Next]_vars => LifeInv'
<1> SUFFICES ASSUME LifeInv, [Next]_vars PROVE LifeInv'
  OBVIOUS
<1>1. TypeOK'
  BY TypeStep DEF LifeInv
<1>2. Linked'
  BY LinkedStep
<1>3. (\A d \in Deliveries : RowAccounted(d) /\ LetterAccounted(d))'
  BY AccountStep DEF Deliveries
<1> QED
  BY <1>1, <1>2, <1>3 DEF LifeInv

LEMMA LifeInductive == Spec => []LifeInv
  BY LifeInit, LifeStep, PTL DEF Spec

\* No delivery is handed out more than MaxRetries + 1 times, and its counters
\* agree with its status, whatever the clients and the network do.
THEOREM RetriesBounded == Spec => []AttemptsAccounted
<1>1. LifeInv => AttemptsAccounted
  BY DEF LifeInv, RowAccounted, AttemptsAccounted
<1> QED
  BY LifeInductive, <1>1, PTL

\* moveToDeadLetter runs at most once per delivery, and a delivery is
\* dead-lettered exactly when its dead letter says so.
THEOREM DeadLettersExact == Spec => []DeadLetterOnce
<1>1. LifeInv => DeadLetterOnce
  BY DEF LifeInv, LetterAccounted, DeadLetterOnce
<1> QED
  BY LifeInductive, <1>1, PTL

-----------------------------------------------------------------------------
(* What a client holds was handed to it *)

\* A client can acknowledge only what it was handed, and a hand-out is
\* counted. LifeInv says the row exists; the ledger also needs the count.
HeldCounted(d) == d[1] \in received[d[2]] => dlv[d].attempts > 0

HeldInv == LifeInv /\ \A d \in Deliveries : HeldCounted(d)

LEMMA HeldInit == Init => HeldInv
<1> SUFFICES ASSUME Init PROVE HeldInv
  OBVIOUS
<1>1. \A d \in Deliveries : d[2] \in Agents
  BY DEF Deliveries
<1> QED
  BY <1>1, LifeInit DEF Init, HeldInv, HeldCounted

LEMMA HeldStep ==
  ASSUME HeldInv, [Next]_vars, NEW d \in Deliveries
  PROVE  HeldCounted(d)'
<1>0. /\ TypeOK /\ Linked /\ HeldCounted(d) /\ dlv[d] \in DlvRow
      /\ d[1] \in Msgs /\ d[2] \in Agents /\ d = <<d[1], d[2]>>
  BY DEF HeldInv, LifeInv, TypeOK, Deliveries
<1> SUFFICES ASSUME (d[1] \in received[d[2]])' PROVE dlv'[d].attempts > 0
  BY DEF HeldCounted
<1>1. CASE d[1] \in received[d[2]]
  <2>1. dlv[d].attempts > 0 /\ msg[d[1]].status # "none"
    BY <1>0, <1>1 DEF HeldCounted, Linked
  <2>2. RowChange(d)
    BY <1>0, RowStep
  <2>3. CASE dlv'[d] = DeliveredRow(dlv[d])
    BY <1>0, <2>1, <2>3 DEF DeliveredRow, DlvRow
  <2> QED
    BY <1>0, <2>1, <2>2, <2>3 DEF RowChange, RequeuedRow, DlvRow
<1>2. CASE d[1] \notin received[d[2]]
  <2>1. PICK a \in Agents, arrives \in BOOLEAN : getInbox(a, arrives)
    BY <1>0, <1>2, NextCases
    DEF enqueue, ClientRestart, ackMessages, sweep, Tick, vars, TypeOK
  <2>2. PICK B \in Batches(a) :
          /\ dlv' = [e \in Deliveries |->
                       IF e[1] \in B /\ e[2] = a THEN DeliveredRow(dlv[e]) ELSE dlv[e]]
          /\ received' = IF arrives THEN [received EXCEPT ![a] = @ \cup B] ELSE received
    BY <2>1 DEF getInbox
  <2>3. d[2] = a /\ d[1] \in B
    BY <1>0, <1>2, <2>2 DEF TypeOK
  <2>4. dlv'[d] = DeliveredRow(dlv[d])
    BY <2>2, <2>3
  <2> QED
    BY <1>0, <2>4 DEF DeliveredRow, DlvRow
<1> QED
  BY <1>1, <1>2

LEMMA HeldInductive == Spec => []HeldInv
<1>1. HeldInv /\ [Next]_vars => HeldInv'
  BY HeldStep, LifeStep DEF HeldInv
<1> QED
  BY HeldInit, <1>1, PTL DEF Spec

-----------------------------------------------------------------------------
(* Acknowledgements are final *)

\* An acknowledged row is never written again: not by a poll, a sweep, a
\* second acknowledgement, nor by a send, which only writes rows of a
\* message that has none.
THEOREM AcksFinal == Spec => AckIsFinal
<1>1. LifeInv /\ [Next]_vars
        => \A d \in Deliveries : dlv[d].status = "acked" => dlv'[d] = dlv[d]
  <2> SUFFICES ASSUME LifeInv, [Next]_vars, NEW d \in Deliveries, dlv[d].status = "acked"
               PROVE  dlv'[d] = dlv[d]
    OBVIOUS
  <2>1. TypeOK /\ msg[d[1]].status # "none"
    BY DEF LifeInv, Linked, Exists
  <2> QED
    BY <2>1, RowStep DEF RowChange, moveToDeadLetter, TimedOut, PastTtl
<1> QED
  BY LifeInductive, <1>1, PTL DEF Spec, AckIsFinal

\* A poll that races the deadline never wins: the inbox query hands out a row
\* only while its message is unexpired, on first delivery and on every retry.
THEOREM DeadlineHolds == Spec => NeverCollectedLate
<1>1. LifeInv /\ [Next]_vars
        => \A d \in Deliveries :
             dlv'[d].attempts # dlv[d].attempts => msg[d[1]].expiresAt > now
  <2> SUFFICES ASSUME LifeInv, [Next]_vars, NEW d \in Deliveries,
                      dlv'[d].attempts # dlv[d].attempts
               PROVE  msg[d[1]].expiresAt > now
    OBVIOUS
  <2>1. TypeOK /\ Linked /\ RowAccounted(d) /\ dlv[d] \in DlvRow
    BY DEF LifeInv, TypeOK
  <2>2. RowChange(d)
    BY <2>1, RowStep
  <2>3. CASE msg[d[1]].status = "none" /\ dlv'[d] = QueuedRow
    <3>1. dlv[d].status = "none"
      BY <2>1, <2>3 DEF Linked, Exists
    <3>2. dlv'[d].attempts = 0
      BY <2>3 DEF QueuedRow, NoDlv
    <3> QED
      BY <2>1, <3>1, <3>2 DEF RowAccounted
  <2> QED
    BY <2>1, <2>2, <2>3 DEF RowChange, RequeuedRow, DlvRow
<1> QED
  BY LifeInductive, <1>1, PTL DEF Spec, NeverCollectedLate

-----------------------------------------------------------------------------
(* The sender-visible status. StatusAgrees alone is not inductive: a late   *)
(* acknowledgement of an expired delivery keeps the message "expired" only  *)
(* because the rows of one message expire together, so another recipient    *)
(* is still expired, or dead-lettered, or all are acknowledged.             *)

St(m, a) == dlv[<<m, a>>].status
HasLetter(m, a) == letters[<<m, a>>] > 0

Addressed(m) == \E a \in Agents : St(m, a) # "none"
Done(m) == \A a \in Agents : St(m, a) \in {"none", "acked"}
Lettered(m) == \E a \in Agents : HasLetter(m, a)
Lapsed(m) == \E a \in Agents : St(m, a) = "expired"

ExpireTogether(m) ==
  Lapsed(m) => \A a \in Agents : St(m, a) \notin {"queued", "delivered"}

StatusCorrect(m) == msg[m].status # "none" => msg[m].status = DerivedStatus(m)

StatusInv == LifeInv /\ \A m \in Msgs : ExpireTogether(m) /\ StatusCorrect(m)

\* DerivedStatus in those terms, before and after a step.
LEMMA StatusForm ==
  ASSUME NEW m \in Msgs
  PROVE  /\ DerivedStatus(m) = IF Addressed(m) /\ Done(m) THEN "acked"
                               ELSE IF Lettered(m) THEN "dead_lettered"
                               ELSE IF Lapsed(m) THEN "expired" ELSE "queued"
         /\ DerivedStatus(m)' = IF Addressed(m)' /\ Done(m)' THEN "acked"
                                ELSE IF Lettered(m)' THEN "dead_lettered"
                                ELSE IF Lapsed(m)' THEN "expired" ELSE "queued"
<1>1. Recipients(m) # {} /\ AllAcked(m) <=> Addressed(m) /\ Done(m)
  <2>1. Recipients(m) = {a \in Agents : St(m, a) # "none"}
    BY Zenon DEF Recipients, Exists, St
  <2>2. AllAcked(m) <=> \A a \in Recipients(m) : St(m, a) = "acked"
    BY Zenon DEF AllAcked, St
  <2> QED
    BY <2>1, <2>2 DEF Addressed, Done
<1>2. Recipients(m)' # {} /\ AllAcked(m)' <=> Addressed(m)' /\ Done(m)'
  <2>1. Recipients(m)' = {a \in Agents : St(m, a)' # "none"}
    BY Zenon DEF Recipients, Exists, St
  <2>2. AllAcked(m)' <=> \A a \in Recipients(m)' : St(m, a)' = "acked"
    BY Zenon DEF AllAcked, St
  <2> QED
    BY <2>1, <2>2 DEF Addressed, Done
<1>3. /\ Lettered(m) <=> \E a \in Agents : letters[<<m, a>>] > 0
      /\ Lettered(m)' <=> \E a \in Agents : letters'[<<m, a>>] > 0
      /\ Lapsed(m) <=> \E a \in Agents : dlv[<<m, a>>].status = "expired"
      /\ Lapsed(m)' <=> \E a \in Agents : dlv'[<<m, a>>].status = "expired"
  BY Zenon DEF Lettered, HasLetter, Lapsed, St
<1> QED
  BY <1>1, <1>2, <1>3, Zenon DEF DerivedStatus

\* The step closes no delivery of m and writes none of its dead letters.
KeptRow(m, a) ==
  /\ \/ St(m, a)' = St(m, a)
     \/ {St(m, a), St(m, a)'} \subseteq {"queued", "delivered"}
  /\ HasLetter(m, a)' <=> HasLetter(m, a)

\* A message whose own row keeps its status and whose deliveries only move
\* between queued and delivered stays correct.
LEMMA UntouchedMessage ==
  ASSUME NEW m \in Msgs, ExpireTogether(m), StatusCorrect(m),
         msg'[m].status = msg[m].status, \A a \in Agents : KeptRow(m, a)
  PROVE  (ExpireTogether(m) /\ StatusCorrect(m))'
<1>1. \A a \in Agents :
        /\ St(m, a)' = "none" <=> St(m, a) = "none"
        /\ St(m, a)' = "expired" <=> St(m, a) = "expired"
        /\ St(m, a)' \in {"none", "acked"} <=> St(m, a) \in {"none", "acked"}
        /\ St(m, a)' \in {"queued", "delivered"} <=> St(m, a) \in {"queued", "delivered"}
        /\ HasLetter(m, a)' <=> HasLetter(m, a)
  BY DEF KeptRow
<1>2. /\ Addressed(m)' <=> Addressed(m)
      /\ Done(m)' <=> Done(m)
      /\ Lettered(m)' <=> Lettered(m)
      /\ Lapsed(m)' <=> Lapsed(m)
  BY <1>1 DEF Addressed, Done, Lettered, Lapsed
<1>3. DerivedStatus(m)' = DerivedStatus(m)
  BY <1>2, StatusForm
<1>4. ExpireTogether(m)'
  BY <1>1, <1>2 DEF ExpireTogether
<1> QED
  BY <1>3, <1>4 DEF StatusCorrect

\* A step that leaves a delivery's row and letters alone keeps it.
LEMMA SameRowKept ==
  ASSUME NEW m, NEW a, dlv'[<<m, a>>] = dlv[<<m, a>>], letters'[<<m, a>>] = letters[<<m, a>>]
  PROVE  KeptRow(m, a)
  BY DEF KeptRow, St, HasLetter

LEMMA StatusFacts ==
  ASSUME StatusInv, NEW m \in Msgs, NEW a \in Agents
  PROVE  /\ TypeOK /\ Linked /\ ExpireTogether(m) /\ StatusCorrect(m)
         /\ <<m, a>> \in Deliveries /\ dlv[<<m, a>>] \in DlvRow
         /\ HasLetter(m, a) => St(m, a) \in {"dead_lettered", "acked"}
         /\ St(m, a) = "dead_lettered" => HasLetter(m, a)
         /\ St(m, a) # "none" => msg[m].status # "none"
         /\ St(m, a) \in DlvStatus
<1>1. <<m, a>> \in Deliveries
  BY DEF Deliveries
<1>2. /\ TypeOK /\ Linked /\ ExpireTogether(m) /\ StatusCorrect(m)
      /\ LetterAccounted(<<m, a>>) /\ dlv[<<m, a>>] \in DlvRow
  BY <1>1 DEF StatusInv, LifeInv, TypeOK
<1>3. St(m, a) # "none" => msg[m].status # "none"
  BY <1>1, <1>2 DEF Linked, Exists, St
<1>4. St(m, a) \in DlvStatus
  BY <1>2 DEF DlvRow, St
<1> QED
  BY <1>1, <1>2, <1>3, <1>4 DEF LetterAccounted, HasLetter, St

LEMMA StatusInit == Init => StatusInv
<1> SUFFICES ASSUME Init PROVE StatusInv
  OBVIOUS
<1>1. ASSUME NEW m \in Msgs, NEW a \in Agents PROVE St(m, a) = "none"
  BY DEF Init, Deliveries, NoDlv, St
<1>2. \A m \in Msgs : msg[m].status = "none"
  BY DEF Init, NoMsg
<1> QED
  BY <1>1, <1>2, LifeInit DEF StatusInv, ExpireTogether, Lapsed, StatusCorrect

LEMMA StatusEnqueue ==
  ASSUME StatusInv, NEW n \in Msgs, NEW ttl \in Ttls, NEW R \in SUBSET Agents,
         enqueue(n, ttl, R), NEW m \in Msgs
  PROVE  (ExpireTogether(m) /\ StatusCorrect(m))'
<1>1. dlv' = [d \in Deliveries |-> IF d[1] = n /\ d[2] \in R THEN QueuedRow ELSE dlv[d]]
  BY DEF enqueue
<1>2. CASE m # n
  <2>1. ASSUME NEW a \in Agents PROVE KeptRow(m, a)
    <3>1. <<m, a>> \in Deliveries
      BY DEF Deliveries
    <3>2. dlv'[<<m, a>>] = dlv[<<m, a>>] /\ letters'[<<m, a>>] = letters[<<m, a>>]
      BY <1>1, <1>2, <3>1 DEF enqueue
    <3> QED
      BY <3>2, SameRowKept
  <2>2. msg'[m].status = msg[m].status
    BY <1>2 DEF enqueue, StatusInv, LifeInv, TypeOK
  <2>3. ExpireTogether(m) /\ StatusCorrect(m)
    BY DEF StatusInv
  <2> QED
    BY <2>1, <2>2, <2>3, UntouchedMessage
<1>3. CASE m = n
  <2>1. ASSUME NEW a \in Agents
        PROVE  St(m, a)' \in {"none", "queued"} /\ ~HasLetter(m, a)'
    <3>1. <<m, a>> \in Deliveries /\ St(m, a) = "none" /\ ~HasLetter(m, a)
      BY <1>3, StatusFacts DEF enqueue
    <3>2. dlv'[<<m, a>>] = QueuedRow \/ dlv'[<<m, a>>] = dlv[<<m, a>>]
      BY <1>1, <3>1
    <3>3. St(m, a)' \in {"none", "queued"}
      BY <3>1, <3>2 DEF St, QueuedRow, NoDlv
    <3> QED
      BY <3>1, <3>3 DEF HasLetter, enqueue
  <2>2. ~(Addressed(m)' /\ Done(m)') /\ ~Lettered(m)' /\ ~Lapsed(m)'
    BY <2>1 DEF Addressed, Done, Lettered, Lapsed
  <2>3. msg'[m].status = "queued"
    BY <1>3 DEF enqueue, StatusInv, LifeInv, TypeOK
  <2> QED
    BY <2>2, <2>3, StatusForm DEF ExpireTogether, StatusCorrect
<1> QED
  BY <1>2, <1>3

LEMMA StatusPoll ==
  ASSUME StatusInv, NEW b \in Agents, NEW arrives \in BOOLEAN, getInbox(b, arrives), NEW m \in Msgs
  PROVE  (ExpireTogether(m) /\ StatusCorrect(m))'
<1>1. PICK B \in Batches(b) :
        dlv' = [d \in Deliveries |->
                  IF d[1] \in B /\ d[2] = b THEN DeliveredRow(dlv[d]) ELSE dlv[d]]
  BY DEF getInbox
<1>2. B \subseteq Collectable(b)
  BY DEF Batches
<1>3. ASSUME NEW a \in Agents PROVE KeptRow(m, a)
  <2>0. /\ <<m, a>> \in Deliveries /\ dlv[<<m, a>>] \in DlvRow
        /\ letters'[<<m, a>>] = letters[<<m, a>>]
    BY StatusFacts DEF getInbox
  <2>1. CASE m \in B /\ a = b
    <3>1. St(m, a) = "queued"
      BY <1>2, <2>1 DEF Collectable, St
    <3>2. dlv'[<<m, a>>] = DeliveredRow(dlv[<<m, a>>])
      BY <2>0, <1>1, <2>1
    <3>3. St(m, a)' = "delivered"
      BY <2>0, <3>2 DEF DeliveredRow, DlvRow, St
    <3>4. HasLetter(m, a)' <=> HasLetter(m, a)
      BY <2>0 DEF HasLetter
    <3> QED
      BY <3>1, <3>3, <3>4 DEF KeptRow
  <2>2. CASE ~(m \in B /\ a = b)
    <3>1. dlv'[<<m, a>>] = dlv[<<m, a>>]
      BY <2>0, <1>1, <2>2
    <3> QED
      BY <2>0, <3>1, SameRowKept
  <2> QED
    BY <2>1, <2>2
<1>4. msg'[m].status = msg[m].status /\ ExpireTogether(m) /\ StatusCorrect(m)
  BY DEF getInbox, StatusInv
<1> QED
  BY <1>3, <1>4, UntouchedMessage

\* An acknowledgement, a late one included.
LEMMA StatusAck ==
  ASSUME StatusInv, NEW b \in Agents, NEW n \in Msgs, ackMessages(b, n), NEW m \in Msgs
  PROVE  (ExpireTogether(m) /\ StatusCorrect(m))'
<1>0. /\ TypeOK /\ ExpireTogether(m) /\ StatusCorrect(m)
      /\ letters' = letters /\ dlv' = [dlv EXCEPT ![<<n, b>>].status = "acked"]
  BY DEF ackMessages, StatusInv, LifeInv
<1>1. ASSUME NEW a \in Agents, m # n \/ a # b
      PROVE  dlv'[<<m, a>>] = dlv[<<m, a>>] /\ KeptRow(m, a)
  <2>1. <<m, a>> \in Deliveries /\ <<m, a>> # <<n, b>>
    BY <1>1 DEF Deliveries
  <2>2. dlv'[<<m, a>>] = dlv[<<m, a>>]
    BY <1>0, <2>1 DEF TypeOK
  <2> QED
    BY <1>0, <2>2, SameRowKept
<1>2. CASE m # n
  <2>1. msg'[m].status = msg[m].status
    BY <1>0, <1>2 DEF ackMessages, TypeOK
  <2> QED
    BY <1>0, <1>1, <1>2, <2>1, UntouchedMessage
<1>3. CASE m = n
  <2>1. St(m, b)' = "acked" /\ (HasLetter(m, b)' <=> HasLetter(m, b))
    <3>1. <<m, b>> \in Deliveries /\ dlv[<<m, b>>] \in DlvRow
      BY StatusFacts
    <3> QED
      BY <1>0, <1>3, <3>1 DEF TypeOK, DlvRow, St, HasLetter
  <2>2. \A a \in Agents \ {b} : St(m, a)' = St(m, a) /\ (HasLetter(m, a)' <=> HasLetter(m, a))
    <3> TAKE a \in Agents \ {b}
    <3>1. dlv'[<<m, a>>] = dlv[<<m, a>>]
      BY <1>1
    <3> QED
      BY <1>0, <3>1 DEF St, HasLetter
  <2>3. St(m, b) \notin {"none", "acked"} /\ msg[m].status # "none"
    <3>1. <<m, b>> \in Deliveries
      BY DEF Deliveries
    <3>2. St(m, b) \notin {"none", "acked"}
      BY <1>3, <3>1 DEF ackMessages, StatusInv, LifeInv, Linked, Exists, St
    <3> QED
      BY <3>2, StatusFacts
  <2>4. ExpireTogether(m)'
    BY <1>0, <2>1, <2>2, <2>3 DEF ExpireTogether, Lapsed
  <2>5. Addressed(m)' /\ (Lettered(m)' <=> Lettered(m)) /\ ~Done(m)
    BY <2>1, <2>2, <2>3 DEF Addressed, Lettered, Done
  <2>6. CASE \A r \in Agents \ {b} : St(m, r) \in {"none", "acked"}
    <3>1. \A r \in Recipients(m) \ {b} : dlv[<<m, r>>].status = "acked"
      <4> TAKE r \in Recipients(m) \ {b}
      <4>1. r \in Agents /\ St(m, r) # "none"
        BY DEF Recipients, Exists, St
      <4> QED
        BY <2>6, <4>1 DEF St
    <3>2. msg'[m].status = "acked"
      BY <1>0, <1>3, <3>1 DEF ackMessages, TypeOK, MsgRow
    <3>3. Done(m)'
      BY <2>1, <2>2, <2>6 DEF Done
    <3> QED
      BY <2>4, <2>5, <3>2, <3>3, StatusForm DEF StatusCorrect
  <2>7. CASE \E r \in Agents \ {b} : St(m, r) \notin {"none", "acked"}
    <3>1. PICK r \in Agents \ {b} : St(m, r) \notin {"none", "acked"}
      BY <2>7
    <3>2. msg' = msg
      <4>1. r \in Recipients(n) \ {b} /\ dlv[<<n, r>>].status # "acked"
        BY <1>3, <3>1 DEF Recipients, Exists, St
      <4> QED
        BY <4>1 DEF ackMessages
    <3>3. ~Done(m)'
      BY <2>2, <3>1 DEF Done
    <3>4. ASSUME ~Lettered(m), Lapsed(m) PROVE St(m, r) = "expired"
      <4>1. St(m, r) \notin {"queued", "delivered"}
        BY <1>0, <3>4 DEF ExpireTogether
      <4>2. St(m, r) # "dead_lettered" /\ St(m, r) \in DlvStatus
        BY <3>4, StatusFacts DEF Lettered
      <4> QED
        BY <3>1, <4>1, <4>2 DEF DlvStatus
    <3>5. ~Lettered(m) => (Lapsed(m)' <=> Lapsed(m))
      BY <2>1, <2>2, <3>4 DEF Lapsed
    <3> QED
      BY <1>0, <2>3, <2>4, <2>5, <3>2, <3>3, <3>5, StatusForm DEF StatusCorrect
  <2> QED
    BY <2>6, <2>7
<1> QED
  BY <1>2, <1>3

\* What the sweep does to one delivery, in terms of St and HasLetter.
LEMMA SweepCases ==
  ASSUME StatusInv, NEW rr \in BOOLEAN, NEW er \in BOOLEAN, sweep(rr, er),
         NEW m \in Msgs, NEW a \in Agents
  PROVE  \/ /\ rr /\ moveToDeadLetter(<<m, a>>) /\ msg[m].expiresAt > now
            /\ St(m, a) = "delivered" /\ St(m, a)' = "dead_lettered" /\ HasLetter(m, a)'
         \/ /\ er /\ PastTtl(<<m, a>>) /\ msg[m].expiresAt <= now
            /\ St(m, a) \in {"queued", "delivered"} /\ St(m, a)' = "expired"
            /\ HasLetter(m, a)' <=> HasLetter(m, a)
         \/ /\ ~(rr /\ moveToDeadLetter(<<m, a>>)) /\ ~(er /\ PastTtl(<<m, a>>))
            /\ KeptRow(m, a)
<1>0. /\ TypeOK /\ <<m, a>> \in Deliveries /\ dlv[<<m, a>>] \in DlvRow
      /\ <<m, a>>[1] = m /\ letters[<<m, a>>] \in Nat
  BY StatusFacts DEF TypeOK
<1>1. /\ dlv'[<<m, a>>] = SweptRow(<<m, a>>, rr, er)
      /\ letters'[<<m, a>>] = IF rr /\ moveToDeadLetter(<<m, a>>)
                              THEN letters[<<m, a>>] + 1 ELSE letters[<<m, a>>]
  BY <1>0 DEF sweep
<1>2. CASE /\ rr /\ moveToDeadLetter(<<m, a>>)
           /\ SweptRow(<<m, a>>, rr, er) = [dlv[<<m, a>>] EXCEPT !.status = "dead_lettered"]
  <2>1. St(m, a) = "delivered" /\ msg[m].expiresAt > now
    BY <1>0, <1>2 DEF moveToDeadLetter, TimedOut, St
  <2>2. St(m, a)' = "dead_lettered"
    BY <1>0, <1>1, <1>2 DEF St, DlvRow
  <2>3. HasLetter(m, a)'
    BY <1>0, <1>1, <1>2 DEF HasLetter
  <2> QED
    BY <1>2, <2>1, <2>2, <2>3
<1>3. CASE /\ rr /\ TimedOut(<<m, a>>) /\ ~OutOfRetries(<<m, a>>)
           /\ SweptRow(<<m, a>>, rr, er) = RequeuedRow(dlv[<<m, a>>])
  <2>1. ~moveToDeadLetter(<<m, a>>) /\ ~PastTtl(<<m, a>>)
    BY <1>0, <1>3, SweepsDisjoint DEF moveToDeadLetter
  <2>2. St(m, a) = "delivered"
    BY <1>3 DEF TimedOut, St
  <2>3. St(m, a)' = "queued"
    BY <1>0, <1>1, <1>3 DEF St, DlvRow, RequeuedRow
  <2>4. HasLetter(m, a)' <=> HasLetter(m, a)
    BY <1>1, <2>1 DEF HasLetter
  <2> QED
    BY <2>1, <2>2, <2>3, <2>4 DEF KeptRow
<1>4. CASE /\ er /\ PastTtl(<<m, a>>) /\ ~moveToDeadLetter(<<m, a>>)
           /\ SweptRow(<<m, a>>, rr, er) = [dlv[<<m, a>>] EXCEPT !.status = "expired"]
  <2>1. St(m, a) \in {"queued", "delivered"} /\ msg[m].expiresAt <= now
    BY <1>0, <1>4 DEF PastTtl, St
  <2>2. St(m, a)' = "expired"
    BY <1>0, <1>1, <1>4 DEF St, DlvRow
  <2>3. HasLetter(m, a)' <=> HasLetter(m, a)
    BY <1>1, <1>4 DEF HasLetter
  <2> QED
    BY <1>4, <2>1, <2>2, <2>3
<1>5. CASE /\ ~(rr /\ moveToDeadLetter(<<m, a>>)) /\ ~(er /\ PastTtl(<<m, a>>))
           /\ SweptRow(<<m, a>>, rr, er) = dlv[<<m, a>>]
  <2>1. dlv'[<<m, a>>] = dlv[<<m, a>>] /\ letters'[<<m, a>>] = letters[<<m, a>>]
    BY <1>1, <1>5
  <2> QED
    BY <1>5, <2>1, SameRowKept
<1> QED
  BY <1>0, <1>2, <1>3, <1>4, <1>5, SweptRowCases

LEMMA StatusSweep ==
  ASSUME StatusInv, NEW rr \in BOOLEAN, NEW er \in BOOLEAN, sweep(rr, er), NEW m \in Msgs
  PROVE  (ExpireTogether(m) /\ StatusCorrect(m))'
<1>0. /\ ExpireTogether(m) /\ StatusCorrect(m)
      /\ msg[m].expiresAt \in Int /\ now \in Int
      /\ msg'[m].status = SweptStatus(m, rr, er)
  BY DeliveryAssumption DEF StatusInv, LifeInv, TypeOK, MsgRow, NoTime, sweep
<1> DEFINE Kills(a) == rr /\ moveToDeadLetter(<<m, a>>)
           Lapses(a) == er /\ PastTtl(<<m, a>>)
<1>a. ASSUME NEW a \in Agents
      PROVE  /\ moveToDeadLetter(<<m, a>>) => msg[m].expiresAt > now /\ ~(msg[m].expiresAt <= now)
             /\ PastTtl(<<m, a>>) => msg[m].expiresAt <= now /\ ~(msg[m].expiresAt > now)
  BY <1>0 DEF moveToDeadLetter, TimedOut, PastTtl
<1>1. CASE \E a \in Agents : Kills(a)
  <2>1. PICK b \in Agents : Kills(b)
    BY <1>1
  <2>2. /\ msg[m].expiresAt > now
        /\ St(m, b) = "delivered" /\ St(m, b)' = "dead_lettered" /\ HasLetter(m, b)'
    BY <1>a, <2>1, SweepCases
  <2>3. msg[m].status # "none"
    BY <2>2, StatusFacts
  <2>4. ~Done(m) /\ ~Lapsed(m)
    BY <1>0, <2>2 DEF Done, ExpireTogether
  <2>5. msg[m].status # "acked"
    BY <1>0, <2>3, <2>4, StatusForm DEF StatusCorrect
  <2>6. msg'[m].status = "dead_lettered"
    <3>1. \A a \in Agents : ~PastTtl(<<m, a>>)
      BY <1>a, <2>2
    <3> QED
      BY <1>0, <2>1, <2>5, <3>1 DEF SweptStatus
  <2>7. ~Done(m)' /\ Lettered(m)'
    BY <2>2 DEF Done, Lettered
  <2>8. ~Lapsed(m)'
    <3>1. ASSUME NEW a \in Agents PROVE St(m, a)' # "expired"
      <4>1. ~(msg[m].expiresAt <= now) /\ St(m, a) # "expired"
        BY <1>0, <2>2, <2>4 DEF Lapsed
      <4> QED
        BY <4>1, SweepCases DEF KeptRow
    <3> QED
      BY <3>1 DEF Lapsed
  <2> QED
    BY <2>6, <2>7, <2>8, StatusForm DEF ExpireTogether, StatusCorrect
<1>2. CASE \E a \in Agents : Lapses(a)
  <2>1. PICK b \in Agents : Lapses(b)
    BY <1>2
  <2>2. /\ msg[m].expiresAt <= now /\ ~(msg[m].expiresAt > now)
        /\ St(m, b) \in {"queued", "delivered"} /\ St(m, b)' = "expired"
    <3>1. ~moveToDeadLetter(<<m, b>>)
      BY <1>a, <2>1
    <3>2. /\ msg[m].expiresAt <= now
          /\ St(m, b) \in {"queued", "delivered"} /\ St(m, b)' = "expired"
      BY <2>1, <3>1, SweepCases
    <3> QED
      BY <1>0, <3>2
  <2>3. ASSUME NEW a \in Agents
        PROVE  /\ ~Kills(a) /\ (HasLetter(m, a)' <=> HasLetter(m, a))
               /\ St(m, a)' \notin {"queued", "delivered"}
    <3>1. CASE Lapses(a)
      BY <1>a, <2>2, <3>1, SweepCases
    <3>2. CASE ~Lapses(a)
      <4>1. KeptRow(m, a) /\ ~Kills(a)
        BY <1>a, <2>2, <3>2, SweepCases
      <4>2. St(m, a) \notin {"queued", "delivered"}
        BY <1>0, <2>1, <2>2, <3>2 DEF PastTtl, St
      <4> QED
        BY <4>1, <4>2 DEF KeptRow
    <3> QED
      BY <3>1, <3>2
  <2>4. ~Done(m) /\ ~Done(m)' /\ Lapsed(m)' /\ (Lettered(m)' <=> Lettered(m))
    BY <2>2, <2>3 DEF Done, Lapsed, Lettered
  <2>5. msg[m].status = IF Lettered(m) THEN "dead_lettered"
                        ELSE IF Lapsed(m) THEN "expired" ELSE "queued"
    BY <1>0, <2>2, <2>4, StatusForm, StatusFacts DEF StatusCorrect
  <2>6. msg'[m].status = IF Lettered(m) THEN "dead_lettered" ELSE "expired"
    BY <1>0, <2>1, <2>3, <2>5 DEF SweptStatus
  <2> QED
    BY <2>3, <2>4, <2>6, StatusForm DEF ExpireTogether, StatusCorrect
<1>3. CASE \A a \in Agents : ~Kills(a) /\ ~Lapses(a)
  <2>1. \A a \in Agents : KeptRow(m, a)
    BY <1>3, SweepCases
  <2>2. msg'[m].status = msg[m].status
    BY <1>0, <1>3 DEF SweptStatus
  <2> QED
    BY <1>0, <2>1, <2>2, UntouchedMessage
<1> QED
  BY <1>1, <1>2, <1>3

LEMMA StatusStep == StatusInv /\ [Next]_vars => StatusInv'
<1> SUFFICES ASSUME StatusInv, [Next]_vars PROVE StatusInv'
  OBVIOUS
<1>1. LifeInv'
  BY LifeStep DEF StatusInv
<1>2. ASSUME NEW m \in Msgs PROVE (ExpireTogether(m) /\ StatusCorrect(m))'
  <2>1. ASSUME msg' = msg, dlv' = dlv, letters' = letters
        PROVE  (ExpireTogether(m) /\ StatusCorrect(m))'
    <3>1. \A a \in Agents : KeptRow(m, a)
      BY <2>1, SameRowKept
    <3>2. msg'[m].status = msg[m].status /\ ExpireTogether(m) /\ StatusCorrect(m)
      BY <2>1 DEF StatusInv
    <3> QED
      BY <3>1, <3>2, UntouchedMessage
  <2>2. CASE (\E a \in Agents : ClientRestart(a)) \/ Tick \/ UNCHANGED vars
    BY <2>1, <2>2 DEF ClientRestart, Tick, vars
  <2> QED
    BY <2>2, StatusEnqueue, StatusPoll, StatusAck, StatusSweep, NextCases
<1> QED
  BY <1>1, <1>2 DEF StatusInv

\* messages.status, written by the senders, ackMessages, moveToDeadLetter
\* and sweepExpiredMessages and never recomputed, always says what the
\* message's deliveries add up to.
THEOREM StatusFaithful == Spec => []StatusAgrees
<1>1. StatusInv => StatusAgrees
  BY DEF StatusInv, StatusCorrect, StatusAgrees
<1> QED
  BY StatusInit, StatusStep, <1>1, PTL DEF Spec

\* The ledger's books are exact for every fleet, retry limit and backoff
\* table: rows, hand-outs, retries and dead letters agree after any steps.
THEOREM RowsStaySound == Spec => []RowsSound
<1>1. TypeOK /\ AttemptsAccounted /\ DeadLetterOnce => RowsSound
  BY DEF RowsSound
<1> QED
  BY DeliveryTypeOK, RetriesBounded, DeadLettersExact, <1>1, PTL

-----------------------------------------------------------------------------
(* MinWait computes what it says: a recursive function, by induction *)

\* A set of numbers that has 0 and every successor has them all.
LEMMA Counting ==
  ASSUME NEW S, 0 \in S, \A n \in Nat : n \in S => n + 1 \in S
  PROVE  Nat \subseteq S
<1> DEFINE T == {n \in Nat : n \notin S}
<1>1. SUFFICES ASSUME T # {} PROVE FALSE
  OBVIOUS
<1>2. PICK x \in T : \A y \in T : ~(<<y, x>> \in OpToRel(<, Nat))
  <2>1. IsWellFoundedOn(OpToRel(<, Nat), Nat)
    BY NatLessThanWellFounded
  <2>2. T \subseteq Nat
    OBVIOUS
  <2> HIDE DEF T
  <2> QED
    BY <1>1, <2>1, <2>2, WFMin
<1>3. x \in Nat /\ x # 0 /\ x \notin S
  OBVIOUS
<1>4. x - 1 \in Nat /\ x - 1 < x /\ (x - 1) + 1 = x
  BY <1>3
<1>5. x - 1 \in T
  BY <1>3, <1>4
<1>6. <<x - 1, x>> \in OpToRel(<, Nat)
  BY <1>3, <1>4 DEF OpToRel
<1> QED
  BY <1>2, <1>5, <1>6

\* The sums of the first entries of W, up to the n-th.
SumsTo(W, n) ==
  {f \in [0..n -> Nat] : \A i \in 0..n : f[i] = IF i = 0 THEN 0 ELSE f[i - 1] + W[i]}

LEMMA SumsExist ==
  ASSUME NEW W \in [Nat -> Nat], NEW n \in Nat
  PROVE  SumsTo(W, n) # {}
<1> DEFINE S == {k \in Nat : SumsTo(W, k) # {}}
<1>1. 0 \in S
  <2>1. [i \in 0..0 |-> 0] \in SumsTo(W, 0)
    BY DEF SumsTo
  <2> QED
    BY <2>1
<1>2. ASSUME NEW k \in Nat, k \in S PROVE k + 1 \in S
  <2>1. PICK f : f \in SumsTo(W, k)
    BY <1>2
  <2>2. /\ f \in [0..k -> Nat]
        /\ \A i \in 0..k : f[i] = IF i = 0 THEN 0 ELSE f[i - 1] + W[i]
    BY <2>1 DEF SumsTo
  <2> DEFINE g == [i \in 0..(k + 1) |-> IF i <= k THEN f[i] ELSE f[k] + W[k + 1]]
  <2>3. g \in [0..(k + 1) -> Nat]
    <3>1. k \in 0..k /\ k + 1 \in Nat /\ f \in [0..k -> Nat]
      BY <2>2
    <3>2. f[k] \in Nat /\ W[k + 1] \in Nat /\ \A i \in 0..k : f[i] \in Nat
      BY <3>1
    <3> QED
      BY <3>2
  <2>4. ASSUME NEW i \in 0..(k + 1) PROVE g[i] = IF i = 0 THEN 0 ELSE g[i - 1] + W[i]
    <3>1. CASE i <= k
      <4>1. i \in 0..k /\ g[i] = f[i] /\ (i # 0 => i - 1 \in 0..k /\ g[i - 1] = f[i - 1])
        BY <3>1
      <4> QED
        BY <2>2, <4>1
    <3>2. CASE i = k + 1
      BY <3>2
    <3> QED
      BY <3>1, <3>2
  <2> HIDE DEF g
  <2>5. g \in SumsTo(W, k + 1)
    BY <2>3, <2>4 DEF SumsTo
  <2> QED
    BY <2>5
<1> HIDE DEF S
<1>3. Nat \subseteq S
  BY <1>1, <1>2, Counting
<1> QED
  BY <1>3 DEF S

LEMMA SumsAgree ==
  ASSUME NEW W \in [Nat -> Nat], NEW n \in Nat, NEW m \in Nat,
         NEW f \in SumsTo(W, n), NEW g \in SumsTo(W, m)
  PROVE  \A i \in 0..n : i \in 0..m => f[i] = g[i]
<1> DEFINE S == {i \in Nat : i \in 0..n /\ i \in 0..m => f[i] = g[i]}
<1>0. /\ \A i \in 0..n : f[i] = IF i = 0 THEN 0 ELSE f[i - 1] + W[i]
      /\ \A i \in 0..m : g[i] = IF i = 0 THEN 0 ELSE g[i - 1] + W[i]
  BY DEF SumsTo
<1>1. 0 \in S
  BY <1>0
<1>2. ASSUME NEW k \in Nat, k \in S PROVE k + 1 \in S
  <2> SUFFICES ASSUME k + 1 \in 0..n, k + 1 \in 0..m PROVE f[k + 1] = g[k + 1]
    OBVIOUS
  <2>1. k \in 0..n /\ k \in 0..m /\ (k + 1) - 1 = k /\ k + 1 # 0
    OBVIOUS
  <2>2. f[k] = g[k]
    BY <1>2, <2>1
  <2> QED
    BY <1>0, <2>1, <2>2
<1> HIDE DEF S
<1>3. Nat \subseteq S
  BY <1>1, <1>2, Counting
<1> QED
  BY <1>3 DEF S

\* Hence the recursive equation of the sums has a solution.
LEMMA SumsOf ==
  ASSUME NEW W \in [Nat -> Nat]
  PROVE  \E F \in [Nat -> Nat] : F = [n \in Nat |-> IF n = 0 THEN 0 ELSE F[n - 1] + W[n]]
<1> DEFINE P(n) == CHOOSE f : f \in SumsTo(W, n)
           F == [n \in Nat |-> P(n)[n]]
<1>1. ASSUME NEW n \in Nat PROVE P(n) \in SumsTo(W, n)
  BY SumsExist
<1> HIDE DEF P
<1>2. ASSUME NEW n \in Nat PROVE P(n)[n] \in Nat /\ (n = 0 => P(n)[n] = 0)
  <2>1. PICK f \in SumsTo(W, n) : f = P(n)
    BY <1>1
  <2>2. n \in 0..n /\ f \in [0..n -> Nat] /\ (n = 0 => f[n] = 0)
    BY DEF SumsTo
  <2> QED
    BY <2>1, <2>2
<1>3. ASSUME NEW n \in Nat, n # 0 PROVE P(n)[n] = P(n - 1)[n - 1] + W[n]
  <2>0. n - 1 \in Nat /\ n - 1 \in 0..n /\ n - 1 \in 0..(n - 1) /\ n \in 0..n
    BY <1>3
  <2>1. P(n)[n] = P(n)[n - 1] + W[n]
    BY <1>1, <1>3, <2>0 DEF SumsTo
  <2>2. PICK f \in SumsTo(W, n) : f = P(n)
    BY <1>1
  <2>3. PICK g \in SumsTo(W, n - 1) : g = P(n - 1)
    BY <1>1, <2>0
  <2>4. f[n - 1] = g[n - 1]
    BY <2>0, SumsAgree
  <2> QED
    BY <2>1, <2>2, <2>3, <2>4
<1>4. F \in [Nat -> Nat]
  BY <1>2
<1>5. \A n \in Nat : F[n] = IF n = 0 THEN 0 ELSE F[n - 1] + W[n]
  BY <1>2, <1>3
<1> HIDE DEF F
<1>6. F = [n \in Nat |-> IF n = 0 THEN 0 ELSE F[n - 1] + W[n]]
  BY <1>4, <1>5
<1> QED
  BY <1>4, <1>6

\* So MinWait is what its defining equation says.
LEMMA MinWaitIs ==
  /\ \A n \in Nat : MinWait[n] \in Nat
  /\ MinWait[0] = 0
  /\ \A n \in Nat : MinWait[n + 1] = MinWait[n] + DeliveryTimeout + 1 + BackoffOf(n + 1)
<1> DEFINE W == [n \in Nat |-> IF n = 0 THEN 0 ELSE DeliveryTimeout + 1 + BackoffOf(n)]
           Eq(F) == F = [n \in Nat |-> IF n = 0 THEN 0
                                       ELSE F[n - 1] + DeliveryTimeout + 1 + BackoffOf(n)]
<1>0. /\ DeliveryTimeout \in Nat
      /\ \A n \in Nat : n # 0 => BackoffOf(n) \in Nat
  BY DeliveryAssumption, BackoffType
<1>1. W \in [Nat -> Nat]
  BY <1>0
<1>w. \A n \in Nat : n # 0 => W[n] = DeliveryTimeout + 1 + BackoffOf(n)
  OBVIOUS
<1> HIDE DEF W
<1>2. PICK F \in [Nat -> Nat] : F = [n \in Nat |-> IF n = 0 THEN 0 ELSE F[n - 1] + W[n]]
  BY <1>1, SumsOf
<1>3. Eq(F)
  <2>1. \A n \in Nat : n # 0 => F[n - 1] + W[n] = F[n - 1] + DeliveryTimeout + 1 + BackoffOf(n)
    <3> TAKE n \in Nat
    <3> HAVE n # 0
    <3>1. F[n - 1] \in Nat /\ BackoffOf(n) \in Nat
      BY <1>0
    <3> QED
      BY <1>0, <1>w, <3>1
  <2> QED
    BY <1>2, <2>1
<1>4. MinWait = CHOOSE G : Eq(G)
  BY DEF MinWait
<1> HIDE DEF Eq
<1>5. Eq(MinWait)
  BY <1>3, <1>4
<1>6. \A n \in Nat : MinWait[n] = IF n = 0 THEN 0
                                  ELSE MinWait[n - 1] + DeliveryTimeout + 1 + BackoffOf(n)
  BY <1>5 DEF Eq
<1> HIDE DEF W
<1>7. MinWait[0] = 0
  BY <1>6
<1>8. \A n \in Nat : MinWait[n + 1] = MinWait[n] + DeliveryTimeout + 1 + BackoffOf(n + 1)
  BY <1>6
<1> DEFINE S == {n \in Nat : MinWait[n] \in Nat}
<1>9. ASSUME NEW n \in Nat, n \in S PROVE n + 1 \in S
  BY <1>0, <1>8, <1>9
<1>10. 0 \in S
  BY <1>7
<1> HIDE DEF S
<1>11. Nat \subseteq S
  BY <1>9, <1>10, Counting
<1> QED
  BY <1>7, <1>8, <1>11 DEF S

-----------------------------------------------------------------------------
(* What a poll may hand out, and when *)

\* A row that waits may be collected only after every timeout and backoff it
\* had, a row handed out was handed out after them, and only what was handed
\* out is acknowledged.
Waited(d) ==
  /\ dlv[d].status = "queued" =>
       IF dlv[d].retryCount = 0
       THEN dlv[d].nextRetryAt = NoTime /\ dlv[d].queuedAt <= now
       ELSE dlv[d].nextRetryAt >= dlv[d].queuedAt + MinWait[dlv[d].retryCount]
  /\ dlv[d].status = "delivered" =>
       dlv[d].deliveredAt >= dlv[d].queuedAt + MinWait[dlv[d].retryCount]
  /\ dlv[d].status = "acked" => dlv[d].attempts > 0

WaitInv == HeldInv /\ \A d \in Deliveries : Waited(d)

LEMMA WaitInit == Init => WaitInv
<1> SUFFICES ASSUME Init PROVE WaitInv
  OBVIOUS
<1> QED
  BY HeldInit DEF Init, WaitInv, Waited, NoDlv

LEMMA ClockStep ==
  ASSUME TypeOK, [Next]_vars
  PROVE  now \in Nat /\ now' \in Nat /\ now' >= now
<1>1. now \in Nat
  BY DeliveryAssumption DEF TypeOK
<1>2. now' = now \/ now' = now + 1
  BY NextCases DEF enqueue, getInbox, ClientRestart, ackMessages, sweep, Tick, vars
<1> QED
  BY <1>1, <1>2

LEMMA WaitedStep ==
  ASSUME WaitInv, [Next]_vars, NEW d \in Deliveries
  PROVE  Waited(d)'
<1>0. /\ TypeOK /\ Waited(d) /\ HeldCounted(d) /\ RowAccounted(d)
      /\ dlv[d] \in DlvRow /\ dlv[d].retryCount \in Nat /\ dlv[d].attempts \in Nat
      /\ dlv[d].queuedAt \in Int /\ dlv[d].deliveredAt \in Int /\ dlv[d].nextRetryAt \in Int
      /\ DeliveryTimeout \in Nat
  BY DeliveryAssumption DEF WaitInv, HeldInv, LifeInv, TypeOK, DlvRow, NoTime
<1>n. now \in Nat /\ now' \in Nat /\ now' >= now
  BY <1>0, ClockStep
<1>1. RowChange(d)
  BY <1>0, RowStep
<1>2. CASE dlv'[d] = dlv[d]
  BY <1>0, <1>n, <1>2 DEF Waited
<1>3. CASE dlv'[d] = QueuedRow
  <2>1. /\ dlv'[d].status = "queued" /\ dlv'[d].retryCount = 0
        /\ dlv'[d].nextRetryAt = NoTime /\ dlv'[d].queuedAt = now
    BY <1>3 DEF QueuedRow, NoDlv
  <2> QED
    BY <1>n, <2>1 DEF Waited
<1>4. CASE /\ dlv[d].status = "queued" /\ dlv[d].nextRetryAt <= now
           /\ dlv'[d] = DeliveredRow(dlv[d])
  <2>1. /\ dlv'[d].status = "delivered" /\ dlv'[d].retryCount = dlv[d].retryCount
        /\ dlv'[d].deliveredAt = now /\ dlv'[d].queuedAt = dlv[d].queuedAt
    BY <1>0, <1>4 DEF DeliveredRow, DlvRow
  <2>2. now >= dlv[d].queuedAt + MinWait[dlv[d].retryCount]
    <3>1. MinWait[dlv[d].retryCount] \in Nat /\ MinWait[0] = 0
      BY <1>0, MinWaitIs
    <3> QED
      BY <1>0, <1>n, <1>4, <3>1 DEF Waited
  <2> QED
    BY <2>1, <2>2 DEF Waited
<1>5. CASE d[1] \in received[d[2]] /\ dlv'[d] = [dlv[d] EXCEPT !.status = "acked"]
  <2>1. dlv'[d].status = "acked" /\ dlv'[d].attempts = dlv[d].attempts
    BY <1>0, <1>5 DEF DlvRow
  <2> QED
    BY <1>0, <1>5, <2>1 DEF Waited, HeldCounted
<1>6. CASE TimedOut(d) /\ dlv'[d] = RequeuedRow(dlv[d])
  <2>1. /\ dlv'[d].status = "queued" /\ dlv'[d].retryCount = dlv[d].retryCount + 1
        /\ dlv'[d].queuedAt = dlv[d].queuedAt
        /\ dlv'[d].nextRetryAt = now + BackoffOf(dlv[d].retryCount + 1)
    BY <1>0, <1>6 DEF RequeuedRow, DlvRow
  <2>2. PICK rc \in Nat : rc = dlv[d].retryCount
    BY <1>0
  <2>3. /\ MinWait[rc] \in Nat /\ BackoffOf(rc + 1) \in Nat
        /\ MinWait[rc + 1] = MinWait[rc] + DeliveryTimeout + 1 + BackoffOf(rc + 1)
    BY MinWaitIs, BackoffType
  <2>4. /\ dlv[d].status = "delivered" /\ dlv[d].deliveredAt < now - DeliveryTimeout
        /\ dlv[d].deliveredAt >= dlv[d].queuedAt + MinWait[rc]
    BY <1>0, <1>6, <2>2 DEF TimedOut, Waited
  <2>5. now + BackoffOf(rc + 1) >= dlv[d].queuedAt + MinWait[rc + 1]
    BY <1>0, <1>n, <2>3, <2>4
  <2>6. rc + 1 # 0
    OBVIOUS
  <2> QED
    BY <2>1, <2>2, <2>5, <2>6 DEF Waited
<1>7. CASE \/ dlv'[d] = [dlv[d] EXCEPT !.status = "dead_lettered"]
           \/ dlv'[d] = [dlv[d] EXCEPT !.status = "expired"]
  <2>1. dlv'[d].status \in {"dead_lettered", "expired"}
    BY <1>0, <1>7 DEF DlvRow
  <2> QED
    BY <2>1 DEF Waited
<1> QED
  BY <1>1, <1>2, <1>3, <1>4, <1>5, <1>6, <1>7 DEF RowChange

LEMMA WaitInductive == Spec => []WaitInv
<1>1. HeldInv /\ [Next]_vars => HeldInv'
  BY HeldStep, LifeStep DEF HeldInv
<1>2. WaitInv /\ [Next]_vars => WaitInv'
  BY <1>1, WaitedStep DEF WaitInv
<1> QED
  BY WaitInit, <1>2, PTL DEF Spec

\* Only a poll hands anything out, and it takes a row that waits.
LEMMA HandoutIs ==
  ASSUME WaitInv, [Next]_vars, NEW d \in Deliveries, dlv'[d].attempts # dlv[d].attempts
  PROVE  /\ dlv[d].status = "queued" /\ dlv[d].nextRetryAt <= now
         /\ \E arrives \in BOOLEAN : getInbox(d[2], arrives)
         /\ dlv'[d].attempts = dlv[d].attempts + 1
<1>0. /\ TypeOK /\ Linked /\ RowAccounted(d) /\ dlv[d] \in DlvRow
      /\ d[1] \in Msgs /\ d[2] \in Agents /\ d = <<d[1], d[2]>>
  BY DEF WaitInv, HeldInv, LifeInv, TypeOK, Deliveries
<1>1. dlv[d].status = "queued" /\ dlv[d].nextRetryAt <= now /\ dlv'[d] = DeliveredRow(dlv[d])
  <2>1. ASSUME msg[d[1]].status = "none", dlv'[d] = QueuedRow PROVE FALSE
    BY <1>0, <2>1 DEF Linked, Exists, RowAccounted, QueuedRow, NoDlv
  <2> QED
    BY <1>0, <2>1, RowStep DEF RowChange, RequeuedRow, DlvRow
<1>2. dlv'[d].status = "delivered" /\ dlv'[d].attempts = dlv[d].attempts + 1
  BY <1>0, <1>1 DEF DeliveredRow, DlvRow
<1>3. PICK a \in Agents, arrives \in BOOLEAN : getInbox(a, arrives)
  <2>1. ASSUME NEW m \in Msgs, NEW ttl \in Ttls, NEW R \in SUBSET Agents, enqueue(m, ttl, R)
        PROVE  dlv'[d].status # "delivered" \/ dlv'[d] = dlv[d]
    BY <1>0, <2>1 DEF enqueue, QueuedRow, NoDlv
  <2>2. ASSUME NEW a \in Agents, NEW m \in Msgs, ackMessages(a, m)
        PROVE  dlv'[d].attempts = dlv[d].attempts
    BY <1>0, <2>2 DEF ackMessages, TypeOK, DlvRow
  <2>3. ASSUME NEW rr \in BOOLEAN, NEW er \in BOOLEAN, sweep(rr, er)
        PROVE  dlv'[d].attempts = dlv[d].attempts
    <3>1. dlv'[d] = SweptRow(d, rr, er)
      BY <2>3 DEF sweep
    <3>2. \/ \E st \in DlvStatus : dlv'[d] = [dlv[d] EXCEPT !.status = st]
          \/ dlv'[d] = RequeuedRow(dlv[d])
          \/ dlv'[d] = dlv[d]
      BY <1>0, <3>1, SweptRowCases, StatusNames
    <3> QED
      BY <1>0, <3>2 DEF RequeuedRow, DlvRow
  <2> QED
    BY <1>2, <2>1, <2>2, <2>3, NextCases DEF ClientRestart, Tick, vars
<1>4. a = d[2]
  BY <1>3 DEF getInbox
<1> QED
  BY <1>1, <1>2, <1>3, <1>4

LEMMA BackoffKept ==
  ASSUME WaitInv, [Next]_vars, NEW d \in Deliveries, dlv'[d].attempts # dlv[d].attempts
  PROVE  now >= dlv[d].queuedAt + MinWait[dlv[d].attempts]
<1>0. /\ TypeOK /\ Waited(d) /\ RowAccounted(d) /\ dlv[d].retryCount \in Nat
      /\ dlv[d].queuedAt \in Int /\ dlv[d].nextRetryAt \in Int /\ now \in Nat
  BY DeliveryAssumption DEF WaitInv, HeldInv, LifeInv, TypeOK, DlvRow, NoTime
<1>1. /\ dlv[d].status = "queued" /\ dlv[d].nextRetryAt <= now
      /\ dlv[d].attempts = dlv[d].retryCount
  BY <1>0, HandoutIs DEF RowAccounted
<1>2. MinWait[dlv[d].retryCount] \in Nat /\ MinWait[0] = 0
  BY <1>0, MinWaitIs
<1> QED
  BY <1>0, <1>1, <1>2 DEF Waited

LEMMA OrderKept ==
  ASSUME WaitInv, [Next]_vars, NEW a \in Agents, NEW m \in Msgs, NEW n \in Msgs,
         dlv[<<n, a>>].attempts = 0, dlv'[<<n, a>>].attempts = 1,
         Exists(<<m, a>>), dlv[<<m, a>>].queuedAt < dlv[<<n, a>>].queuedAt,
         msg[m].expiresAt > now
  PROVE  dlv'[<<m, a>>].attempts > 0 \/ dlv'[<<m, a>>].status = "expired"
<1> DEFINE d == <<m, a>>
           e == <<n, a>>
<1>0. /\ d \in Deliveries /\ e \in Deliveries /\ e[2] = a /\ d[1] = m /\ d[2] = a /\ e[1] = n
      /\ TypeOK /\ Waited(d) /\ RowAccounted(d) /\ MaxRetries \in Nat /\ now \in Nat
      /\ dlv[d] \in DlvRow /\ dlv[d].attempts \in Nat /\ dlv[d].retryCount \in Nat
      /\ dlv[d].queuedAt \in Int /\ dlv[e].queuedAt \in Int
  BY DeliveryAssumption DEF WaitInv, HeldInv, LifeInv, TypeOK, DlvRow, NoTime, Deliveries
<1>1. PICK arrives \in BOOLEAN : getInbox(a, arrives)
  BY <1>0, HandoutIs
<1>2. PICK B \in Batches(a) :
        dlv' = [x \in Deliveries |->
                  IF x[1] \in B /\ x[2] = a THEN DeliveredRow(dlv[x]) ELSE dlv[x]]
  BY <1>1 DEF getInbox
<1>3. n \in B
  BY <1>0, <1>2
<1>4. CASE m \in Collectable(a)
  <2>1. m \in B
    <3>1. m \notin B => dlv[e].queuedAt <= dlv[d].queuedAt
      BY <1>3, <1>4 DEF Batches
    <3> QED
      BY <1>0, <3>1
  <2>2. dlv'[d] = DeliveredRow(dlv[d])
    BY <1>0, <1>2, <2>1
  <2> QED
    BY <1>0, <2>2 DEF DeliveredRow, DlvRow
<1>5. CASE m \notin Collectable(a)
  <2>1. dlv'[d] = dlv[d]
    <3>1. m \notin B
      BY <1>5 DEF Batches
    <3> QED
      BY <1>0, <1>2, <3>1
  <2>2. CASE dlv[d].status = "queued"
    <3>1. ~(dlv[d].nextRetryAt <= now)
      BY <1>5, <2>2 DEF Collectable
    <3>2. dlv[d].retryCount # 0 /\ dlv[d].attempts = dlv[d].retryCount
      BY <1>0, <2>2, <3>1 DEF Waited, RowAccounted, NoTime
    <3> QED
      BY <1>0, <2>1, <3>2
  <2>3. CASE dlv[d].status = "delivered"
    BY <1>0, <2>1, <2>3 DEF RowAccounted
  <2>4. CASE dlv[d].status = "dead_lettered"
    BY <1>0, <2>1, <2>4 DEF RowAccounted
  <2>5. CASE dlv[d].status = "acked"
    BY <1>0, <2>1, <2>5 DEF Waited
  <2>6. dlv[d].status \in DlvStatus \ {"none"}
    BY <1>0 DEF Exists, DlvRow
  <2> QED
    BY <2>1, <2>2, <2>3, <2>4, <2>5, <2>6 DEF DlvStatus
<1> QED
  BY <1>4, <1>5

\* What a poll hands out has waited for every timeout and backoff before it, is
\* within its deadline, and is handed out for the first time only after
\* everything queued earlier for that agent: for every batch size, backoff
\* table, number of lost replies and sweeps that come late or fail.
THEOREM HandoutsStayRight == Spec => HandoutsRight
<1>1. WaitInv /\ [Next]_vars
        => \A d \in Deliveries :
             dlv'[d].attempts # dlv[d].attempts
               => now >= dlv[d].queuedAt + MinWait[dlv[d].attempts]
  BY BackoffKept
<1>2. WaitInv /\ [Next]_vars
        => \A a \in Agents, m, n \in Msgs :
             /\ dlv[<<n, a>>].attempts = 0 /\ dlv'[<<n, a>>].attempts = 1
             /\ Exists(<<m, a>>) /\ dlv[<<m, a>>].queuedAt < dlv[<<n, a>>].queuedAt
             /\ msg[m].expiresAt > now
             => dlv'[<<m, a>>].attempts > 0 \/ dlv'[<<m, a>>].status = "expired"
  BY OrderKept
<1>3. Spec => BackoffRespected
  BY WaitInductive, <1>1, PTL DEF Spec, BackoffRespected
<1>4. Spec => FirstHandoutInOrder
  BY WaitInductive, <1>2, PTL DEF Spec, FirstHandoutInOrder
<1> QED
  BY <1>3, <1>4, DeadlineHolds, PTL DEF HandoutsRight
=============================================================================
