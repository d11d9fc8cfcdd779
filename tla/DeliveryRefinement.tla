------------------------- MODULE DeliveryRefinement -------------------------
(***************************************************************************)
(* Delivery implements Ledger, for any fleet, clock and retry settings.    *)
(***************************************************************************)
EXTENDS DeliveryProofs

-----------------------------------------------------------------------------
(* The refinement mapping, opaque to the step proofs below *)

FateMap == [d \in Deliveries |-> Fate(d)]
Handouts == [d \in Deliveries |-> dlv[d].attempts]

LEMMA SameDeliveries == L!Deliveries = Deliveries
  BY DEF L!Deliveries, Deliveries

\* Fate follows the status, before and after a step.
LEMMA FateOf ==
  ASSUME NEW d
  PROVE  /\ dlv[d].status = "none" => Fate(d) = "none"
         /\ dlv[d].status \in {"queued", "delivered"} => Fate(d) = "open"
         /\ dlv[d].status \in {"dead_lettered", "expired"} => Fate(d) = "lost"
         /\ dlv[d].status = "acked" => Fate(d) = "acked"
         /\ dlv'[d].status = "none" => Fate(d)' = "none"
         /\ dlv'[d].status \in {"queued", "delivered"} => Fate(d)' = "open"
         /\ dlv'[d].status \in {"dead_lettered", "expired"} => Fate(d)' = "lost"
         /\ dlv'[d].status = "acked" => Fate(d)' = "acked"
  BY DEF Fate

LEMMA SameRowFate ==
  ASSUME NEW d, dlv'[d] = dlv[d]
  PROVE  Fate(d)' = Fate(d)
  BY DEF Fate

LEMMA LedgerStutter ==
  ASSUME dlv' = dlv
  PROVE  UNCHANGED L!ledger
<1>1. FateMap' = FateMap
  BY SameRowFate DEF FateMap
<1>2. Handouts' = Handouts
  BY DEF Handouts
<1> QED
  BY <1>1, <1>2 DEF L!ledger, FateMap, Handouts

-----------------------------------------------------------------------------
(* Every step is a step of the ledger or changes nothing there *)

LEMMA LedgerSend ==
  ASSUME HeldInv, NEW m \in Msgs, NEW ttl \in Ttls, NEW R \in SUBSET Agents,
         enqueue(m, ttl, R)
  PROVE  L!Send(m, R)
<1>0. TypeOK /\ Linked
  BY DEF HeldInv, LifeInv
<1>1. dlv' = [d \in Deliveries |-> IF d[1] = m /\ d[2] \in R THEN QueuedRow ELSE dlv[d]]
  BY DEF enqueue
<1>2. ASSUME NEW d \in Deliveries, d[1] = m
      PROVE  Fate(d) = "none" /\ dlv[d].attempts = 0
  <2>1. dlv[d].status = "none"
    BY <1>0, <1>2 DEF enqueue, Linked, Exists
  <2>2. dlv[d].attempts = 0
    BY <2>1 DEF HeldInv, LifeInv, RowAccounted
  <2> QED
    BY <2>1, <2>2, FateOf
<1>3. \A a \in Agents : FateMap[<<m, a>>] = "none"
  <2> TAKE a \in Agents
  <2>1. <<m, a>> \in Deliveries /\ <<m, a>>[1] = m
    BY DEF Deliveries
  <2> QED
    BY <1>2, <2>1 DEF FateMap
<1>4. ASSUME NEW d \in Deliveries
      PROVE  /\ Fate(d)' = IF d[1] = m /\ d[2] \in R THEN "open" ELSE Fate(d)
             /\ dlv'[d].attempts = dlv[d].attempts
  <2>1. CASE d[1] = m /\ d[2] \in R
    <3>1. dlv'[d].status = "queued" /\ dlv'[d].attempts = 0
      BY <1>1, <2>1 DEF QueuedRow, NoDlv
    <3> QED
      BY <1>2, <2>1, <3>1, FateOf
  <2>2. CASE ~(d[1] = m /\ d[2] \in R)
    BY <1>1, <2>2, SameRowFate
  <2> QED
    BY <2>1, <2>2
<1>5. FateMap' = [d \in Deliveries |-> IF d[1] = m /\ d[2] \in R THEN "open" ELSE FateMap[d]]
  BY <1>4 DEF FateMap
<1>6. Handouts' = Handouts
  BY <1>4 DEF Handouts
<1> QED
  BY <1>3, <1>5, <1>6, SameDeliveries DEF L!Send, FateMap, Handouts

LEMMA LedgerHandOut ==
  ASSUME HeldInv, NEW a \in Agents, NEW arrives \in BOOLEAN, getInbox(a, arrives)
  PROVE  \E B \in SUBSET Msgs : L!HandOut(a, B)
<1>0. TypeOK
  BY DEF HeldInv, LifeInv
<1>1. PICK B \in Batches(a) :
        dlv' = [d \in Deliveries |->
                  IF d[1] \in B /\ d[2] = a THEN DeliveredRow(dlv[d]) ELSE dlv[d]]
  BY DEF getInbox
<1>2. B \subseteq Collectable(a) /\ B \in SUBSET Msgs
  BY DEF Batches, Collectable
<1>3. ASSUME NEW d \in Deliveries, d[1] \in B, d[2] = a
      PROVE  dlv[d].status = "queued" /\ dlv[d].attempts < MaxRetries + 1
  <2>1. dlv[d].status = "queued"
    <3>1. d = <<d[1], d[2]>>
      BY DEF Deliveries
    <3> QED
      BY <1>2, <1>3, <3>1 DEF Collectable
  <2>2. dlv[d] \in DlvRow /\ RowAccounted(d)
    BY <1>0 DEF HeldInv, LifeInv, TypeOK
  <2> QED
    BY <2>1, <2>2, DeliveryAssumption DEF RowAccounted, DlvRow
<1>4. \A m \in B : FateMap[<<m, a>>] = "open" /\ Handouts[<<m, a>>] < MaxRetries + 1
  <2> TAKE m \in B
  <2>1. <<m, a>> \in Deliveries /\ <<m, a>>[1] = m /\ <<m, a>>[2] = a
    BY <1>2 DEF Deliveries
  <2>2. dlv[<<m, a>>].status = "queued" /\ dlv[<<m, a>>].attempts < MaxRetries + 1
    BY <1>3, <2>1
  <2> QED
    BY <2>1, <2>2, FateOf DEF FateMap, Handouts
<1>5. ASSUME NEW d \in Deliveries
      PROVE  /\ Fate(d)' = Fate(d)
             /\ dlv'[d].attempts = IF d[1] \in B /\ d[2] = a
                                   THEN dlv[d].attempts + 1 ELSE dlv[d].attempts
  <2>1. CASE d[1] \in B /\ d[2] = a
    <3>1. dlv[d].status = "queued" /\ dlv[d] \in DlvRow
      BY <1>0, <1>3, <2>1 DEF TypeOK
    <3>2. dlv'[d] = DeliveredRow(dlv[d])
      BY <1>1, <2>1
    <3>3. dlv'[d].status = "delivered" /\ dlv'[d].attempts = dlv[d].attempts + 1
      BY <3>1, <3>2 DEF DeliveredRow, DlvRow
    <3> QED
      BY <2>1, <3>1, <3>3, FateOf
  <2>2. CASE ~(d[1] \in B /\ d[2] = a)
    BY <1>1, <2>2, SameRowFate
  <2> QED
    BY <2>1, <2>2
<1>6. FateMap' = FateMap
  BY <1>5 DEF FateMap
<1>7. Handouts' = [d \in Deliveries |->
                     IF d[1] \in B /\ d[2] = a THEN Handouts[d] + 1 ELSE Handouts[d]]
  BY <1>5 DEF Handouts
<1>8. L!HandOut(a, B)
  BY <1>4, <1>6, <1>7, SameDeliveries DEF L!HandOut, FateMap, Handouts
<1> QED
  BY <1>2, <1>8

LEMMA LedgerAcknowledge ==
  ASSUME HeldInv, NEW a \in Agents, NEW m \in Msgs, ackMessages(a, m)
  PROVE  \E d \in L!Deliveries : L!Acknowledge(d)
<1> DEFINE e == <<m, a>>
<1>0. TypeOK /\ e \in Deliveries /\ e[1] = m /\ e[2] = a
  BY DEF HeldInv, LifeInv, Deliveries
<1>1. dlv[e] \in DlvRow /\ dlv[e].status \notin {"none", "acked"} /\ dlv[e].attempts > 0
  BY <1>0 DEF ackMessages, HeldInv, LifeInv, TypeOK, Linked, Exists, HeldCounted
<1> HIDE DEF e
<1>2. Fate(e) \in {"open", "lost"}
  BY <1>1, FateOf DEF DlvRow, DlvStatus
<1>3. /\ dlv'[e] = [dlv[e] EXCEPT !.status = "acked"]
      /\ \A d \in Deliveries : d # e => dlv'[d] = dlv[d]
  BY <1>0 DEF ackMessages, TypeOK, e
<1>4. Fate(e)' = "acked" /\ dlv'[e].attempts = dlv[e].attempts
  BY <1>1, <1>3, FateOf DEF DlvRow
<1>5. ASSUME NEW d \in Deliveries
      PROVE  /\ Fate(d)' = IF d = e THEN "acked" ELSE Fate(d)
             /\ dlv'[d].attempts = dlv[d].attempts
  BY <1>3, <1>4, SameRowFate
<1>6. FateMap' = [FateMap EXCEPT ![e] = "acked"]
  BY <1>5 DEF FateMap
<1>7. Handouts' = Handouts
  BY <1>5 DEF Handouts
<1>8. FateMap[e] \in {"open", "lost"} /\ Handouts[e] > 0
  BY <1>0, <1>1, <1>2 DEF FateMap, Handouts
<1>9. L!Acknowledge(e)
  BY <1>6, <1>7, <1>8 DEF L!Acknowledge, FateMap, Handouts
<1> QED
  BY <1>0, <1>9, SameDeliveries

\* A sweep gives up on what it dead-letters and what it expires; a requeued
\* row stays open.
LEMMA LedgerGiveUp ==
  ASSUME HeldInv, NEW rr \in BOOLEAN, NEW er \in BOOLEAN, sweep(rr, er)
  PROVE  \E D \in SUBSET L!Deliveries : L!GiveUp(D)
<1> DEFINE D == {d \in Deliveries : Fate(d)' # Fate(d)}
<1>1. ASSUME NEW d \in Deliveries
      PROVE  /\ dlv'[d].attempts = dlv[d].attempts
             /\ Fate(d)' # Fate(d) => Fate(d) = "open" /\ Fate(d)' = "lost"
  <2>0. TypeOK /\ dlv[d] \in DlvRow /\ dlv'[d] = SweptRow(d, rr, er)
    BY DEF HeldInv, LifeInv, TypeOK, sweep
  <2>1. CASE moveToDeadLetter(d) /\ dlv'[d] = [dlv[d] EXCEPT !.status = "dead_lettered"]
    <3>1. dlv[d].status = "delivered" /\ dlv'[d].status = "dead_lettered"
      BY <2>0, <2>1 DEF moveToDeadLetter, TimedOut, DlvRow
    <3> QED
      BY <2>0, <2>1, <3>1, FateOf DEF DlvRow
  <2>2. CASE TimedOut(d) /\ dlv'[d] = RequeuedRow(dlv[d])
    <3>1. dlv[d].status = "delivered" /\ dlv'[d].status = "queued"
      BY <2>0, <2>2 DEF TimedOut, RequeuedRow, DlvRow
    <3>2. dlv'[d].attempts = dlv[d].attempts
      BY <2>0, <2>2 DEF RequeuedRow, DlvRow
    <3> QED
      BY <3>1, <3>2, FateOf
  <2>3. CASE PastTtl(d) /\ dlv'[d] = [dlv[d] EXCEPT !.status = "expired"]
    <3>1. dlv[d].status \in {"queued", "delivered"} /\ dlv'[d].status = "expired"
      BY <2>0, <2>3 DEF PastTtl, DlvRow
    <3> QED
      BY <2>0, <2>3, <3>1, FateOf DEF DlvRow
  <2>4. CASE dlv'[d] = dlv[d]
    BY <2>4, SameRowFate
  <2> QED
    BY <2>0, <2>1, <2>2, <2>3, <2>4, SweptRowCases
<1>2. FateMap' = [d \in Deliveries |-> IF d \in D THEN "lost" ELSE FateMap[d]]
  BY <1>1 DEF FateMap
<1>3. Handouts' = Handouts
  BY <1>1 DEF Handouts
<1>4. D \subseteq Deliveries /\ \A d \in D : FateMap[d] = "open"
  BY <1>1 DEF FateMap
<1> HIDE DEF D
<1>5. L!GiveUp(D)
  BY <1>2, <1>3, <1>4, SameDeliveries DEF L!GiveUp, FateMap, Handouts
<1> QED
  BY <1>4, <1>5, SameDeliveries

LEMMA LedgerInit == Init => L!Init
<1> SUFFICES ASSUME Init PROVE L!Init
  OBVIOUS
<1>1. ASSUME NEW d \in Deliveries PROVE Fate(d) = "none" /\ dlv[d].attempts = 0
  <2>1. dlv[d].status = "none" /\ dlv[d].attempts = 0
    BY DEF Init, NoDlv
  <2> QED
    BY <2>1, FateOf
<1>2. FateMap = [d \in Deliveries |-> "none"] /\ Handouts = [d \in Deliveries |-> 0]
  BY <1>1 DEF FateMap, Handouts
<1> QED
  BY <1>2, SameDeliveries DEF L!Init, FateMap, Handouts

LEMMA LedgerStep == HeldInv /\ [Next]_vars => [L!Next]_(L!ledger)
<1> SUFFICES ASSUME HeldInv, [Next]_vars PROVE [L!Next]_(L!ledger)
  OBVIOUS
<1>1. ASSUME NEW m \in Msgs, NEW ttl \in Ttls, NEW R \in SUBSET Agents, enqueue(m, ttl, R)
      PROVE  L!Next
  BY <1>1, LedgerSend DEF L!Next
<1>2. ASSUME NEW a \in Agents, NEW arrives \in BOOLEAN, getInbox(a, arrives) PROVE L!Next
  BY <1>2, LedgerHandOut DEF L!Next
<1>3. ASSUME NEW a \in Agents, NEW m \in Msgs, ackMessages(a, m) PROVE L!Next
  BY <1>3, LedgerAcknowledge DEF L!Next
<1>4. ASSUME NEW rr \in BOOLEAN, NEW er \in BOOLEAN, sweep(rr, er) PROVE L!Next
  BY <1>4, LedgerGiveUp DEF L!Next
<1>5. CASE (\E a \in Agents : ClientRestart(a)) \/ Tick \/ UNCHANGED vars
  BY <1>5, LedgerStutter DEF ClientRestart, Tick, vars
<1> QED
  BY <1>1, <1>2, <1>3, <1>4, <1>5, NextCases

\* The relay's tables, with their retries, backoff, sweeps, lost replies and
\* late acknowledgements, implement the ledger: each handler is one ledger
\* step for all the rows it touches, or none.
THEOREM DeliveryImplementsLedger == Spec => ImplementsLedger
  BY LedgerInit, LedgerStep, HeldInductive, PTL DEF Spec, ImplementsLedger, L!Spec
=============================================================================
