------------------------------ MODULE Delivery ------------------------------
(***************************************************************************)
(* The relay's store-and-forward core: tables messages, message_deliveries *)
(* and dead_letters of packages/relay/src/db.ts, the operations that       *)
(* change them (the four senders, getInbox, ackMessages, the sweep tick),  *)
(* and the clients that poll and acknowledge over a network that may lose  *)
(* a response, lose an acknowledgement, or repeat one.                     *)
(*                                                                         *)
(* The relay is one Node process over synchronous SQLite, so a handler is  *)
(* one step.  A relay crash between a commit and the reply is a lost       *)
(* reply: the rows survive, the client never hears.                        *)
(*                                                                         *)
(* Abstracted: bodies, types, priorities and the audit events; the sender  *)
(* gate, rooms and attachments have their own modules.                     *)
(***************************************************************************)
EXTENDS Integers, FiniteSets

CONSTANTS
  Agents,           \* agents of one fleet, the synthetic operator included
  Operator,         \* op_<fleetId>: may be addressed, never polls or acks
  Msgs,             \* message ids; each is created at most once
  Ttls,             \* the ttl_seconds values senders use
  MaxRetries,       \* config.maxRetries
  DeliveryTimeout,  \* config.deliveryTimeoutSeconds
  Backoff,          \* config.retryBackoffSeconds, [1..BackoffSteps -> Nat]
  BackoffSteps,     \* its length
  InboxLimit,       \* the limit of one inbox read
  MaxTime           \* bound: the last instant of the clock

ASSUME DeliveryAssumption ==
  /\ Operator \in Agents
  /\ Ttls \subseteq Nat \ {0}
  /\ MaxRetries \in Nat
  /\ DeliveryTimeout \in Nat
  /\ BackoffSteps \in Nat \ {0}
  /\ Backoff \in [1..BackoffSteps -> Nat]
  /\ InboxLimit \in Nat \ {0}
  /\ MaxTime \in Nat

VARIABLES
  now,      \* the relay's clock
  msg,      \* messages row of each id: [status, expiresAt]
  dlv,      \* message_deliveries row of each <<message, recipient>>
  letters,  \* number of dead_letters rows of each delivery
  received  \* what each running client process has been handed, and may ack

vars == <<now, msg, dlv, letters, received>>

Deliveries == Msgs \X Agents

\* SQL NULL in a timestamp column. It is below every instant, so the code's
\* "next_retry_at IS NULL OR next_retry_at <= now" is one comparison.
NoTime == -1

MsgStatus == {"none", "queued", "acked", "dead_lettered", "expired"}
DlvStatus == {"none", "queued", "delivered", "acked", "dead_lettered", "expired"}

MsgRow == [status : MsgStatus, expiresAt : Nat \cup {NoTime}]
DlvRow == [status : DlvStatus, attempts : Nat, queuedAt : Nat \cup {NoTime},
           deliveredAt : Nat \cup {NoTime}, retryCount : Nat,
           nextRetryAt : Nat \cup {NoTime}]

NoMsg == [status |-> "none", expiresAt |-> NoTime]
NoDlv == [status |-> "none", attempts |-> 0, queuedAt |-> NoTime,
          deliveredAt |-> NoTime, retryCount |-> 0, nextRetryAt |-> NoTime]

Exists(d) == dlv[d].status # "none"
Recipients(m) == {a \in Agents : Exists(<<m, a>>)}

Init ==
  /\ now = 0
  /\ msg = [m \in Msgs |-> NoMsg]
  /\ dlv = [d \in Deliveries |-> NoDlv]
  /\ letters = [d \in Deliveries |-> 0]
  /\ received = [a \in Agents |-> {}]

-----------------------------------------------------------------------------
(* Sending *)

\* A newly inserted delivery row.
QueuedRow == [NoDlv EXCEPT !.status = "queued", !.queuedAt = now]

\* Whom a send by s may reach: one addressee (the operator and s itself are
\* allowed), or some or all of the other agents (a room's members, a
\* broadcast). The operator is never a broadcast or room recipient.
Audiences(s) ==
  {{r} : r \in Agents} \cup SUBSET (Agents \ {s, Operator})

\* One messages row and a delivery row per recipient, in one transaction.
enqueue(m, ttl, R) ==
  /\ msg[m].status = "none"
  /\ now + ttl <= MaxTime                     \* bound, not in the code
  /\ msg' = [msg EXCEPT ![m] = [status |-> "queued", expiresAt |-> now + ttl]]
  /\ dlv' = [d \in Deliveries |-> IF d[1] = m /\ d[2] \in R THEN QueuedRow ELSE dlv[d]]
  /\ UNCHANGED <<now, letters, received>>

createMessage(s, m, ttl) ==
  /\ s # Operator
  /\ \E R \in Audiences(s) : enqueue(m, ttl, R)

createOperatorMessage(m, ttl) ==
  \E R \in Audiences(Operator) : enqueue(m, ttl, R)

\* Wakes the participants of a stalled conversation, if it has any; for a
\* room the nudge is a createOperatorMessage.
resumeConversation(m, ttl) ==
  \E R \in SUBSET (Agents \ {Operator}) \ {{}} : enqueue(m, ttl, R)

\* One new item to a feed's subscribers, if it has any.
deliverFeedItem(m, ttl) ==
  \E R \in SUBSET (Agents \ {Operator}) \ {{}} : enqueue(m, ttl, R)

-----------------------------------------------------------------------------
(* Polling *)

\* Mutant: the inbox query asks only that the row is not acknowledged yet.
CollectableNotAcked(a) ==
  {m \in Msgs : /\ Exists(<<m, a>>) /\ dlv[<<m, a>>].status # "acked"
                /\ msg[m].expiresAt > now
                /\ dlv[<<m, a>>].nextRetryAt <= now}

\* The WHERE clause of the inbox query.
Collectable(a) ==
  {m \in Msgs : /\ dlv[<<m, a>>].status = "queued"
                /\ msg[m].expiresAt > now
                /\ dlv[<<m, a>>].nextRetryAt <= now}

\* Mutant: LIMIT without ORDER BY.
BatchesUnordered(a) ==
  {B \in SUBSET Collectable(a) :
     Cardinality(B) <= InboxLimit /\ (B = {} => Collectable(a) = {})}

\* ORDER BY queued_at ASC LIMIT InboxLimit; SQLite breaks ties as it likes.
Batches(a) ==
  LET C == Collectable(a) IN
  {B \in SUBSET C :
     /\ Cardinality(B) = IF Cardinality(C) < InboxLimit THEN Cardinality(C) ELSE InboxLimit
     /\ \A m \in B, n \in C \ B : dlv[<<m, a>>].queuedAt <= dlv[<<n, a>>].queuedAt}

DeliveredRow(row) ==
  [row EXCEPT !.status = "delivered", !.deliveredAt = now, !.attempts = @ + 1]

\* The rows are marked delivered before the reply leaves; "arrives" says
\* whether the client ever sees that reply.
getInbox(a, arrives) ==
  /\ a # Operator
  /\ \E B \in Batches(a) :
       /\ dlv' = [d \in Deliveries |->
                    IF d[1] \in B /\ d[2] = a THEN DeliveredRow(dlv[d]) ELSE dlv[d]]
       /\ received' = IF arrives THEN [received EXCEPT ![a] = @ \cup B] ELSE received
  /\ UNCHANGED <<now, msg, letters>>

\* A client process restarts and forgets what it held.
ClientRestart(a) ==
  /\ received[a] # {}
  /\ received' = [received EXCEPT ![a] = {}]
  /\ UNCHANGED <<now, msg, dlv, letters>>

-----------------------------------------------------------------------------
(* Acknowledging *)

\* Mutant: one recipient's acknowledgement closes the whole message.
ackClosesMessage(a, m) ==
  /\ m \in received[a]
  /\ dlv[<<m, a>>].status # "acked"
  /\ dlv' = [dlv EXCEPT ![<<m, a>>].status = "acked"]
  /\ msg' = [msg EXCEPT ![m].status = "acked"]
  /\ UNCHANGED <<now, letters, received>>

\* One acknowledgement of m by a reaches the relay. It touches a's own row
\* whatever its state, unless already acked (then it is a no-op), and closes
\* the message when no recipient is left. The client keeps m: a lost reply
\* makes it acknowledge again.
ackMessages(a, m) ==
  /\ m \in received[a]
  /\ dlv[<<m, a>>].status # "acked"
  /\ dlv' = [dlv EXCEPT ![<<m, a>>].status = "acked"]
  /\ msg' = IF \A r \in Recipients(m) \ {a} : dlv[<<m, r>>].status = "acked"
            THEN [msg EXCEPT ![m].status = "acked"]
            ELSE msg
  /\ UNCHANGED <<now, letters, received>>

-----------------------------------------------------------------------------
(* The sweep tick *)

TimedOut(d) ==
  /\ dlv[d].status = "delivered"
  /\ dlv[d].deliveredAt < now - DeliveryTimeout
  /\ msg[d[1]].expiresAt > now

\* Mutant: one retry too many.
OutOfRetriesLate(d) == dlv[d].retryCount > MaxRetries

OutOfRetries(d) == dlv[d].retryCount + 1 > MaxRetries

BackoffOf(n) == Backoff[IF n < BackoffSteps THEN n ELSE BackoffSteps]

RequeuedRow(row) ==
  [row EXCEPT !.status = "queued", !.deliveredAt = NoTime,
              !.retryCount = @ + 1, !.nextRetryAt = now + BackoffOf(row.retryCount + 1)]

moveToDeadLetter(d) == TimedOut(d) /\ OutOfRetries(d)

\* Mutant: the expiry sweep does not look at the delivery's status.
PastTtlAnyStatus(d) == Exists(d) /\ msg[d[1]].expiresAt <= now

\* Mutant: the expiry sweep takes only rows that wait to be collected.
PastTtlQueuedOnly(d) == dlv[d].status = "queued" /\ msg[d[1]].expiresAt <= now

PastTtl(d) == dlv[d].status \in {"queued", "delivered"} /\ msg[d[1]].expiresAt <= now

\* Effect of sweepRetryDeliveries (when it runs) and sweepExpiredMessages
\* (when it runs) on one delivery. A row meets at most one of the two: the
\* first requires an unexpired message, the second an expired one.
SweptRow(d, retryRuns, expiryRuns) ==
  CASE retryRuns /\ moveToDeadLetter(d)             -> [dlv[d] EXCEPT !.status = "dead_lettered"]
    [] retryRuns /\ TimedOut(d) /\ ~OutOfRetries(d) -> RequeuedRow(dlv[d])
    [] expiryRuns /\ PastTtl(d)                     -> [dlv[d] EXCEPT !.status = "expired"]
    [] OTHER                                        -> dlv[d]

SweptStatus(m, retryRuns, expiryRuns) ==
  CASE /\ retryRuns
       /\ msg[m].status # "acked"
       /\ \E a \in Agents : moveToDeadLetter(<<m, a>>)   -> "dead_lettered"
    [] /\ expiryRuns
       /\ msg[m].status \notin {"acked", "dead_lettered"}
       /\ \E a \in Agents : PastTtl(<<m, a>>)            -> "expired"
    [] OTHER                                             -> msg[m].status

\* One tick of startSweepJob. Each sweep sits in its own try block, so either
\* may fail and leave its rows for the next tick.
sweep(retryRuns, expiryRuns) ==
  /\ dlv' = [d \in Deliveries |-> SweptRow(d, retryRuns, expiryRuns)]
  /\ msg' = [m \in Msgs |-> [msg[m] EXCEPT !.status = SweptStatus(m, retryRuns, expiryRuns)]]
  /\ letters' = [d \in Deliveries |->
                   IF retryRuns /\ moveToDeadLetter(d) THEN letters[d] + 1 ELSE letters[d]]
  /\ UNCHANGED <<now, received>>

Tick ==
  /\ now < MaxTime
  /\ now' = now + 1
  /\ UNCHANGED <<msg, dlv, letters, received>>

-----------------------------------------------------------------------------
Next ==
  \/ \E s \in Agents, m \in Msgs, ttl \in Ttls : createMessage(s, m, ttl)
  \/ \E m \in Msgs, ttl \in Ttls : createOperatorMessage(m, ttl)
  \/ \E m \in Msgs, ttl \in Ttls : resumeConversation(m, ttl)
  \/ \E m \in Msgs, ttl \in Ttls : deliverFeedItem(m, ttl)
  \/ \E a \in Agents, arrives \in BOOLEAN : getInbox(a, arrives)
  \/ \E a \in Agents : ClientRestart(a)
  \/ \E a \in Agents, m \in Msgs : ackMessages(a, m)
  \/ \E retryRuns, expiryRuns \in BOOLEAN : sweep(retryRuns, expiryRuns)
  \/ Tick

Spec == Init /\ [][Next]_vars

\* The clock moves and setInterval keeps calling the sweep; a sweep that
\* throws now succeeds again later. Nothing is assumed of the clients.
FairSpec == Spec /\ WF_vars(Tick) /\ WF_vars(sweep(TRUE, TRUE))

-----------------------------------------------------------------------------
(* Properties *)

TypeOK ==
  /\ now \in 0..MaxTime
  /\ msg \in [Msgs -> MsgRow]
  /\ dlv \in [Deliveries -> DlvRow]
  /\ letters \in [Deliveries -> Nat]
  /\ received \in [Agents -> SUBSET Msgs]

AllAcked(m) == \A a \in Recipients(m) : dlv[<<m, a>>].status = "acked"

\* What the sender-visible messages.status must say, derived from the
\* deliveries: "acked" exactly when somebody was addressed and all of them
\* acknowledged, otherwise "dead_lettered" once a dead letter exists,
\* otherwise "expired" once a delivery expired, otherwise "queued".
DerivedStatus(m) ==
  IF Recipients(m) # {} /\ AllAcked(m) THEN "acked"
  ELSE IF \E a \in Agents : letters[<<m, a>>] > 0 THEN "dead_lettered"
  ELSE IF \E a \in Agents : dlv[<<m, a>>].status = "expired" THEN "expired"
  ELSE "queued"

\* messages.status is written by three handlers, never recomputed; it agrees
\* with the deliveries whatever the order of acks (late ones included),
\* dead-lettering and expiry among the recipients of a fan-out.
StatusAgrees ==
  \A m \in Msgs : msg[m].status # "none" => msg[m].status = DerivedStatus(m)

\* Retry accounting: a row is handed out once per retry plus once, never more
\* than MaxRetries + 1 times in all, and never again after its last retry.
AttemptsAccounted ==
  \A d \in Deliveries :
    /\ dlv[d].attempts <= MaxRetries + 1
    /\ dlv[d].status = "queued" => dlv[d].attempts = dlv[d].retryCount
    /\ dlv[d].status = "delivered" => dlv[d].attempts = dlv[d].retryCount + 1
    /\ dlv[d].status = "dead_lettered" => dlv[d].attempts = MaxRetries + 1

\* A delivery the relay gave up on is visible: it has exactly one dead letter,
\* and a dead letter is only ever written for a delivery that stayed
\* unacknowledged through every retry (it may be acknowledged late).
DeadLetterOnce ==
  \A d \in Deliveries :
    /\ letters[d] <= 1
    /\ dlv[d].status = "dead_lettered" => letters[d] = 1
    /\ letters[d] = 1 => dlv[d].status \in {"dead_lettered", "acked"}

\* The books of the ledger are exact: hand-outs, retries and dead letters of
\* every delivery agree with each other and with its status, whatever polls,
\* lost replies, retry sweeps and late acknowledgements hit the same row.
RowsSound == TypeOK /\ AttemptsAccounted /\ DeadLetterOnce

\* An acknowledged delivery stays acknowledged: no retry, dead-lettering or
\* expiry sweep, and no second poll, brings it back, even when the
\* acknowledgement arrives after the row was requeued.
AckIsFinal ==
  [][\A d \in Deliveries : dlv[d].status = "acked" => dlv'[d] = dlv[d]]_vars

\* The least time between queueing a delivery and its hand-out number n + 1:
\* every earlier hand-out timed out and every backoff was waited for.
MinWait[n \in Nat] ==
  IF n = 0 THEN 0 ELSE MinWait[n - 1] + DeliveryTimeout + 1 + BackoffOf(n)

\* However polls, lost replies and sweeps interleave, hand-out number n + 1 of
\* a delivery never comes sooner than n full timeouts and n backoffs after
\* the message was queued: a failing recipient is not hammered.
BackoffRespected ==
  [][\A d \in Deliveries :
       dlv'[d].attempts # dlv[d].attempts
         => now >= dlv[d].queuedAt + MinWait[dlv[d].attempts]]_vars

\* Nothing is handed out at or after its deadline.
NeverCollectedLate ==
  [][\A d \in Deliveries :
       dlv'[d].attempts # dlv[d].attempts => msg[d[1]].expiresAt > now]_vars

\* A client that polls in small batches meets messages in the order they were
\* queued: when n is handed to a for the first time, no unexpired message
\* queued earlier for a is still waiting for its own first hand-out. Rows
\* requeued by the retry sweep keep their queued_at and do not break this.
FirstHandoutInOrder ==
  [][\A a \in Agents, m, n \in Msgs :
       /\ dlv[<<n, a>>].attempts = 0 /\ dlv'[<<n, a>>].attempts = 1
       /\ Exists(<<m, a>>) /\ dlv[<<m, a>>].queuedAt < dlv[<<n, a>>].queuedAt
       /\ msg[m].expiresAt > now
       => dlv'[<<m, a>>].attempts > 0 \/ dlv'[<<m, a>>].status = "expired"]_vars

\* What a poll may hand out, and when: after its backoff, before its deadline,
\* and for the first time only in the order of the queue.
HandoutsRight == BackoffRespected /\ NeverCollectedLate /\ FirstHandoutInOrder

\* What a delivery row amounts to, its retries and the reason it was lost
\* left out.
Fate(d) ==
  CASE dlv[d].status = "none"                           -> "none"
    [] dlv[d].status \in {"queued", "delivered"}        -> "open"
    [] dlv[d].status \in {"dead_lettered", "expired"}   -> "lost"
    [] dlv[d].status = "acked"                          -> "acked"

L == INSTANCE Ledger WITH
       MaxHandouts <- MaxRetries + 1,
       fate        <- [d \in Deliveries |-> Fate(d)],
       handouts    <- [d \in Deliveries |-> dlv[d].attempts]

\* The tables, retries, sweeps and lost replies together keep the relay's
\* promise: nothing is acknowledged that was never handed out, nothing is
\* handed out once it was acknowledged or given up, a message's deliveries
\* open together, and no step mixes two of these.
ImplementsLedger == L!Spec

Settled(d) == dlv[d].status \in {"acked", "dead_lettered", "expired"}

\* No delivery stays in limbo: with clients that may never poll or ack, the
\* sweeps alone bring every delivery to acked, dead_lettered or expired.
EverySettles ==
  \A d \in Deliveries : Exists(d) ~> Settled(d)
=============================================================================
