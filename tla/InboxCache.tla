----------------------------- MODULE InboxCache -----------------------------
(***************************************************************************)
(* What an agent reads back from its inbox, and under which label: the     *)
(* ring of recent messages and their verdicts that the auto-reply loop of  *)
(* packages/openclaw-plugin writes on every tick (autoreply.ts), and the   *)
(* view the ekho_inbox tool makes of it (inbox-trust.ts, index.ts). The    *)
(* ring is one object in the process, shared by every copy of the plugin:  *)
(* a reader may hold an older or a newer set of pinned keys than the loop  *)
(* that wrote it, and a loop may take it over from another.                *)
(*                                                                         *)
(* A message is its signed material. The relay may deliver an id again,    *)
(* the same or with an unsigned field changed: then it is another message  *)
(* with the same id and the same nonce. key is the operator key the        *)
(* signature rests on (a peer's, through the endorsement in the roster),   *)
(* or Unsigned. Signature arithmetic, skew and the roster's changes are    *)
(* abstracted: see TrustRoot and ReplayNonces.                             *)
(***************************************************************************)
EXTENDS Naturals, FiniteSets

CONSTANTS
  Mailings,  \* sets of messages, records [id, v, from, key]: a behaviour delivers one of them
  OpKeys,    \* operator keys the agent may come to pin
  FirstPins, \* the ones it pinned first
  Modes,     \* settings of requireSigned
  Unsigned,  \* no signature
  RingCap    \* LAST_BATCH_CAP

VARIABLES
  trust,    \* what the loop's identity rests on: [pins, gone]
  rtrust,   \* the same for the reader in another copy of the plugin
  ring,     \* entries [msg, verdict, age], age the number of newer ones
  ringGen,  \* verificationGeneration of the ring, or NoRing
  rejects,  \* material with a failed verdict
  vouched,  \* meta.operator_trusted
  nonces,   \* seenNonces, by message id
  wseen,    \* state.seen
  pending,  \* what the relay delivers at the next poll
  traffic,  \* the messages the relay may come to deliver
  mode,     \* requireSigned: "warn" or "require"
  woke,     \* history: messages that woke a turn
  shown,    \* history: material the ring has held with a failed verdict
  lapsed    \* history: of that, what left the ring and is nowhere on record

ASSUME CacheAssumption == Unsigned \notin OpKeys

cacheVars == <<trust, rtrust, ring, ringGen, rejects, vouched, nonces, wseen, pending, traffic, mode,
               woke, shown, lapsed>>

NoVerdict == [ok |-> FALSE]
NoRing == [recorded |-> FALSE]
Failed(m) == [ok |-> FALSE, of |-> m]
Passed(m) == [ok |-> TRUE, of |-> m]

CacheInit ==
  /\ trust = [pins |-> FirstPins, gone |-> {}]
  /\ rtrust = trust
  /\ ring = {} /\ ringGen = NoRing /\ rejects = {} /\ vouched = FALSE
  /\ nonces = {} /\ wseen = {} /\ pending = {}
  /\ traffic \in Mailings /\ mode \in Modes
  /\ woke = {} /\ shown = {} /\ lapsed = {}

\* The relay has a message to deliver; an id is in the inbox once.
arrive(m) ==
  /\ pending' = {x \in pending : x.id # m.id} \cup {m}
  /\ m \notin pending
  /\ UNCHANGED <<trust, rtrust, ring, ringGen, rejects, vouched, nonces, wseen, traffic, mode,
                 woke, shown, lapsed>>

-----------------------------------------------------------------------------
(* Verification *)

\* verifyInbound under the pinned keys: the key, then the nonce.
VerifyInbound(m, tr) == IF m.key \in tr.pins /\ m.id \notin nonces THEN Passed(m) ELSE Failed(m)

\* verifyBatch: without a pinned key there is no verdict at all.
VerifyBatch(m, tr) == IF tr.pins = {} THEN NoVerdict ELSE VerifyInbound(m, tr)

\* collectVerificationRejects: signed, and the signature did not pass.
VerificationReject(m, v) == m.key # Unsigned /\ v # NoVerdict /\ ~v.ok

\* collectRequireSignedWithheld: a peer without a signature that could be checked.
RequireSignedWithheld(m, v) ==
  mode = "require" /\ m.from = "peer" /\ (m.key = Unsigned \/ v = NoVerdict)

\* shouldAutowake, for a message that is of a type that wakes.
Wakes(m, v, operatorTrusted) ==
  IF m.key # Unsigned /\ v # NoVerdict
  THEN v.ok
  ELSE IF m.from = "operator" THEN operatorTrusted ELSE mode = "warn"

-----------------------------------------------------------------------------
(* The ring *)

\* The material that a ring labels as failed.
FailedIn(r) == {e.msg : e \in {x \in r : x.verdict # NoVerdict /\ ~x.verdict.ok}}

\* Mutant: a ring begun for other pinned keys forgets what was rejected.
CarriedNothing(gen) == IF ringGen = gen THEN rejects ELSE {}

\* inboxCache for a writer: a ring of another generation is begun anew, and
\* the failed verdicts go with the material.
Carried(gen) ==
  IF ringGen = gen
  THEN rejects
  ELSE rejects \cup FailedIn(ring)

FreshCache(gen) == IF ringGen = gen THEN ring ELSE {}

\* recordBatch for one message: it keeps a verdict only for the same material.
Previous(r, m, rejected) ==
  LET same == {e \in r : e.msg = m}
  IN  IF same # {} THEN (CHOOSE e \in same : TRUE).verdict
      ELSE IF m \in rejected THEN Failed(m) ELSE NoVerdict

\* recordBatch: an id that is held leaves its place, the batch comes last in
\* its order, and the oldest beyond the cap leave.
RecordBatch(r, rejected) ==
  LET others == {e \in r : \A m \in pending : m.id # e.msg.id}
      Older(e) == Cardinality(pending) + Cardinality({d \in others : d.age < e.age})
      Newer(m) == Cardinality({x \in pending : x.id > m.id})
  IN  {[e EXCEPT !.age = Older(e)] : e \in {d \in others : Older(d) < RingCap}}
        \cup {[msg |-> m, verdict |-> Previous(r, m, rejected), age |-> Newer(m)] :
                m \in {x \in pending : Newer(x) < RingCap}}

\* recordVerifications: a verdict binds to its material, no verdict never
\* replaces one, and the rejects are applied last.
Labelled(e, verdict, refusals) ==
  CASE e.msg \in refusals                                         -> Failed(e.msg)
    [] e.msg \in pending \ refusals /\ verdict[e.msg] # NoVerdict -> verdict[e.msg]
    [] OTHER                                                      -> e.verdict

RecordVerifications(r, verdict, refusals) ==
  {[e EXCEPT !.verdict = Labelled(e, verdict, refusals)] : e \in r}

\* A message that fails without being refused: only the ring says so.
Unrefused(m) == m.key = Unsigned /\ ~RequireSignedWithheld(m, NoVerdict)

\* What newer messages, or another one under its id, push out of the ring of
\* one generation; a ring of another generation takes its failures along.
PushedOut(gen, after) ==
  {m \in {e.msg : e \in FreshCache(gen)} \ {e.msg : e \in after} : Unrefused(m)}

-----------------------------------------------------------------------------
(* One tick of the loop, up to the acknowledgement: the pins are synced     *)
(* (TrustRoot), the batch verified, the ring written and the nonces of what *)
(* wakes the agent burnt. All of it runs without an await but the ack.      *)
SyncPins(tr) ==
  \/ tr = trust
  \/ \E k \in OpKeys \ (trust.pins \cup trust.gone) : tr = [trust EXCEPT !.pins = @ \cup {k}]
  \/ \E k \in trust.pins : tr = [pins |-> trust.pins \ {k}, gone |-> trust.gone \cup {k}]

tick(tr, operatorTrusted, ackOk) ==
  /\ SyncPins(tr)
  /\ trust' = tr
  /\ LET rejected == Carried(tr)
         verdict == [m \in pending |-> IF m \in rejected THEN Failed(m) ELSE VerifyBatch(m, tr)]
         refusals == {m \in pending : VerificationReject(m, verdict[m]) \/ RequireSignedWithheld(m, verdict[m])}
         real == {m \in pending \ wseen : Wakes(m, verdict[m], operatorTrusted)}
         after == RecordVerifications(RecordBatch(FreshCache(tr), rejected), verdict, refusals)
     IN  /\ ring' = after
         /\ rejects' = rejected \cup (refusals \cap {e.msg : e \in after})
         /\ nonces' = nonces \cup {m.id : m \in {x \in real : verdict[x].ok}}
         /\ wseen' = wseen \cup real
         /\ woke' = woke \cup real
         /\ shown' = shown \cup FailedIn(after)
         /\ lapsed' = (lapsed \cup PushedOut(tr, after)) \ FailedIn(after)
  /\ ringGen' = tr
  /\ vouched' = operatorTrusted
  /\ pending' = IF ackOk THEN {} ELSE pending
  /\ UNCHANGED <<rtrust, traffic, mode>>

\* Another copy of the plugin takes the loop over, with its own identity and
\* an empty memory of what it has seen.
takeOver ==
  /\ trust' = rtrust /\ rtrust' = trust
  /\ nonces' = {} /\ wseen' = {}
  /\ UNCHANGED <<ring, ringGen, rejects, vouched, pending, traffic, mode, woke, shown, lapsed>>

\* The reader's copy connects again and loads what the loop has saved.
reconnect ==
  /\ rtrust # trust
  /\ rtrust' = trust
  /\ UNCHANGED <<trust, ring, ringGen, rejects, vouched, nonces, wseen, pending, traffic,
                 mode, woke, shown, lapsed>>

CacheNext ==
  \/ \E m \in traffic : arrive(m)
  \/ \E p, d \in SUBSET OpKeys, operatorTrusted, ackOk \in BOOLEAN :
       tick([pins |-> p, gone |-> d], operatorTrusted, ackOk)
  \/ takeOver
  \/ reconnect

-----------------------------------------------------------------------------
(* The view, for a reader whose own keys are g *)

\* getCachedInbox: what another generation verified is not shown as verified.
Shown(e, g) == IF ringGen # g /\ e.verdict.ok THEN NoVerdict ELSE e.verdict

\* signatureStatusOf
Status(v, m) ==
  CASE v = NoVerdict                          -> "unchecked"
    [] v # NoVerdict /\ v.of.from # m.from    -> "failed"
    [] OTHER                                  -> IF v.ok THEN "verified" ELSE "failed"

\* inboxTrustEnvelope: the signature outranks the relay's word for the operator.
TrustOf(m, status, operatorTrusted) ==
  IF status = "failed" THEN "rejected-signature"
  ELSE IF m.from # "operator" THEN "agent"
  ELSE IF status = "verified" THEN "verified-operator"
  ELSE IF operatorTrusted THEN "attested-operator" ELSE "unverified-operator"

\* inboxMessageView, as ekho_inbox answers it.
View(e, g) == TrustOf(e.msg, Status(Shown(e, g), e.msg), vouched /\ ringGen = g)

-----------------------------------------------------------------------------
\* An operator's message is shown with the operator's authority only on what
\* the reader itself trusts: verified means that very material, by a key the
\* reader pins, and attested means the relay vouched in the reader's own
\* generation; whichever copy wrote the ring, whatever keys were pinned or
\* revoked since, and however ids were delivered again.
AuthorityIsCurrent ==
  \A e \in ring, g \in {trust, rtrust} :
    /\ View(e, g) = "verified-operator" => e.verdict.of = e.msg /\ e.msg.key \in g.pins
    /\ View(e, g) = "attested-operator" => ringGen = g

\* What the ring has once labelled as failed, refused or not, is shown as
\* rejected for as long as it stays there and whenever it is there again:
\* through redeliveries, keys pinned since, no key pinned any more and another
\* copy's loop, the label never decays. The one exception is an unsigned message
\* that nothing dead-lettered, was pushed out of the ring and comes back when no
\* key is pinned: nothing checks it then, and it is unchecked.
RejectionSticks ==
  \A e \in ring, g \in {trust, rtrust} :
    e.msg \in shown => \/ View(e, g) = "rejected-signature"
                       \/ e.msg \in lapsed /\ ringGen.pins = {}

\* What ekho_inbox tells the model of a message's authority is neither stale
\* nor forgotten while there is a record of it.
LabelsSound == AuthorityIsCurrent /\ RejectionSticks

\* What the label says of itself: a message shown as rejected woke no turn.
RejectedWokeNoTurn ==
  \A e \in ring, g \in {trust, rtrust} :
    View(e, g) = "rejected-signature" => e.msg \notin woke
=============================================================================
