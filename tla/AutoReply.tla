------------------------------ MODULE AutoReply ------------------------------
(***************************************************************************)
(* The OpenClaw plugin's auto-reply loop                                   *)
(* (packages/openclaw-plugin/src/autoreply.ts).  A timer starts a tick; the *)
(* tick polls the relay, decides which messages deserve an agent turn,     *)
(* acknowledges the whole batch, asks the relay for the floor of each peer *)
(* conversation, and spawns one turn.  Conversations whose floor is busy   *)
(* are held back in a stash that later ticks retry.  stop() may arrive at  *)
(* any await: the steps below end where the code awaits.                   *)
(*                                                                         *)
(* A message is its index in Messages.  The relay hands out any part of    *)
(* what is not acknowledged, in its own order: late arrival and redelivery *)
(* are the same thing here.                                                *)
(*                                                                         *)
(* A key generation stands for verificationGeneration's digest of pins,    *)
(* tombstones and the TOFU instant, so an earlier one may come back.  Every *)
(* signed message has a nonce of its own.                                  *)
(*                                                                         *)
(* Abstracted: prompts, logs, the caps of 500 of the dedupe and nonce sets *)
(* and the latch maps and the inbox ring's cap (far above a tick's batch), *)
(* a signature going stale between two deliveries (it then fails, as it    *)
(* does when a generation refuses it), the two rate windows' clocks (a     *)
(* window may end whenever time passes).                                   *)
(***************************************************************************)
EXTENDS Integers, Sequences, FiniteSets, SequencesExt

CONSTANTS
  Messages,        \* sequence of [conv, from, trigger, progress, signed, good];
                   \* good: the generations under which its signature holds
  Convs,           \* conversation ids
  Settings,        \* relay settings a batch may carry: [peer, trusted, relay, rooms]
  LocalBudget,     \* opts.peerTurnBudget; 0 is no limit
  RequireSigned,   \* requireSigned = "require"
  RateMax,         \* PEER_RATE_MAX
  RefreshMax,      \* PROGRESS_REFRESH_MAX_PER_WINDOW
  PerConvCap,      \* DEFERRED_MESSAGES_PER_CONV
  ConvCap,         \* DEFERRED_CONVERSATION_CAP
  RetryTtl,        \* DEFERRED_RETRY_TTL_MS, in time steps
  Scopes,          \* bound: the sets of messages that may exist in one behaviour
  Gens,            \* bound: the key generations there are
  Dormant          \* those that pin no operator key: nothing is verified

Ids == DOMAIN Messages

ASSUME AutoReplyAssumption ==
  /\ Messages \in Seq(Range(Messages))
  /\ \A i \in Ids : Messages[i].conv \in Convs
  /\ {PerConvCap, ConvCap, RateMax, RefreshMax, RetryTtl} \subseteq Nat \ {0}
  /\ LocalBudget \in Nat
  /\ Gens \subseteq Nat /\ Dormant \subseteq Gens
  /\ \A s \in Settings : s.relay \in Nat /\ \A c \in DOMAIN s.rooms : s.rooms[c] \in Nat
  /\ Scopes \subseteq SUBSET Ids
  /\ RequireSigned \in BOOLEAN

VARIABLES
  scope,   \* the messages of this behaviour
  acked,   \* acknowledged at the relay
  floor,   \* holder of each conversation's floor: "free", "self" or "other"
  leaked,  \* floors the relay gave us that we will not hand back ourselves
  tick,    \* the tick in flight: its program counter and locals
  mem,     \* AutoReplyState and the flags of startAutoReply
  checks,  \* signatures: what was accepted, failed and put on record
  fate     \* history: what became of each message

vars == <<scope, acked, floor, leaked, tick, mem, checks, fate>>

Conv(i) == Messages[i].conv
FromOperator(i) == Messages[i].from = "operator"
Peers == {Messages[i].from : i \in Ids} \ {"operator"}
ConvsOf(S) == {Conv(i) : i \in S}

NoTurn == [msgs |-> {}, covered |-> {}, shown |-> {}, gen |-> 0]
NoPlan == [floored |-> {}, release |-> {}, held |-> {}]

\* runTick's locals when no tick runs.
IdleTick ==
  [pc |-> "idle", batch |-> {}, settings |-> CHOOSE s \in Settings : TRUE,
   real |-> {}, kept |-> {}, latched |-> {}, notices |-> {}, todo |-> {},
   plan |-> NoPlan, turn |-> NoTurn]

FreshLatch ==
  [used |-> [c \in Convs |-> 0], escalated |-> {},
   recent |-> [p \in Peers |-> 0], refreshes |-> [c \in Convs |-> 0]]

NoFate ==
  [started |-> [i \in Ids |-> 0], dead |-> {}, declined |-> {}, suppressed |-> {},
   lost |-> {}, told |-> {}, resets |-> [c \in Convs |-> 0],
   peerTurns |-> [c \in Convs |-> 0]]

\* accepted: its verified signature woke a turn, its nonce is burnt (seenNonces).
\* failed: its material is known to have failed (the inbox cache).  The record of
\* refusals (dead letters): rejected before it was ever handed over, or replayed,
\* refused when the relay delivered it once more after that.
NoChecks == [accepted |-> {}, failed |-> {}, rejected |-> {}, replayed |-> {}]

Init ==
  /\ scope \in Scopes
  /\ acked = {}
  /\ floor = [c \in Convs |-> "free"]
  /\ leaked = {}
  /\ tick = IdleTick
  /\ \E g \in Gens :
       mem = [seen |-> {}, stash |-> <<>>, latch |-> FreshLatch, gen |-> g,
              stopped |-> FALSE, unhanded |-> {}, covering |-> {}]
  /\ checks = NoChecks
  /\ fate = NoFate

-----------------------------------------------------------------------------
(* Signatures *)

\* Mutant: a batch is judged afresh, whatever was refused before.
VerdictAfresh(i, gen) ==
  IF gen \in Dormant THEN "none"
  ELSE IF Messages[i].signed /\ gen \in Messages[i].good /\ i \notin checks.accepted
  THEN "verified"
  ELSE "failed"

\* verifyBatch with the durable rejects over it: material that failed once has
\* failed for good, and a nonce that was burnt makes the message a replay.
Verdict(i, gen) ==
  IF i \in checks.failed THEN "failed"
  ELSE IF gen \in Dormant THEN "none"
  ELSE IF Messages[i].signed /\ gen \in Messages[i].good /\ i \notin checks.accepted
  THEN "verified"
  ELSE "failed"

\* collectVerificationRejects, and in require mode collectRequireSignedWithheld.
Rejected(i, gen) ==
  \/ Messages[i].signed /\ Verdict(i, gen) = "failed"
  \/ /\ RequireSigned
     /\ Messages[i].trigger /\ ~FromOperator(i)
     /\ ~Messages[i].signed \/ Verdict(i, gen) = "none"

\* shouldAutowake
Autowakes(i, s, gen) ==
  LET checked == Messages[i].signed /\ Verdict(i, gen) # "none"
      verified == Messages[i].signed /\ Verdict(i, gen) = "verified"
  IN IF FromOperator(i) THEN IF checked THEN verified ELSE s.trusted
     ELSE s.peer /\ (RequireSigned \/ checked => verified)

-----------------------------------------------------------------------------
(* Turn budgets *)

IsCapped(budget) == budget > 0

WithLocalRoomCap(v) == IF IsCapped(LocalBudget) /\ v = 0 THEN LocalBudget ELSE v

EffectivePeerBudget(s) == IF IsCapped(s.relay) THEN s.relay ELSE LocalBudget

\* A room's own value, even "no limit", stands above the agent's.
EffectiveConversationBudget(s, c) ==
  IF c \in DOMAIN s.rooms THEN WithLocalRoomCap(s.rooms[c]) ELSE EffectivePeerBudget(s)

ResetPeerLatch(latch, C) ==
  [latch EXCEPT !.used = [c \in Convs |-> IF c \in C THEN 0 ELSE latch.used[c]],
                !.escalated = @ \ C]

Uncapped(s) == {c \in Convs : ~IsCapped(EffectiveConversationBudget(s, c))}

ReconcilePeerLatches(latch, s) == ResetPeerLatch(latch, Uncapped(s))

Refreshes(i, gen) ==
  /\ Messages[i].progress
  /\ ~FromOperator(i)
  /\ Verdict(i, gen) # "failed"

\* refreshBudgetForProgressSignals with noteProgressRefresh: a conversation is
\* refreshed while its window has room.
RefreshBudgetForProgressSignals(latch, batch, gen) ==
  LET Signals(c) == {i \in batch : Refreshes(i, gen) /\ Conv(i) = c}
      refreshed == {c \in Convs : Signals(c) # {} /\ latch.refreshes[c] < RefreshMax}
      After(c) == latch.refreshes[c] + Cardinality(Signals(c))
  IN ResetPeerLatch(
       [latch EXCEPT !.refreshes =
          [c \in Convs |-> IF c \notin refreshed THEN latch.refreshes[c]
                           ELSE IF After(c) < RefreshMax THEN After(c) ELSE RefreshMax]],
       refreshed)

\* applyPeerRateGate: the latch with its window counts, and what passes. A batch
\* is in the order of its ids.
ApplyPeerRateGate(latch, real) ==
  LET peers == {i \in real : ~FromOperator(i)}
      Ahead(i) == {j \in peers : j < i /\ Messages[j].from = Messages[i].from}
      open == {i \in peers : latch.recent[Messages[i].from] + Cardinality(Ahead(i)) < RateMax}
  IN [kept |-> (real \ peers) \cup open,
      latch |-> [latch EXCEPT !.recent =
                   [p \in Peers |-> latch.recent[p] + Cardinality({i \in open : Messages[i].from = p})]]]

PeerLatchOpen(s, c, used) ==
  ~IsCapped(EffectiveConversationBudget(s, c)) \/ used < EffectiveConversationBudget(s, c)

\* applyPeerLatch: the latch after the batch, what gets a turn, and the
\* conversations whose latch is closed.
ApplyPeerLatch(latch, s, rateKept) ==
  LET peers == {i \in rateKept : ~FromOperator(i)}
      Ahead(i) == {j \in peers : j < i /\ Conv(j) = Conv(i)}
      open == {i \in peers : PeerLatchOpen(s, Conv(i), latch.used[Conv(i)] + Cardinality(Ahead(i)))}
      consumed == [latch EXCEPT !.used =
                     [c \in Convs |-> latch.used[c] + Cardinality({i \in open : Conv(i) = c})]]
  IN [kept |-> (rateKept \ peers) \cup open, latched |-> ConvsOf(peers \ open),
      latch |-> ResetPeerLatch(consumed, ConvsOf(open) \cap Uncapped(s))]

-----------------------------------------------------------------------------
(* The stash: [conv, held, age], in the order of the Map's insertions.  An  *)
(* entry of held is a message and the key generation its verified verdict   *)
(* was computed under, NoVerdict when it has none.                          *)

NoVerdict == -1

\* A message being handed over has its passing verdict from this tick's batch.
VerdictGen(i, gen) == IF i \in checks.accepted THEN gen ELSE NoVerdict

HeldMsgs(st) == {st.held[k].msg : k \in DOMAIN st.held}
Stashed(stash) == UNION {HeldMsgs(stash[k]) : k \in DOMAIN stash}
StashConvs(stash) == {stash[k].conv : k \in DOMAIN stash}
StashOf(stash, c) == stash[CHOOSE k \in DOMAIN stash : stash[k].conv = c]

\* The numbers of S in their order, and the entries of a stash at the places K.
InOrder(S) == [n \in 1..Cardinality(S) |-> CHOOSE i \in S : Cardinality({j \in S : j <= i}) = n]
Only(stash, K) == [n \in DOMAIN InOrder(K) |-> stash[InOrder(K)[n]]]

ClearDeferred(stash, C) == Only(stash, {k \in DOMAIN stash : stash[k].conv \notin C})

LastN(s, n) == SubSeq(s, Len(s) - (IF n < Len(s) THEN n ELSE Len(s)) + 1, Len(s))

\* The first of the messages held back in c.
First(held, c) == CHOOSE i \in held : Conv(i) = c /\ \A j \in held : Conv(j) = c => i <= j

\* The stash of c when its messages are put: the conversations of the plan before
\* it may have pushed the one it had out of the Map.
Existing(stash, held, c) ==
  LET behind == {j \in DOMAIN stash : \E i \in 1..(j - 1) : stash[i].conv = c}
      ahead == {d \in ConvsOf(held) : First(held, d) < First(held, c)}
  IN IF c \in StashConvs(stash) /\ Cardinality({stash[j].conv : j \in behind} \cup ahead) < ConvCap
     THEN StashOf(stash, c)
     ELSE [conv |-> c, held |-> <<>>, age |-> 0]

Incoming(held, c, gen) ==
  LET ids == InOrder({i \in held : Conv(i) = c})
  IN [n \in DOMAIN ids |-> [msg |-> ids[n], gen |-> VerdictGen(ids[n], gen)]]

\* The newest messages of c that fit, with the instant of the first deferral.
Merged(stash, held, c, gen) ==
  LET old == Existing(stash, held, c)
  IN [conv |-> c, age |-> old.age,
      held |-> LastN(old.held \o Incoming(held, c, gen), PerConvCap)]

\* stashDeferred for every conversation of the plan, in the order of their first
\* messages: each moves to the back of the Map, and the oldest over the cap go.
\* The caller dead-letters what was dropped.
StashDeferred(stash, held, gen) ==
  LET firsts == InOrder({First(held, c) : c \in ConvsOf(held)})
      put == [n \in DOMAIN firsts |-> Merged(stash, held, Conv(firsts[n]), gen)]
      after == LastN(ClearDeferred(stash, ConvsOf(held)) \o put, ConvCap)
  IN [stash |-> after, dropped |-> (Stashed(stash) \cup held) \ Stashed(after)]

Expired(st) == st.age > RetryTtl
\* Mutant: a stash waits for its floor however long that takes.
NeverExpired(stash) == {}

Expireds(stash) == {k \in DOMAIN stash : Expired(stash[k])}
RetryableDeferred(stash) == {stash[k].conv : k \in DOMAIN stash \ Expireds(stash)}

\* The oldest of the positions K; a tie goes to the earlier insertion.
Oldest(stash, K) ==
  CHOOSE k \in K : \A j \in K :
    \/ stash[j].age < stash[k].age
    \/ stash[j].age = stash[k].age /\ k <= j

\* Mutant: a held-back verdict is shown whatever keys it was computed under.
AnyVerdict(e, gen) == e.gen # NoVerdict

\* entryVerdict: whether the turn presents the message as verified.
EntryVerdict(e, gen) == e.gen = gen

HeldTurn(st, covered, gen) ==
  [msgs |-> HeldMsgs(st), covered |-> covered, gen |-> gen,
   shown |-> {e \in Range(st.held) : EntryVerdict(e, gen)}]

\* mergeCoveredStashes: the fresh messages and every stash of their conversations.
CoveringTurn(stash, floored, gen) ==
  LET C == ConvsOf(floored) \cap StashConvs(stash)
      held == UNION {Range(StashOf(stash, c).held) : c \in C}
      fresh == {[msg |-> i, gen |-> gen] : i \in floored \cap checks.accepted}
  IN [msgs |-> floored \cup {e.msg : e \in held}, covered |-> C, gen |-> gen,
      shown |-> fresh \cup {e \in held : EntryVerdict(e, gen)}]

-----------------------------------------------------------------------------
(* stop() and the end of a tick *)

\* Mutant: a stop leaves alone whatever is stashed.
FlushUnhandedOnly(m) ==
  [mem |-> [m EXCEPT !.unhanded = {}], dead |-> m.unhanded]

\* flushOnStop: what the loop still holds, except what the turn in flight covers.
FlushOnStop(m) ==
  LET spared == {k \in DOMAIN m.stash : m.stash[k].conv \in m.covering}
  IN [mem |-> [m EXCEPT !.unhanded = {}, !.stash = Only(m.stash, spared)],
      dead |-> m.unhanded \cup UNION {HeldMsgs(m.stash[k]) : k \in DOMAIN m.stash \ spared}]

\* tick's finally block.  f is the history so far.
TickEnds(m, f) ==
  LET cleared == [m EXCEPT !.unhanded = {}, !.covering = {}]
      flushed == FlushOnStop(cleared)
  IN /\ tick' = IdleTick
     /\ IF m.stopped
        THEN /\ mem' = flushed.mem
             /\ fate' = [f EXCEPT !.dead = @ \cup flushed.dead]
        ELSE /\ mem' = cleared
             /\ fate' = f

\* The function returned by startAutoReply.
Stop ==
  /\ ~mem.stopped
  /\ LET flushed == FlushOnStop(mem)
     IN /\ mem' = [flushed.mem EXCEPT !.stopped = TRUE]
        /\ fate' = [fate EXCEPT !.dead = @ \cup flushed.dead]
  /\ UNCHANGED <<scope, acked, floor, leaked, tick, checks>>

\* Releasing floors is best effort: one that fails stays ours until it expires.
ReleaseFloors(C) ==
  \E failed \in SUBSET C :
    /\ floor' = [c \in Convs |-> IF c \in C \ failed THEN "free" ELSE floor[c]]
    /\ leaked' = (leaked \ C) \cup failed

-----------------------------------------------------------------------------
(* serviceDeferredTurn: one expired stash without its floor, else the retries. *)

ServiceDeferred(t, m, f) ==
  LET todo == RetryableDeferred(m.stash)
      K == Expireds(m.stash)
      late == m.stash[Oldest(m.stash, K)]
  IN /\ fate' = f
     /\ IF K # {}
        THEN /\ tick' = [t EXCEPT !.pc = "lateTurn", !.todo = todo,
                                  !.turn = HeldTurn(late, {}, m.gen)]
             /\ mem' = [m EXCEPT !.stash = ClearDeferred(m.stash, {late.conv})]
        ELSE /\ tick' = [t EXCEPT !.pc = "retry", !.todo = todo]
             /\ mem' = m

\* A turn that ran: which messages it carried, and whether it spent budget
\* (its conversations with no operator message among them).
Started(f, turn) ==
  LET peerOnly == {c \in ConvsOf(turn.msgs) :
                     \A i \in turn.msgs : Conv(i) = c => ~FromOperator(i)}
  IN [f EXCEPT !.started = [i \in Ids |-> f.started[i] + (IF i \in turn.msgs THEN 1 ELSE 0)],
               !.peerTurns = [c \in Convs |-> f.peerTurns[c] + (IF c \in peerOnly THEN 1 ELSE 0)]]

\* runExpiredDeferredTurn after its await.
LateTurnEnds(started) ==
  /\ tick.pc = "lateTurn"
  /\ IF started
     THEN TickEnds(mem, Started(fate, tick.turn))
     ELSE /\ fate' = [fate EXCEPT !.dead = @ \cup tick.turn.msgs]
          /\ tick' = [tick EXCEPT !.pc = "retry", !.turn = NoTurn]
          /\ mem' = mem
  /\ UNCHANGED <<scope, acked, floor, leaked, checks>>

NextRetry(c) ==
  /\ tick.pc = "retry"
  /\ c \in tick.todo
  /\ \A d \in tick.todo \cap StashConvs(mem.stash) :
       c \in StashConvs(mem.stash) => StashOf(mem.stash, d).age <= StashOf(mem.stash, c).age

\* The relay could not be asked, or its answer was lost with the floor granted.
RetryAcquireFails(c) ==
  /\ NextRetry(c)
  /\ tick' = [tick EXCEPT !.todo = @ \ {c}]
  /\ \/ UNCHANGED <<floor, leaked>>
     \/ /\ floor[c] \in {"free", "self"}
        /\ floor' = [floor EXCEPT ![c] = "self"]
        /\ leaked' = leaked \cup {c}
  /\ UNCHANGED <<scope, acked, mem, fate, checks>>

RetryRefused(c) ==
  /\ NextRetry(c)
  /\ floor[c] = "other"
  /\ IF mem.stopped
     THEN TickEnds(mem, fate)
     ELSE tick' = [tick EXCEPT !.todo = @ \ {c}] /\ UNCHANGED <<mem, fate>>
  /\ UNCHANGED <<scope, acked, floor, leaked, checks>>

\* Granted: the stash is taken and its turn starts, unless the loop was stopped.
RetryGranted(c) ==
  /\ NextRetry(c)
  /\ floor[c] # "other"
  /\ IF mem.stopped
     THEN /\ TickEnds(mem, fate)
          /\ \/ floor' = [floor EXCEPT ![c] = "free"] /\ leaked' = leaked \ {c}
             \/ floor' = [floor EXCEPT ![c] = "self"] /\ leaked' = leaked \cup {c}
     ELSE /\ floor' = [floor EXCEPT ![c] = "self"]
          /\ leaked' = leaked \ {c}
          /\ tick' = [tick EXCEPT !.pc = "retryTurn", !.todo = {c},
                                  !.turn = HeldTurn(StashOf(mem.stash, c), {}, mem.gen)]
          /\ mem' = [mem EXCEPT !.stash = ClearDeferred(mem.stash, {c})]
          /\ fate' = fate
  /\ UNCHANGED <<scope, acked, checks>>

\* Mutant: a retry that fails to spawn is only logged.
RetryTurnForgets(started) ==
  /\ tick.pc = "retryTurn"
  /\ TickEnds(mem, IF started THEN Started(fate, tick.turn) ELSE fate)
  /\ ReleaseFloors(tick.todo)
  /\ UNCHANGED <<scope, acked, checks>>

RetryTurnEnds(started) ==
  /\ tick.pc = "retryTurn"
  /\ TickEnds(mem, IF started THEN Started(fate, tick.turn)
                   ELSE [fate EXCEPT !.dead = @ \cup tick.turn.msgs])
  /\ ReleaseFloors(tick.todo)
  /\ UNCHANGED <<scope, acked, checks>>

RetriesDone ==
  /\ tick.pc = "retry"
  /\ tick.todo = {}
  /\ TickEnds(mem, fate)
  /\ UNCHANGED <<scope, acked, floor, leaked, checks>>

-----------------------------------------------------------------------------
(* runTick *)

\* The relay answers getInbox; the answer is on its way.
Poll ==
  /\ tick.pc = "idle"
  /\ ~mem.stopped
  /\ \E S \in SUBSET (scope \ acked), s \in Settings :
       tick' = [IdleTick EXCEPT !.pc = "polled", !.settings = s, !.batch = S]
  /\ UNCHANGED <<scope, acked, floor, leaked, mem, fate, checks>>

\* whyNotRealInbound
RealInbound(i, s, gen) ==
  /\ Messages[i].trigger
  /\ i \notin mem.seen
  /\ Autowakes(i, s, gen)

\* markSeen, unhanded and the start of the acknowledgement.
HandOver(t, m, f) ==
  /\ tick' = [t EXCEPT !.pc = "acking", !.real = {}, !.settings = IdleTick.settings]
  /\ mem' = [m EXCEPT !.seen = @ \cup t.real, !.unhanded = t.kept]
  /\ fate' = [f EXCEPT !.suppressed = @ \cup (t.real \ t.kept)]

\* History of the latch: a reset counts when it undoes something.
CountResets(f, before, after) ==
  LET C == {c \in Convs : \/ after.used[c] < before.used[c]
                          \/ c \in before.escalated \ after.escalated}
  IN [f EXCEPT !.resets = [c \in Convs |-> f.resets[c] + (IF c \in C THEN 1 ELSE 0)],
               !.told = @ \ C]

\* Mutant: the conversation is marked before it is asked whether it was.
NoneToEscalate(latch, latched) == latched \ (latch.escalated \cup latched)

\* markConversationEscalated is true once per closing of the latch.
ToEscalate(latch, latched) == latched \ latch.escalated

\* The verdicts of a batch: the rejects go on the record, what failed is
\* remembered (the failure of an unsigned message matters to a progress signal
\* only), and what wakes a turn on its signature burns its nonce.
CheckBatch(batch, real, gen) ==
  LET rejects == {i \in batch : Rejected(i, gen)}
      signals == {i \in batch : Messages[i].progress /\ Verdict(i, gen) = "failed"}
  IN [checks EXCEPT
        !.accepted = @ \cup {i \in real : Verdict(i, gen) = "verified"},
        !.failed = @ \cup rejects \cup signals,
        !.rejected = @ \cup (rejects \ mem.seen),
        !.replayed = @ \cup (rejects \cap mem.seen)]

\* The batch, judged under the generation the sync of the pinned keys left.
AdmitBatch(gen) ==
  LET s == tick.settings
      real == {i \in tick.batch : RealInbound(i, s, gen)}
      declined == {i \in tick.batch : Messages[i].trigger /\ ~Autowakes(i, s, gen)}
      reconciled == RefreshBudgetForProgressSignals(
                      ReconcilePeerLatches(mem.latch, s), tick.batch, gen)
      spoken == ResetPeerLatch(reconciled, ConvsOf({i \in real : FromOperator(i)}))
      rated == ApplyPeerRateGate(spoken, real)
      gated == ApplyPeerLatch(rated.latch, s, rated.kept)
      notices == ToEscalate(gated.latch, gated.latched)
      latch == [gated.latch EXCEPT !.escalated = @ \cup gated.latched]
      m == [mem EXCEPT !.gen = gen, !.latch = latch]
      f == [CountResets(fate, mem.latch, spoken) EXCEPT !.declined = @ \cup declined]
      t == [tick EXCEPT !.real = real, !.kept = gated.kept,
                        !.latched = gated.latched, !.notices = notices]
  IN /\ checks' = CheckBatch(tick.batch, real, gen)
     /\ IF notices = {}
        THEN HandOver(t, m, f)
        ELSE tick' = [t EXCEPT !.pc = "notice"] /\ mem' = m /\ fate' = f

\* From the poll's answer to the next await.
ProcessBatch ==
  /\ tick.pc = "polled"
  /\ IF mem.stopped
     THEN TickEnds(mem, fate) /\ UNCHANGED checks
     ELSE \E gen \in Gens : AdmitBatch(gen)
  /\ UNCHANGED <<scope, acked, floor, leaked>>

\* raiseNotice settles, one way or the other.
NoticeSettles(c) ==
  /\ tick.pc = "notice"
  /\ c \in tick.notices
  /\ LET f == [fate EXCEPT !.told = @ \cup {c}]
         t == [tick EXCEPT !.notices = @ \ {c}]
     IN IF mem.stopped THEN TickEnds(mem, f)
        ELSE IF t.notices = {} THEN HandOver(t, mem, f)
        ELSE tick' = t /\ mem' = mem /\ fate' = f
  /\ UNCHANGED <<scope, acked, floor, leaked, checks>>

\* The batch is of no further use once the acknowledgement has settled.
Acked == [tick EXCEPT !.batch = {}, !.latched = {}]

\* Mutant: after a stop the tick goes on to the floors.
AckSettlesRegardless(ok) ==
  /\ tick.pc = "acking"
  /\ acked' = IF ok THEN acked \cup tick.batch ELSE acked
  /\ IF tick.kept = {}
     THEN ServiceDeferred(Acked, mem, fate)
     ELSE /\ tick' = [Acked EXCEPT !.pc = "acquiring", !.todo = ConvsOf(tick.kept)]
          /\ UNCHANGED <<mem, fate>>
  /\ UNCHANGED <<scope, floor, leaked, checks>>

\* ackMessages settles; a failure is only logged.
AckSettles(ok) ==
  /\ tick.pc = "acking"
  /\ acked' = IF ok THEN acked \cup tick.batch ELSE acked
  /\ IF mem.stopped THEN TickEnds(mem, fate)
     ELSE IF tick.kept = {} THEN ServiceDeferred(Acked, mem, fate)
     ELSE /\ tick' = [Acked EXCEPT !.pc = "acquiring", !.todo = ConvsOf(tick.kept)]
          /\ UNCHANGED <<mem, fate>>
  /\ UNCHANGED <<scope, floor, leaked, checks>>

KeptIn(c) == {i \in tick.kept : Conv(i) = c}

\* planFloorTurn, one conversation: the operator needs no floor, an acquire
\* that fails does not hold the turn up, a busy floor defers it.
AcquireFloor(c) ==
  /\ tick.pc = "acquiring"
  /\ c \in tick.todo
  /\ LET msgs == KeptIn(c)
         floored == [tick EXCEPT !.todo = @ \ {c}, !.plan.floored = @ \cup msgs]
         granted == [floored EXCEPT !.plan.release = @ \cup {c}]
         held == [tick EXCEPT !.todo = @ \ {c}, !.plan.held = @ \cup msgs]
     IN \/ /\ \A i \in msgs : FromOperator(i)
           /\ tick' = floored
           /\ UNCHANGED <<floor, leaked>>
        \/ /\ \E i \in msgs : ~FromOperator(i)
           /\ \/ /\ floor[c] # "other"
                 /\ tick' = granted
                 /\ floor' = [floor EXCEPT ![c] = "self"]
                 /\ leaked' = leaked \ {c}
              \/ floor[c] = "other" /\ tick' = held /\ UNCHANGED <<floor, leaked>>
              \/ tick' = floored /\ UNCHANGED <<floor, leaked>>
              \/ /\ floor[c] # "other"
                 /\ tick' = floored
                 /\ floor' = [floor EXCEPT ![c] = "self"]
                 /\ leaked' = leaked \cup {c}
  /\ UNCHANGED <<scope, acked, mem, fate, checks>>

\* The plan is complete: stash what is deferred and start the turn.
PlanSettles ==
  /\ tick.pc = "acquiring"
  /\ tick.todo = {}
  /\ IF mem.stopped
     THEN /\ ReleaseFloors(tick.plan.release)
          /\ TickEnds(mem, fate)
     ELSE LET put == StashDeferred(mem.stash, tick.plan.held, mem.gen)
              turn == CoveringTurn(put.stash, tick.plan.floored, mem.gen)
              m == [mem EXCEPT !.stash = put.stash, !.unhanded = {}]
              f == [fate EXCEPT !.dead = @ \cup put.dropped]
          IN /\ IF tick.plan.floored # {}
                THEN /\ tick' = [tick EXCEPT !.pc = "turn", !.turn = turn]
                     /\ mem' = [m EXCEPT !.covering = turn.covered]
                     /\ fate' = f
                ELSE ServiceDeferred(IdleTick, m, f)
             /\ UNCHANGED <<floor, leaked>>
  /\ UNCHANGED <<scope, acked, checks>>

\* triggerTurn returns: the child exited, timed out or never started.
TurnEnds(started) ==
  /\ tick.pc = "turn"
  /\ LET m == [mem EXCEPT !.covering = {}]
         flushed == FlushOnStop(m)
         lost == [fate EXCEPT !.lost = @ \cup tick.plan.floored]
     IN IF started
        THEN /\ mem' = [m EXCEPT !.stash = ClearDeferred(mem.stash, tick.turn.covered)]
             /\ fate' = Started(fate, tick.turn)
        ELSE IF tick.turn.covered # {} /\ mem.stopped
        THEN /\ mem' = flushed.mem
             /\ fate' = [lost EXCEPT !.dead = @ \cup flushed.dead]
        ELSE mem' = m /\ fate' = lost
  /\ tick' = [IdleTick EXCEPT !.pc = "releasing", !.plan.release = tick.plan.release]
  /\ UNCHANGED <<scope, acked, floor, leaked, checks>>

FloorsReleased ==
  /\ tick.pc = "releasing"
  /\ ReleaseFloors(tick.plan.release)
  /\ IF mem.stopped THEN TickEnds(mem, fate)
     ELSE ServiceDeferred(IdleTick, mem, fate)
  /\ UNCHANGED <<scope, acked, checks>>

-----------------------------------------------------------------------------
(* The other agents of the conversation, and time *)

OtherAcquires(c) ==
  /\ floor[c] = "free"
  /\ floor' = [floor EXCEPT ![c] = "other"]
  /\ UNCHANGED <<scope, acked, leaked, tick, mem, fate, checks>>

OtherReleases(c) ==
  /\ floor[c] = "other"
  /\ floor' = [floor EXCEPT ![c] = "free"]
  /\ UNCHANGED <<scope, acked, leaked, tick, mem, fate, checks>>

LeaseExpires(c) ==
  /\ c \in leaked
  /\ floor' = [floor EXCEPT ![c] = "free"]
  /\ leaked' = leaked \ {c}
  /\ UNCHANGED <<scope, acked, tick, mem, fate, checks>>

\* The stashes age (once past the retry window, how far no longer matters).
Aged(st) == [st EXCEPT !.age = IF Expired(st) THEN st.age ELSE st.age + 1]

TimePasses ==
  /\ mem' = [mem EXCEPT !.stash = [k \in DOMAIN mem.stash |-> Aged(mem.stash[k])]]
  /\ mem' # mem
  /\ UNCHANGED <<scope, acked, floor, leaked, tick, fate, checks>>

\* The rate windows of peers and of progress signals start over.
WindowsEnd ==
  /\ mem' = [mem EXCEPT !.latch.recent = FreshLatch.recent,
                        !.latch.refreshes = FreshLatch.refreshes]
  /\ mem' # mem
  /\ UNCHANGED <<scope, acked, floor, leaked, tick, fate, checks>>

LoopStep ==
  \/ ProcessBatch
  \/ \E c \in Convs : NoticeSettles(c)
  \/ \E ok \in BOOLEAN : AckSettles(ok)
  \/ \E c \in Convs : AcquireFloor(c)
  \/ PlanSettles
  \/ \E started \in BOOLEAN :
       TurnEnds(started) \/ LateTurnEnds(started) \/ RetryTurnEnds(started)
  \/ FloorsReleased
  \/ \E c \in Convs : RetryAcquireFails(c) \/ RetryRefused(c) \/ RetryGranted(c)
  \/ RetriesDone

Next ==
  \/ Poll
  \/ LoopStep
  \/ Stop
  \/ TimePasses
  \/ WindowsEnd
  \/ \E c \in ConvsOf(scope) : OtherAcquires(c) \/ OtherReleases(c) \/ LeaseExpires(c)

\* setInterval keeps starting ticks, every await of a tick settles (requests
\* and the agent turn have timeouts), and time passes.  Nothing makes other
\* agents hand a floor back, nor stop() come. The third conjunct is WF_vars(Poll)
\* and WF_vars(LoopStep) in a form TLC evaluates quickly: Poll and LoopStep are the
\* steps that change tick, and one of them is enabled unless the loop is idle and
\* stopped.
Spec ==
  /\ Init
  /\ [][Next]_vars
  /\ []<>(tick.pc = "idle" /\ mem.stopped) \/ []<><<tick' # tick>>_vars
  /\ WF_vars(TimePasses)

-----------------------------------------------------------------------------
(* Properties *)

InHand == mem.unhanded \cup Stashed(mem.stash) \cup tick.turn.msgs

\* Types of the loop's state, and no tick's locals without a tick.
TypeOK ==
  /\ scope \subseteq Ids
  /\ acked \subseteq scope
  /\ floor \in [Convs -> {"free", "self", "other"}]
  /\ leaked \subseteq {c \in Convs : floor[c] = "self"}
  /\ tick.pc \in {"idle", "polled", "notice", "acking", "acquiring", "turn", "releasing",
                  "lateTurn", "retry", "retryTurn"}
  /\ Len(mem.stash) <= ConvCap
  /\ \A k \in DOMAIN mem.stash : Len(mem.stash[k].held) \in 1..PerConvCap
  /\ mem.gen \in Gens
  /\ tick.pc = "idle" => tick = IdleTick

\* No acknowledged message that asks for a turn disappears: the loop holds it,
\* gave it a turn, put it on the dead-letter record, or turned it away in a way
\* that leaves at most a line in the log: no authority for it (declined), the rate
\* or the budget (suppressed), a turn that failed to spawn (lost).
AckedAccounted ==
  \A i \in acked : Messages[i].trigger =>
    \/ i \in InHand \cup fate.dead \cup checks.rejected
    \/ i \in fate.declined \cup fate.suppressed \cup fate.lost
    \/ fate.started[i] > 0

\* At most one turn, and never a turn as well as a record that says the message
\* was held back or in flight and gets none.
OneFate ==
  \A i \in Ids :
    /\ fate.started[i] <= 1
    /\ fate.started[i] = 1 => i \notin fate.dead \cup Stashed(mem.stash)
    /\ i \in fate.dead => i \notin Stashed(mem.stash)

\* A refusal stands: a message put on the record for its signature before it was
\* handed over gets no turn, no stash and no other record, whatever the pinned
\* keys become.  Only a message already handed over, whose acknowledgement
\* failed, may be put on that record beside its fate (its own nonce makes the
\* second delivery a replay).
RefusalStands ==
  /\ \A i \in checks.rejected :
       /\ fate.started[i] = 0
       /\ i \notin InHand \cup fate.dead \cup fate.suppressed \cup fate.lost
  /\ checks.rejected \cap checks.replayed = {}

\* What becomes of a message the loop acknowledges, over redeliveries, changes
\* of the pinned keys, busy floors and a stop at any await.
FatesAccounted == TypeOK /\ AckedAccounted /\ OneFate /\ RefusalStands

\* A turn presents a message as verified only if its signature holds under the
\* keys pinned while the turn runs, however long the message was held back and
\* whatever stashes it passed through since it was checked.
NoStaleVerdict == \A e \in tick.turn.shown : mem.gen \in Messages[e.msg].good

\* Peer turns cost budget: between two resets of a conversation's latch (the
\* operator speaks, progress, no limit) it gives at most the largest budget.
PeerTurnsBounded ==
  \A c \in Convs :
    (\A s \in Settings : IsCapped(EffectiveConversationBudget(s, c)))
      => \A s \in Settings :
           (\A r \in Settings : EffectiveConversationBudget(r, c) <= EffectiveConversationBudget(s, c))
             => fate.peerTurns[c] <= EffectiveConversationBudget(s, c) * (fate.resets[c] + 1)

\* A conversation that runs out of budget is announced to the operator once per
\* closing of its latch: one notice is attempted, and a notice the relay did not
\* take is not repeated.
EscalatedOncePerLatch ==
  /\ tick.pc = "acking" => tick.latched \subseteq fate.told
  /\ tick.pc = "notice" => tick.notices \cap fate.told = {}

\* Agents cannot talk to each other without end: the latch bounds their turns
\* and the loop raises one notice of it.
PeerTurnsLatched == PeerTurnsBounded /\ EscalatedOncePerLatch

\* Between ticks the loop keeps no floor it could still hand back.
FloorsReturned == tick.pc = "idle" => {c \in Convs : floor[c] = "self"} \subseteq leaked

\* Once stopped and idle the loop holds no message.
StoppedHoldsNothing == mem.stopped /\ tick.pc = "idle" => InHand = {}

\* Nothing is kept that nobody will return: no floor after a tick, no message
\* after a stop, wherever in a tick the stop fell.
NothingLeaks == FloorsReturned /\ StoppedHoldsNothing

\* "From then on it acks nothing, stashes nothing and spawns no turn"
\* (autoreply.ts:2260), and begins no round of floors: an acknowledgement already
\* sent may still settle, and planFloorTurn asks on for the floors of the plan it
\* is in the middle of (NothingLeaks has those handed back).
StoppedStartsNothing ==
  [][mem.stopped => /\ tick'.turn \in {tick.turn, NoTurn}
                    /\ Stashed(mem'.stash) \subseteq Stashed(mem.stash)
                    /\ acked' # acked => tick.pc = "acking"
                    /\ tick'.pc \notin {"acking", "acquiring"} \/ tick'.pc = tick.pc]_vars

\* Held back is not forgotten: every stash gets its turn or its record, even if
\* the floor never comes free ("Nothing is ever dropped for being late").
HeldSettles == \A i \in Ids : (i \in Stashed(mem.stash)) ~> (i \notin Stashed(mem.stash))
=============================================================================
