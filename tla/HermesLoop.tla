----------------------------- MODULE HermesLoop -----------------------------
(***************************************************************************)
(* The auto-reply loop of the Hermes plugin: packages/hermes-plugin/       *)
(* ekho_hermes/autoreply.py, process_inbox_once and start_autoreply. One   *)
(* thread polls, acknowledges the batch, takes conversation floors and     *)
(* blocks on the child process that is the agent's turn; another thread    *)
(* may call stop(). Messages another agent's floor holds back are stashed  *)
(* in memory, since they are acknowledged and will not come again.         *)
(*                                                                         *)
(* A message is its held_key (id and signed material), so a reused id with *)
(* other content is another message, and each has a signature of its own,  *)
(* with its own nonce. A check may fail for any reason verify_inbound has: *)
(* which signed messages it fails is a choice, except that a burnt nonce   *)
(* always does. Every message is of a type that wakes (those that do not   *)
(* are skipped by the code). Abstracted: prompts, attachments, the leases  *)
(* themselves (module Conversations), the rolling windows of the rate gate *)
(* and of the progress refreshes (which peers are suppressed and which     *)
(* signals refresh are choices), and SEEN_CAP, the 500 keys and nonces     *)
(* after which the oldest are forgotten.                                   *)
(***************************************************************************)
EXTENDS Naturals, FiniteSets, FiniteSetsExt

CONSTANTS
  HMsgs,       \* messages: records [n, conv, op, signed], in the relay's order by n
  Requires,    \* require_signed = "require", the values it may have
  HBudgets,    \* peer turn budgets in force at a poll; 0 is no limit
  PerConv,     \* DEFERRED_MESSAGES_PER_CONV
  StashCap     \* DEFERRED_CONVERSATION_CAP

HConvs == {m.conv : m \in HMsgs}

VARIABLES
  hinbox,    \* messages the relay delivers: sent and not acknowledged
  hphase,    \* "waiting", "planning", "turn", "service", "expired turn", "retry" or
             \* "retry turn"
  hrequire,  \* require_signed = "require"
  hstop,     \* stop_event
  seen,      \* state.seen
  hnonces,   \* messages whose nonce is in state.seen_nonces
  kept,      \* messages of this tick that get a turn
  stash,     \* deferred_by_conversation: [conv, msgs, place, rank, late], place
             \* in the map's order and rank in the order of first deferral
  turn,      \* messages the running child was given
  cover,     \* stashed conversations the running child covers
  used,      \* peer_turns_by_conversation
  told,      \* escalated_closed_convs
  again,     \* history: messages let through or rejected and then not acknowledged
  denied,    \* history: rejects, dead-lettered as that
  chosen,    \* history: messages that were to get a turn
  turned,    \* history: turns each message was given to
  redone,    \* history: of those, the ones that broke and left the message over
  deadLettered,      \* history: dead-lettered for want of a turn
  unspawned  \* history: fresh messages of a turn that did not start; only logged

verdictVars == <<hrequire, hnonces, again, denied>>

hermesVars == <<verdictVars, hinbox, hphase, hstop, seen, kept, stash, turn, cover, used,
                told, chosen, turned, redone, deadLettered, unspawned>>

HermesInit ==
  /\ hrequire \in Requires /\ hnonces = {} /\ again = {} /\ denied = {}
  /\ hinbox = {} /\ hphase = "waiting" /\ hstop = FALSE
  /\ seen = {} /\ kept = {} /\ stash = {} /\ turn = {} /\ cover = {}
  /\ used = [c \in HConvs |-> 0] /\ told = {}
  /\ chosen = {}
  /\ turned = [m \in HMsgs |-> 0] /\ redone = [m \in HMsgs |-> 0]
  /\ deadLettered = {} /\ unspawned = {}

Earlier(a, b) == a.n < b.n

\* A message reaches the inbox, and every poll gets it until it is acked. One
\* that was acked and left no trace may stand for another.
arrives(m) ==
  /\ m \notin hinbox \cup seen \cup denied
  /\ hinbox' = hinbox \cup {m}
  /\ UNCHANGED <<hrequire, hnonces, again, denied, hphase, hstop, seen, kept, stash, turn, cover,
                 used, told, chosen, turned, redone, deadLettered, unspawned>>

-----------------------------------------------------------------------------
(* The qualifying filter, the rate gate and the latch *)

\* collect_require_signed_withheld: peers' messages require mode withholds,
\* being unsigned or, without a trust root, not checked.
Withheld(checking) == {m \in hinbox : hrequire /\ ~m.op /\ ~(m.signed /\ checking)}

\* verify_batch and the two collectors of rejects: bad are the messages that
\* are dead-lettered for their verdict. Without a trust root or a fleet id
\* nothing is checked; a check may fail any signed message, and fails one whose
\* nonce was accepted before ("replay").
Rejects(checking, bad) ==
  /\ Withheld(checking) \subseteq bad
  /\ bad \subseteq Withheld(checking) \cup {m \in hinbox : checking /\ m.signed}
  /\ checking => hnonces \cap hinbox \subseteq bad

\* is_real_inbound: what is neither rejected nor seen, as far as operator_trusted
\* and peer_enabled let it wake the agent.
RealInbound(real, bad) == real \subseteq hinbox \ (seen \cup bad)

\* mark_nonce_seen for every signature that was accepted.
Burnt(real, checking) == hnonces \cup {m \in real : checking /\ m.signed}

\* apply_peer_rate_gate: the operator is exempt.
RateGate(real, passed) == passed \subseteq real /\ {m \in real : m.op} \subseteq passed

\* The conversations whose latch the tick re-opens: no limit is in force, a
\* progress signal came that is not rejected and has allowance left
\* (note_progress_refresh), or the operator spoke.
Reopened(b, real, refreshed) ==
  refreshed \cup {m.conv : m \in {x \in real : x.op}} \cup {c \in HConvs : b = 0}

\* reset_peer_latch for the conversations in cs.
ResetLatches(cs) == [c \in HConvs |-> IF c \in cs THEN 0 ELSE used[c]]

\* peer_latch_open, message by message: m is within what the budget leaves.
LatchOpen(m, passed, b, spent) ==
  b = 0 \/ spent[m.conv] + Cardinality({x \in passed : ~x.op /\ x.conv = m.conv /\ x.n <= m.n}) <= b

\* The operator's messages, and the peers' while the latch is open.
KeptOf(passed, b, spent) == {m \in passed : m.op \/ LatchOpen(m, passed, b, spent)}

\* consume_peer_latch; without a limit a conversation keeps no count.
Consumed(ks, b, spent) ==
  [c \in HConvs |->
     IF b = 0 THEN 0 ELSE spent[c] + Cardinality({x \in ks : ~x.op /\ x.conv = c})]

\* A conversation that latched is escalated, once until its latch re-opens.
Escalated(resets, latched) == (told \ resets) \cup {m.conv : m \in latched}

-----------------------------------------------------------------------------
(* One tick, up to the acknowledgement *)

\* mark_seen: what passed the filter never passes it again.
markSeen(real) == seen' = seen \cup real

\* _ack: the whole batch, and a failure leaves it for the next poll.
ack(ok) ==
  /\ hinbox' = IF ok THEN {} ELSE hinbox
  /\ again' = IF ok THEN again ELSE again \cup (hinbox \cap (seen' \cup denied'))

poll(b, checking, bad, real, passed, refreshed, ackOk) ==
  /\ hphase = "waiting" /\ ~hstop
  /\ Rejects(checking, bad) /\ denied' = denied \cup bad
  /\ RealInbound(real, bad) /\ hnonces' = Burnt(real, checking)
  /\ RateGate(real, passed)
  /\ LET resets == Reopened(b, real, refreshed)
         spent == ResetLatches(resets)
         ks == KeptOf(passed, b, spent)
     IN  /\ kept' = ks
         /\ chosen' = chosen \cup ks
         /\ used' = Consumed(ks, b, spent)
         /\ told' = Escalated(resets, passed \ ks)
  /\ markSeen(real)
  /\ ack(ackOk)
  /\ hphase' = IF real = {} THEN "service" ELSE "planning"
  /\ UNCHANGED <<hrequire, hstop, stash, turn, cover, turned, redone, deadLettered, unspawned>>

-----------------------------------------------------------------------------
(* Floors and the stash *)

ClearDeferred(cs, st) == {e \in st : e.conv \notin cs}
Held(st) == UNION {e.msgs : e \in st}

\* The newest PerConv messages of a stash.
NewestHeld(ms) == {m \in ms : Cardinality({x \in ms : Earlier(m, x)}) < PerConv}

\* Conversations held back are stashed in the order their first message of the
\* batch came: the ones before c.
Ahead(held, c) ==
  {d \in held : \E x \in kept : x.conv = d /\ \A y \in kept : y.conv = c => Earlier(x, y)}

\* The stash c still has when its turn comes: the cap evicts from the front,
\* and those put before c may have pushed it out.
Existing(held, c) ==
  {e \in stash :
     /\ e.conv = c
     /\ Cardinality({d.conv : d \in {x \in stash : x.place > e.place}} \cup Ahead(held, c)) < StashCap}

\* stash_deferred: merged with what the conversation already held, which keeps
\* its first deferral time, and moved last.
Merged(held, c) ==
  LET old == Existing(held, c)
      next(ns) == 1 + Max({0} \cup ns) + Cardinality(Ahead(held, c))
  IN  [conv  |-> c,
       msgs  |-> NewestHeld(Held(old) \cup {m \in kept : m.conv = c}),
       place |-> next({e.place : e \in stash}),
       rank  |-> IF old = {} THEN next({e.rank : e \in stash}) ELSE (CHOOSE e \in old : TRUE).rank,
       late  |-> \E e \in old : e.late]

\* Mutant: a stash the turn covers is dropped before the turn is started.
CoverDropped(st, cs) == ClearDeferred(cs, st)

\* merge_covered_stashes leaves the stashes in place until the turn has run.
CoverKept(st, cs) == st

\* plan_floor_turn: held are the conversations whose floor another agent has;
\* the others are granted, or the relay did not answer and the turn runs
\* without. Only conversations with a peer's message ask.
FloorPlan(held) == held \subseteq {m.conv : m \in {x \in kept : ~x.op}}

\* The stash once every conversation held back is in it, and the cap has left
\* the last StashCap of them.
StashPlan(held) ==
  LET grown == ClearDeferred(held, stash) \cup {Merged(held, c) : c \in held}
  IN  {e \in grown : Cardinality({d \in grown : d.place > e.place}) < StashCap}

\* trigger_turn with messages ms, covering the stashes of the conversations cs.
StartTurn(ms, cs) ==
  /\ hphase' = "turn" /\ turn' = ms /\ cover' = cs
  /\ turned' = [m \in HMsgs |-> turned[m] + IF m \in ms THEN 1 ELSE 0]
  /\ UNCHANGED unspawned

\* The rest of the tick: what the stash had no room for is dead-lettered, and
\* one turn is started for the floored conversations and the stashes they cover.
plan(held, spawns) ==
  /\ hphase = "planning" /\ FloorPlan(held)
  /\ LET after == StashPlan(held)
         floored == {m \in kept : m.conv \notin held}
         covers == {e.conv : e \in after} \cap {m.conv : m \in floored}
         given == floored \cup Held({e \in after : e.conv \in covers})
     IN  /\ deadLettered' = deadLettered \cup ((Held(stash) \cup (kept \ floored)) \ Held(after))
         /\ kept' = {}
         /\ stash' = IF floored = {} THEN after ELSE CoverKept(after, covers)
         /\ IF floored # {} /\ spawns
            THEN StartTurn(given, covers)
            ELSE /\ hphase' = "service"
                 /\ unspawned' = unspawned \cup floored
                 /\ UNCHANGED <<turn, cover, turned>>
  /\ UNCHANGED <<verdictVars, hinbox, hstop, seen, used, told, chosen, redone>>

\* One more turn of each message in ms that broke and left it over.
Redone(ms) == [m \in HMsgs |-> redone[m] + IF m \in ms THEN 1 ELSE 0]

\* The child exits, is killed by stop() or times out: the covered stashes are
\* delivered. Or waiting for it raises (its stderr does not decode): to the
\* caller the turn never started, and the covered stashes are kept for another.
\* The floors are released.
turnEnds(ok) ==
  /\ hphase = "turn"
  /\ hphase' = "service"
  /\ stash' = IF ok THEN ClearDeferred(cover, stash) ELSE stash
  /\ redone' = IF ok THEN redone ELSE Redone(Held({e \in stash : e.conv \in cover}))
  /\ turn' = {} /\ cover' = {}
  /\ UNCHANGED <<verdictVars, hinbox, hstop, seen, kept, used, told, chosen, turned,
                 deadLettered, unspawned>>

-----------------------------------------------------------------------------
(* At most one deferred turn a tick *)

\* DEFERRED_RETRY_TTL_S passes for the longest-held stash that is not late yet.
stashAges(e) ==
  /\ e \in stash /\ ~e.late
  /\ \A d \in stash : d.rank < e.rank => d.late
  /\ stash' = (stash \ {e}) \cup {[e EXCEPT !.late = TRUE]}
  /\ UNCHANGED <<verdictVars, hinbox, hphase, hstop, seen, kept, turn, cover, used, told,
                 chosen, turned, redone, deadLettered, unspawned>>

Late == {e \in stash : e.late}
Oldest(es, e) == e \in es /\ \A d \in es : e.rank <= d.rank

\* A stash leaves the map for its turn: the child starts, or it is recorded.
RunDeferred(e, spawns) ==
  /\ stash' = ClearDeferred({e.conv}, stash)
  /\ IF spawns
     THEN /\ turn' = e.msgs
          /\ turned' = [m \in HMsgs |-> turned[m] + IF m \in e.msgs THEN 1 ELSE 0]
          /\ UNCHANGED deadLettered
     ELSE deadLettered' = deadLettered \cup e.msgs /\ UNCHANGED <<turn, turned>>
  /\ UNCHANGED <<verdictVars, hinbox, hstop, seen, kept, cover, used, told, chosen,
                 redone, unspawned>>

\* _expired_deferred_turn: the longest overdue, without its floor. One that
\* fails leaves the tick to the ordinary retries.
expiredTurn(e, spawns) ==
  /\ hphase = "service" /\ Oldest(Late, e)
  /\ hphase' = IF spawns THEN "expired turn" ELSE "retry"
  /\ RunDeferred(e, spawns)

MayRetry == hphase = "retry" \/ (hphase = "service" /\ Late = {})

\* _retry_deferred_turn: a floor is granted; earlier ones were still held.
retryTurn(e, spawns) ==
  /\ MayRetry /\ e \in stash \ Late
  /\ hphase' = IF spawns THEN "retry turn" ELSE "waiting"
  /\ RunDeferred(e, spawns)

\* ... or none is.
retryNone ==
  /\ MayRetry
  /\ hphase' = "waiting"
  /\ UNCHANGED <<verdictVars, hinbox, hstop, seen, kept, stash, turn, cover, used, told,
                 chosen, turned, redone, deadLettered, unspawned>>

\* The deferred child ends; or waiting for it raises, and its messages are
\* dead-lettered as if it had not started.
deferredTurnEnds(ok) ==
  /\ hphase \in {"expired turn", "retry turn"}
  /\ hphase' = IF ok \/ hphase = "retry turn" THEN "waiting" ELSE "retry"
  /\ deadLettered' = IF ok THEN deadLettered ELSE deadLettered \cup turn
  /\ redone' = IF ok THEN redone ELSE Redone(turn)
  /\ turn' = {}
  /\ UNCHANGED <<verdictVars, hinbox, hstop, seen, kept, stash, cover, used, told, chosen,
                 turned, unspawned>>

\* stop(): the loop leaves at its next check; a running child is killed. What
\* the tick still does meanwhile, a deferred turn too, it does.
stop ==
  /\ ~hstop
  /\ hstop' = TRUE
  /\ UNCHANGED <<verdictVars, hinbox, hphase, seen, kept, stash, turn, cover, used, told,
                 chosen, turned, redone, deadLettered, unspawned>>

HermesNext ==
  \/ \E m \in HMsgs : arrives(m)
  \/ \E b \in HBudgets, checking \in BOOLEAN, refreshed \in SUBSET HConvs,
        ackOk \in BOOLEAN :
       \E bad \in SUBSET hinbox : \E real \in SUBSET (hinbox \ (seen \cup bad)) : \E passed \in SUBSET real :
         poll(b, checking, bad, real, passed, refreshed, ackOk)
  \/ \E held \in SUBSET HConvs, spawns \in BOOLEAN : plan(held, spawns)
  \/ retryNone \/ stop
  \/ \E ok \in BOOLEAN : turnEnds(ok) \/ deferredTurnEnds(ok)
  \/ \E e \in stash :
       \/ stashAges(e)
       \/ \E spawns \in BOOLEAN : expiredTurn(e, spawns) \/ retryTurn(e, spawns)

-----------------------------------------------------------------------------
\* Where a message that was to get a turn is, or what became of it.
Fates(m) ==
  (IF m \in kept THEN 1 ELSE 0) + (IF m \in Held(ClearDeferred(cover, stash)) THEN 1 ELSE 0)
    + turned[m] + (IF m \in deadLettered THEN 1 ELSE 0) + (IF m \in unspawned THEN 1 ELSE 0)

\* Hermes hands a message over once: however acknowledgements fail and the
\* relay redelivers, floors are refused, stashes merge, overflow, are covered
\* by another turn or expire, and children fail to start, a message that was to
\* get a turn is planned, stashed, given to one turn, dead-lettered for want of
\* one, or one of the fresh messages of a turn that did not start, of which the
\* log has a line. It is exactly one of these at every moment, and one more for
\* each turn that broke after its child had run.
HermesOneFate == \A m \in chosen : Fates(m) = 1 + redone[m]

\* A message is not both handed over and dead-lettered as refused, except by two
\* deliveries of which the first was not acknowledged: the second finds the
\* nonce burnt, or the keys changed.
HermesOneVerdict == chosen \cap denied \subseteq again
=============================================================================
