# Ekho: a TLA+ verification project

Ekho is a message relay for fleets of AI agents. Agents poll a relay for
messages and controls; an operator watches, pauses, approves and holds the
signing keys the agents trust. This directory holds TLA+ models of its
protocols, translated from the source under `src/`, the TLC runs that check
them on small instances and the TLAPS proofs that hold for every instance.
`PROJECT.json` ties definitions to source lines, properties to runs, and lists
the hazards the properties are aimed at.

## The system

| Part | State | Operations | What makes it hard | Module |
|---|---|---|---|---|
| Delivery ledger (`relay/src/db.ts`, `sweep.ts`) | `messages`, `message_deliveries`, `dead_letters` | four senders, inbox read, ack, retry sweep, expiry sweep | lost replies and acks, late acks, fan-out, status written by three handlers | `Delivery`, `Ledger` |
| Operator keys (`db.ts`, `recovery-grant-cli.ts`) | `fleet_operator_keys`, `agent_identity_keys`, `operator_recovery_grants` | register, endorse, revoke, endorse agent key, arm / cancel / consume a grant | legal steps that destroy authority; cycles; a second process (the host CLI) | `OperatorKeys`, `OperatorKeyWalk` |
| Security screen of the console (`frontend/src/operatorTrust.js`) | none of its own | which signatures it offers | rules that drift from the relay's | `ConsoleTrust` |
| Thread view of the console (`frontend/src/consoleState.js`, `optimistic.js`, `hooks.js`) | the selected thread, its newest and older pages, optimistic bubbles | select, poll, scroll back, send, session end | requests answered in any order, each with what its own render captured | `ConsoleThread` |
| Agent control (`db.ts`, `sdk/src/adapter.ts`) | `agents.status`, `control_actions`, strikes; the adapter's `paused` | pause / quarantine / resume, heartbeat, liveness sweep, strikes, control polling | automation against operator, two tables that must agree | `AgentControl` |
| Replay defence (`auth.ts`, `db.ts`) | `replay_nonces` | transport check, envelope claim, prune | copies around the prune, skewed clocks | `ReplayNonces` |
| Message gate (`message-gate.ts`) | rate counters, policies | admission of every agent send | an await between check and use, two transports | `MessageGate` |
| A2A transport (`relay/src/a2a`) | `a2a_tasks`, stream listeners | send, stream, get, list, cancel, resubscribe | a task that changes during the await | `A2ATasks` |
| Rooms, visibility, floor | `rooms`, `room_members`, `conversation_floors` | create, route, read, acquire, release | free thread ids, deletion, a lease that outlives its holder | `Conversations` |
| Approvals | `approvals` | propose, approve, reject, complete; the SDK waits | races of operator and agent | `Approvals` |
| Feeds | `feeds`, `feed_subscribers`, `feed_seen` | poll, seed, deliver | an await in the middle of a poll | `Feeds` |
| Attachments | rows and files | upload, bind, collect | two-step deletion, quota | `Attachments` |
| Logins and enrolment | throttle buckets, sessions, tokens | login, sweep, issue, enroll | two counters per attempt, a full map | `Access` |
| Fleet health (`fleet-health.ts`, plugin `connection.ts`) | the plugin's window of turns, the last heartbeat | turn ends, heartbeat, verdict | turns that end twice, lost heartbeats | `FleetHealth` |
| Agent trust root (`sdk/src/identity`) | pins, tombstones, admissions | sync, save, seeded start | order of relay entries, last root, first use once | `TrustRoot` |
| OpenClaw plugin: loop (`autoreply.ts`) | seen set, deferred stash, latch | tick, turn, stop | ack before work, stop during every await | `AutoReply` |
| OpenClaw plugin: runtime (`connection.ts`, `runtime-registry.ts`, `credentials.ts`) | registry, credential file, copies | register, connect, enroll, rebind, unload | copies of the module in one process | `PluginRuntime` |
| OpenClaw plugin: inbox labels (`autoreply.ts`, `inbox-trust.ts`) | the ring, its verdicts, rejects | tick, take-over, read | verdicts that outlive keys, redelivered ids | `InboxCache` |
| Hermes plugin (`autoreply.py`, `connection.py`) | stash, latch, singletons | tick, stop, connect | threads, one token | `HermesLoop`, `HermesConnect` |
| MCP connector (`agent.ts`, `store.ts`, `oauth.ts`, `webhook.ts`) | ring, cursors, nonces; clients, tokens; debounce | poll, read, send; consent, exchange, refresh; notify | failing writes, restarts, overlapping flushes | `McpMailbox`, `McpOAuth`, `McpWake` |

The relay is one Node process over synchronous SQLite. A handler runs from one
`await` to the next without interruption, and almost no handler awaits: the
exceptions are the message gate's extensions and the feed poll. So a relay
handler is one atomic step here, unless another process (the host's
recovery-grant CLI) shares the tables. The plugins await everywhere, and their
steps end where the code awaits. All other concurrency is between the relay, its
timers, and the agents across an unreliable network.

How the parts meet: every send passes `MessageGate` and becomes rows of
`Delivery`; `Conversations` decides who the rows are for and who may read them
later; `AutoReply` and `HermesLoop` are clients of the inbox and of the floor;
`TrustRoot` reads what `OperatorKeys` publishes; `InboxCache` labels messages by
the pins of `TrustRoot`; heartbeats feed `AgentControl` and `FleetHealth`;
`ConsoleThread` shows the operator what the relay recorded.

## Compositions

`Services` puts the relay's services under one clock (`RelayTime`) and
`Clients` the agents' processes and the console's thread view side by side.
The parts of each write tables or memories of their own, so nothing one does can
enable or disable another, and exploring their product would only multiply
independent states. The variable `part` therefore picks, at the start, the one a
behaviour exercises: TLC explores the sum of the state spaces. Parts that do interact are composed for real:
A2A sends go through the same gate and rate counters as posts (`A2ATasks`
extends `MessageGate`), the floor is taken by participants of `Conversations`,
and the console reads the tables that `OperatorKeys` moves (`ConsoleTrust`
extends it). `OperatorTrust` puts that and an agent's pins (`TrustRoot`) side by
side in the same way, by the variable `side`: an agent takes the relay at no word,
so what it may be served does not depend on the relay's table.

## Modules

### `Delivery`

`msg`, `dlv`, `letters` are the three tables, keyed by message id and by
(message, recipient); `received` is what each client process holds and may
acknowledge. Actions: `createMessage`, `createOperatorMessage`,
`resumeConversation`, `deliverFeedItem` (all `enqueue` one message with a row
per recipient, for different audiences), `getInbox(a, arrives)` (the rows turn
delivered whether or not the reply arrives), `ackMessages` (one ack reaches the
relay; the client keeps the message, so an ack may be lost, late or repeated),
`ClientRestart`, `sweep(retryRuns, expiryRuns)` (one timer tick; each half may
throw and be skipped), `Tick`. NULL timestamps are -1. The message body,
priorities, audit events and the sender gate are left out; so is the revocation
of agents (an audience is any set of deliverable agents).

`Ledger` is the abstract promise: a delivery opens with its message, is handed
out while open, is acknowledged or lost, and only a late acknowledgement brings
it back from lost. `Delivery` implements it (`ImplementsLedger`).

### `OperatorKeys`, `OperatorKeyWalk`, `ConsoleTrust`

`life`/`parent` are the key table (`unsigned` is a tombstone of an earlier
release), `agentLife`/`agentParent` the agent keys, `grant` the recovery
grants in order of `created_at`. The authority rule `EndorserIsTrusted` is
stated by meaning: the least set holding the anchored keys and closed under
"live and endorsed by a member". `OperatorKeyWalk` runs the code's two loops
hop by hop over every table and shows that they compute that meaning and end.

The relay's granted endorsement (`endorseByGrantCheck`, `endorseByGrantCommit`)
and the host's arming (`armCheck`, `armCommit`) are two steps each: the other
process may commit in between. Relay handlers exclude each other
(`RelayIdle`). The grant transaction tests the expiry against the instant the
handler started, hence `{"armed", "expired"}` in the commit: a grant that runs
out between check and commit is spent. Signatures are taken as valid: a request
with a bad one changes nothing.

`ConsoleTrust` adds no state: it is what the Security screen offers in a browser
that holds a key, in the state of the moment: `EndorseOffered` is the button of a
row, which is there only for a key without an endorser and without agents, and
enabled by `rescueGuard`. `ConsoleAgrees` compares it with the relay's answer and
names the places where they differ: the console does not look for cycles, nor for
revocations that would cut off their signer or the last root, and it shows no
Endorse button for a key whose recorded endorser was revoked since, although the
relay would take a new endorsement of it.

### `ConsoleThread`

`newest` and `older` are the pages on screen, `bubbles` the messages shown
before the relay echoes them, `requests` what is under way. Each request carries
what its continuation captured of the render that made it (the selected thread,
the pages) and sets the state it lands in, so `refreshLands`, `olderLands` and the
four steps of a send (`relayStores`, `sendAnswered`, `echoLands`,
`overviewLands`) may meet a thread that was switched, or a session that ended,
meanwhile. Any request may fail, with or without a 401. The view displays the
bubbles of the selected thread only (`PendingItems`), and a message sent to no
thread has its bubble in none (`Pending`, the code's `__pending__`) until the relay
has answered: `optimistic.js:2` says that a bubble "is shown the instant the
operator hits send", which of such a message is not so, and `SentShown` says what
is. A feed's page is turned
round by the relay and again by the console, so what the console takes for its
oldest event is its newest (`Floor`).

### `AgentControl`

One agent. `controls` are its `control_actions` rows in order of creation, with
an expiry (`Never` for NULL); `paused`, `reply` and `obeyed` are the SDK
adapter: its flag, the inbox reply in flight (the rows it lists and the relay's
status at that moment), and (history) the status the relay had when it made the
last applied reply. A reply may be applied late or
lost; the process may restart and forget its flag. A heartbeat of a held agent
that is not restored changes nothing modelled, so `insertHeartbeat` is enabled
only where it writes. Any send of an active agent may trip the rate limiter.

### `ReplayNonces`

Requests and envelopes each carry one nonce and the instant their signer wrote;
copies may arrive at any time. `claims`, `firstAt` and `stored` are history
variables. The acceptance window of the recipients comes from
`sdk/src/identity/verify.ts`. The relay's clock never steps back.

### `MessageGate`, `A2ATasks`

A send is `gateEntered` (status, rate window, policies, in the request's own
turn), then "parked" at the extensions' await, then `postMessage`,
`sendContinues` or `createTask`, or `extensionDenies`. Anything may happen while
it is parked. A refusal by a policy has used the rate, as in the code.
`sendContinues` reads the task after the await; the append to the history comes
before `createMessage`, which may refuse.

### `Conversations`

A conversation id is a room, an agent's thread with the operator, or any id a
sender made up. `Store` writes a message with its deliveries; `aud` (history) is
everybody it was addressed to. `Readable(a)` is the union of every way the relay
hands `a` message content: inbox, room history, quoted snapshots, the floor's
tail, sent items. The floor is a lease in the relay (`floor`) and a belief in
the clients (`lease`).

### `Approvals`, `Feeds`, `Attachments`, `Access`, `FleetHealth`

`Approvals`: the row, the adapter's waiting call, the operator's answers and the
agent's reports, which the relay takes at any time, whatever the row's status and
whatever the agent did.
`Feeds`: `pollStarts` is `pollFeed` up to its fetch, for the sweep's due feeds and
for the operator who asks, `pollApplies` the rest; polls overlap and pages may come
in any order. `Attachments`: a crash between
the file and the row of an upload, and between the unlink and the delete of a
sweep. `Access`: the throttle's buckets by account and by address in one capped
map, sessions by age, enrolment tokens whose answer may be lost. `FleetHealth`:
turn outcomes enter the plugin's window (trimmed by age from its front and to its
cap, as the code's loop does), heartbeats are lost or overtake each other, the relay
judges the last one received.

### `TrustRoot`

One agent's trust root. `id` is the identity in memory and `disk` the identity
file: pins, tombstones (0 is none), admissions, and the first-use latch. The
sets `endorsed`, `revoked` and `unrevoked` hold what operators ever signed.
The code trusts signatures and not the relay, so `poll` takes any part of those
sets, any unsigned "revoked" flag and any order of the entries. Order matters
twice: `Spares` picks the pin met last when every pin is revoked in one batch,
`ChainAdopts` allows every set that one pass in some order can adopt. The save
after a sync may fail and leave memory ahead of the file; `connect` loads the
file, applies the configured seed and saves. A key that the relay flags revoked
without proof, or does not list, is simply not in `L`: both mean "not newly
adopted". `TrustRootHistory` adds the latest revocation the agent honoured,
which the identity file does not keep.

### `AutoReply`

`tick` is the program counter and the locals of `runTick`: polled, notice,
acking, acquiring, turn, releasing, then the service of held-back messages
(lateTurn, retry, retryTurn). `mem` is `AutoReplyState` with the stash in the
Map's order of insertion. A batch is a set of messages, in the order of their ids:
what the code's loops over it compute (which messages pass a gate, what a latch
counts, which stashes the caps push out) is written in closed form, so that it can
be proved about. `StashDeferred` is the whole loop over `plan.deferred`:
`Existing` says whether the conversations before this one have already pushed
its stash out of the Map. `Stop` may fall on every await; `FlushOnStop` and
`TickEnds` are `flushOnStop` and the `finally` block. `fate` is history: turns
started, dead-letter records, refusals, and `lost`, the fresh messages of a turn
that failed to spawn, which the code only logs.

A signature's verdict is not a property of the message: it depends on the keys
pinned at the tick (`gen`, which any poll may change, a generation without pins
being `Dormant`), on the nonces burnt by what was accepted before
(`checks.accepted`), and on what is remembered to have failed (`checks.failed`).
`AdmitBatch` judges a batch under the generation its own sync left, puts the rejects
on record and burns nonces (`CheckBatch`); a redelivered message whose
acknowledgement failed is then a replay of itself, and is recorded as that beside
the turn it had (`replayed`). A held-back message keeps the generation of its
verdict, and a turn shows it as verified only in that generation (`EntryVerdict`).

### `PluginRuntime`, `InboxCache`

`PluginRuntime`: `copy[g]` is what one loaded copy of the modules keeps,
`holder` and `queue` are the registry the copies share, `stored` the credential
file. Connecting is queued, asking, granted or refused, boot, up; registrations
(`register`), tool calls, rebinding with its drain and the unload hooks
interleave with it, and so may an enrolment by another process. A rebind that
finds another under way waits for it and then starts over (`rebindAgain`), a step
of its own after `drained`: the promise it waits on settles after the loop has
been started. Waiting rebinds start over in the order they came (`rebinds`). The
child of a turn is a process of its own, which `EKHO_AUTOREPLY_DISABLE` keeps from
starting a loop.

`InboxCache`: `tick` syncs the pins, verifies the batch, writes the ring and
burns nonces; `takeOver` hands the ring to another copy; `View` is what
`ekho_inbox` answers to a reader with its own pins. A redelivered id with other
material is another message with the same id; what the relay delivers in a behaviour
is one of `Mailings`, with and without such a pair. `shown` (history) is all the
material the ring ever labelled as failed, `lapsed` what of it left the ring with no
other record. The ring is a set of entries with
their age in the Map's order; what the loop over a batch leaves in it is written in
closed form (`Previous`, `RecordBatch`), so that it can be proved about.

### `HermesLoop`, `HermesConnect`

The Python plugin. `HermesLoop` is one thread: `poll` (verdicts with their rejects
and burnt nonces, filter, rate gate, latch, ack), `plan` (floors, stash, the turn),
the end of the turn, and at most one deferred turn per tick, with `stop` from
another thread. Which signed messages a check fails is a choice, except that a burnt
nonce fails it; which progress signals refresh a latch is one too. Waiting for the
child may raise after it has run, and the caller then takes the turn for one that
never started (`turnEnds`, `deferredTurnEnds`). The stash is a set of
entries with their places in the dict's order and in the order of first deferral;
what `stash_deferred` does conversation by conversation is in closed form, as in
`AutoReply`. `HermesConnect` is
`ensure_connected` with its two looks at the singleton, the token, the
credential file and restarts.

### `McpMailbox`, `McpOAuth`, `McpWake`

The connector. `McpMailbox`: `pollIngests` with the three writes of a poll, each
of which may throw, `pollAcks`, `readInbox(limit, after, ...)` with its cursor,
`send`, `restart` on the file. `McpOAuth`: registration with eviction, consent,
code exchange, refresh with rotation, writes that fail; a consent is completed or
never is, so the password and the throttle on wrong ones are left out; the token list is a set
ordered by `IssuedAfter`, the order of the list. `McpWake`: debounce,
overlapping flushes, retries, breaker.

## Runs

| Run | Shows | Bounds |
|---|---|---|
| `delivery` | `StatusAgrees`, `RowsSound`, `AckIsFinal`, `HandoutsRight`, `EverySettles`, `ImplementsLedger` | one message to any of two agents and the operator, or two short-lived ones for one agent behind an inbox limit of one (`Scope`); two retries, backoff 0 then 1, a TTL that ends mid-retry and one that allows every retry; a delivery timeout of 0 means "strictly after the hand-out" |
| `operator_keys` | `KeysSound`, `GrantsExclusive`, `ConsoleAgrees`, `AuthorityMoves`; `TrustSound`, `RootNeverLost`, `TrustMovesBySignature` | three interchangeable keys; at the relay any but all of them legacy tombstones, two agent keys with one grant or one with two (`Scope`), both processes between check and commit; at the agent two instants and three signed statements: two pins that revoke each other, a chain of two endorsements, and a revocation with its un-revoke and a second revocation all fit |
| `key_walk` | `WalkCorrect`, `WalkEnds` | every table of three keys: the longest cycle and the longest chain with a dead hop in the middle fit |
| `autoreply` | `FatesAccounted`, `NoStaleVerdict`, `PeerTurnsLatched`, `NothingLeaks`, `StoppedStartsNothing`, `HeldSettles` | each pair of messages that meet in a branch of the tick (`MCScopes`); all caps 1, so every eviction happens; two generations of pinned keys, one of them without pins, which any poll may bring |
| `services` | `ReadWithinAudience`, `FloorExclusive`, `RanAsApproved`, `FeedItemOnce`, `BoundIsServed`, `RateBounded`, `GuessesBounded`, `AlarmIsTrue`, `ControlSound`, `NoReplay`, `ClosedTaskFrozen`, `ResumeGrace` | per part, see `MC_Services`; `Horizon` ends the clock of each part late enough for its longest window to pass once |
| `clients` | `MailKept`, `GrantUnforked`, `WakeArmed`, `RuntimeSound`, `LabelsSound`, `HermesSound`, `SentShown` | per part, see `MC_Clients`: rings and stashes of one entry, an id of its own for each message or a reused one with other content, signed and unsigned messages in both modes, one client more than the registry holds, two copies registered twice, two process starts; in the console two sends among three events, pages of one event, two requests under way |

Six runs show disagreements between the code and its own words, each recorded
under "findings":

* `agent_control_order`: the relay lists unexpired controls newest first and
  the adapter lets the last one win, so a pause that follows a resume within
  the hour does not hold the adapter.
* `agent_control_restore`: an automatic restore retires the quarantine control
  without a resume, and the adapter that saw it stays paused for good.
* `trust_root_unrevoke`: a tombstone keeps the instant of the first revocation,
  so an un-revoke signed for that one clears it although the agent has honoured
  a newer revocation of the key since.
* `mcp_burnt_nonce`: the connector burns nonces before the writes of the same
  poll; when the dead-letter file cannot be written, the redelivered genuine
  message is a replay of itself, and is dead-lettered and acknowledged.
* `loop_follows_host`: with three registrations of one copy, a rebind that waited
  for the first one's drain starts the loop for the second registration after the
  third had bound it, and the loop does not follow the host's newest registration.
  The third has to come in the turn of the event loop in which the drain ends.
* `inbox_label`: in warn mode an unsigned peer message wakes a turn, and
  `ekho_inbox` then labels it as failed, dead-lettered and not woken.

What some properties do and do not say:

* `RateBounded` allows twice the limit in a span across a window's edge, which is
  what fixed windows give; `GuessesBounded` likewise, and only for keys that the
  full map never denied a bucket.
* `BoundIsServed` excepts an upload whose file was unlinked by a sweep that
  crashed before it deleted the row.
* `FatesAccounted` counts `lost` as a fate: the code logs those messages and
  records nothing. It does not deny a message its turn and a record as a replay: the
  record comes from a second delivery after a failed acknowledgement, and
  `RefusalStands` says that only such a message can have both.
* `StoppedStartsNothing` lets `planFloorTurn` ask on for the floors of the plan it is
  in the middle of: its loop does not look at the flag. `NothingLeaks` has them
  handed back.
* `RanAsApproved` excepts an action the agent itself reported as executed while its
  adapter waited: the relay writes that, and the adapter reads it as an approval.
* `RuntimeSound` says nothing of which registration of the producing copy the loop
  belongs to; that is `LoopFollowsHost`, which three registrations violate and which
  excepts a copy whose connection failed at registration: a tool call connects it
  without a loop.
* `LabelsSound` excepts one failed label: an unsigned message nothing dead-lettered,
  pushed out of the ring, that comes back when no key is pinned, is unchecked.
* `HermesOneFate`, a part of `HermesSound`, says nothing of what a stop leaves in
  the stash: the code does not flush it. It counts the fresh messages of a turn that
  did not start (`unspawned`), of which the log has a line, and allows a message one
  more fate for each turn that broke after its child ran (`redone`). `HermesOneVerdict`
  allows a turn and a record as refused where an acknowledgement failed in between.
* `SentShown` counts a message as settled when its text is back in the composer,
  also if the relay had stored it and only a later read failed.

### Fairness

`Delivery`: the clock moves and the sweep keeps running (it is a `setInterval`;
a sweep that throws is tried again next tick, so a sweep whose two halves
succeed recurs). Nothing is assumed of clients. `AutoReply!Spec`: the timer
keeps starting ticks, every await of a tick settles (requests and turns have
timeouts) and time passes; other agents need not hand a floor back, and no stop
need come. `LoopStep` is enabled exactly when a tick is under way, and its weak
fairness is written that way. `AgentControl!ControlFairSpec`: the adapter's two
loops run forever and catch their errors; strong fairness of applying a reply
says that a network that loses replies does not lose every one. `WalkSpec`: the
loop runs.

### Bounds

`MaxTime` ends the clock; senders respect it so that no deadline lies beyond
the end of time. `Horizon` ends it earlier in the parts of `Services` whose
windows are short. `MaxGrants`, `MaxControls`, `MaxStrikes`, `MaxSigned`,
`MaxSent`, `MaxTries`, `MaxBeats`, `MaxCursors`, `MaxOut`, `MaxPairs`,
`MaxCopies`, `MaxEpochs`, `MaxLost`, `MaxStarts`, `MaxMishaps`, `MaxAt`,
`MaxEvents`, `MaxSends` and `MaxCalls` cap what the code lets grow, as the sets
`Scopes`, `Gens` and `Mailings` do, and are marked "bound" where they are declared. Symmetry
is used where the members of a set are interchangeable in the specification and
in every property of the run, and in no run that checks liveness.

## Proofs

`DeliveryProofs` proves, for any fleet, message set, TTLs, retry limit,
timeout and backoff table:

* `RowsStaySound` (`RowsSound`: types, `AttemptsAccounted`, `DeadLetterOnce`)
  from the inductive invariant `LifeInv`: types, every existing delivery belongs
  to an existing message, the counters of a row are accounted for by its status,
  a dead letter only for a row that used every retry. The stated invariants are
  not inductive: neither says that a requeued row still has retries left, nor
  that an acknowledged row may carry a dead letter only if it had been
  dead-lettered before.
* `AcksFinal` (`AckIsFinal`): an action property, by cases on the actions.
* `HandoutsStayRight` (`HandoutsRight`: backoff, deadline and order), from `WaitInv`:
  `LifeInv`, `HeldCounted` (what a client holds was counted as handed out), and
  `Waited`, which carries the waiting time through a row's life: a queued row that
  was retried is not due before its queueing plus the timeouts and backoffs it had,
  and a delivered row was delivered after them. Neither half is inductive without
  the other, since a retry is dated from the last hand-out and a hand-out from the
  last retry. The order needs `Waited` too: a queued row that is not due was retried,
  so it was handed out before. `MinWait` is a recursive function; that it is what
  its equation says is proved by an induction of its own (`Counting`: a set of
  numbers with 0 and every successor has them all, from the library's least elements
  of a well-founded order, which needs no operator as a parameter).
* `StatusFaithful` (`StatusAgrees`) from `StatusInv`: `LifeInv`, the status
  formula, and `ExpireTogether` (once one delivery of a message has expired,
  none of it is queued or delivered any more). The extra conjunct is needed
  for late acknowledgements: when an expired delivery is acknowledged the
  message stays `expired` although that row no longer says so, and this is
  right only because every other open row expired in the same sweep.

`DeliveryRefinement` proves `DeliveryImplementsLedger`: `Delivery` implements
the abstract `Ledger` under the mapping `Fate` (queued and delivered are
"open", dead-lettered and expired are "lost") with the attempts column as the
number of hand-outs. The invariant is `LifeInv` plus `HeldCounted`, without which
an acknowledgement could precede every hand-out.

`TrustRootProofs` proves `TrustStaysSound` (`TrustSound`: types,
`DeadKeysUntrusted`, `TrustIsRooted`), `RootStays` and `TrustMovesSigned`, for
any number of keys, instants and statements and any relay. The invariant
`SafeInv` says for the memory and for the file that no pin is tombstoned and
that every set holding the roots and closed under endorsement holds the pins;
and `FileRootHeld`: a running process whose file has a root has one in memory,
without which a save could write the root away. `PollResult` reduces a batch to
its effect: the pins kept, and a set of untombstoned keys adopted on first use or
hanging on the kept pins (`Grounded`). Rootedness follows without induction: the
adopted keys outside a closed set would hang on nothing.

`ReplayProofs` proves `NothingReplayed` (`NoReplay`) for every skew and signer
clock, from `RequestsAcceptedOnce` and `EnvelopesStoredOnce`; the latter needs
`Retention >= PastSkew + FutureSkew` (87600 >= 86700 + 300 in the default
configuration).

`OperatorKeysProofs` proves, for any number of keys, agent keys and grants and
any legacy tombstones:

* `KeysStaySound` (`KeysSound`) and `GrantsStayExclusive`, from `KeyInv`. Beside
  the two parts of `KeysSound` it says what the tables owe each other
  (`RowsLinked`: whoever is named was registered; `GrantRows`: the armed grant is
  the newest, a consumed one left its target endorsed) and what is still true of a
  check when its transaction commits (`RelayHolds`: all of it but the grant's
  state). Authority is a least set, so nothing is proved by walking: a key is
  trusted if it lies in every set that holds the anchors and is closed under
  "endorsed by a member", and each handler's lemma turns such a set of the new
  table into one of the old. That an endorsement closes no chain uses two sets, the
  one that shows a chain to end and the one that shows the endorser's chain to
  miss the target: their union or their intersection shows the same of the new
  table.
* `AuthorityMovesOnly` (`AuthorityMoves`), by cases on the steps, from the same
  lemmas.
* `ConsoleAlwaysAgrees` (`ConsoleAgrees`), button by button, from `KeyInv`.
* `WalksAreCorrect` (`WalkCorrect`): the two pointer loops of `db.ts` answer
  that meaning on every table. The invariant `WalkInv` follows the cursor: the
  visited keys step to each other or to the cursor, none of them settles the
  question, and if the cursor's chain reaches an anchor so does the key asked for.
  When the walk comes back to a visited key, the visited keys are a closed set
  without an anchor, which is what the least set needs.

`ServicesProofs` proves eleven of the twelve properties of the `services` run for
all constants (the twelfth, `NoReplay`, is above). `Frames` splits a step of the composition: the clock ticks and the
tables stand, or one part moves at a standing clock. Each part then has its own
invariant:

* `RunsAreApproved`: `AprvInv` relates the row, the adapter's call, the operator's
  word and the reports (a row is pending until it is answered or reported on; what
  says executed was reported so; no call ran on a row that is pending or rejected).
* `ItemsGoOutOnce`: `FeedInv`, with what was delivered among the seen guids.
* `OneSpeaker` (`FloorExclusive`): `FloorInv`, a client's belief never outlives
  the row that names it holder; exclusion follows from the row having one holder.
* `OnlyTheAudienceReads` (`ReadWithinAudience`): `MailInv`, what is filed under a
  room's id was filed after its creation and for all its members, which is why a
  room's id must not be guessable as a thread's (`ConversationsAssumption`).
* `AttachmentsServed` (`BoundIsServed`): `AttInv`, with the history of each upload
  and the quota as a sum over a finite set.
* `CanceledStays` (`ClosedTaskFrozen`): each step adds to a task that is not
  canceled, creates or cancels one, or leaves the tasks alone.
* `ControlStaysSound` (`ControlSound`) and `GraceAfterResume` (`ResumeGrace`):
  `ServicesSpec` implies the control plane's own specification, and `ControlInv`
  adds to `ControlSound` that the rows are in the order of their instants, that a
  pause or quarantine is served until it is retired, and `SilenceAlone` (an agent
  quarantined for silence was held by nobody else), without which an automatic
  restore could lift an operator's hold.
* `RateStaysBounded` (`RateBounded`): `GateInv` equates a counter that no sweep may
  take with the number of requests made in its window. Two windows cover any span
  of that length.
* `GuessesStayBounded` (`GuessesBounded`): `ThrottleInv` holds key by key
  (`KeyInv`): a living bucket counts the failures since it was begun and fewer
  than the allowance came in the window before it; without a bucket, few came in
  the last window.
* `AlarmStaysTrue` (`AlarmIsTrue`): `HealthInv` says of the plugin's window that it
  is the end of the list of turns, and that whatever is not in it is past the cap or
  past the window (`CallsInv`), and of every heartbeat, on the wire or received, that
  its verdict is the one of the turns it counted (`Reports`). The window is trimmed
  from its front only, so the proof needs that turns end in the order of their
  instants; a beat that comes late is judged by the turns it was sent with.

`ClientsProofs` does the same for the clients:

* `AcknowledgedIsKept` (`MailKept`): `MailInv`, a remembered message waits unread
  or was confirmed, in memory and in the file, and what the relay has forgotten is
  remembered in both or is a dead letter. It rests on lemmas about the ring:
  trimming takes no unread entry, a confirmed batch is all that stops waiting.
* `GrantsStayUnforked` (`GrantUnforked`): `OAuthInv`, memory and file each hold one
  refresh token per grant and no token without its client, and a grant with tokens
  in either has used its code up. The file matters because a restart makes it the
  memory.
* `WakesAreArmed` (`WakeArmed`): the flag is up exactly while a timer is set.
* `HermesStaysSound` (`HermesSound`). Its part `HermesSingletons` follows from
  `LinkInv`: whoever is past the second look holds the lock and nothing is connected
  then. Its part `HermesOneFate` follows from `HermesInv`: what was chosen was seen
  (so a redelivery is never chosen again), a conversation has one stash and only its
  own messages in it, the covers are those of a running turn, and what was not chosen
  has no fate. `HermesOneVerdict` needs that what was seen or denied is out of the
  inbox unless its acknowledgement failed. `PlanKeeps` says what the plan of a tick does to the stash: whatever
  was held or comes in is held afterwards or is dropped, never both.
* `LabelsStaySound` (`LabelsSound`): `CacheInv`, every verdict in the ring is about
  the very message it stands beside, a passed one under a key pinned in the
  ring's generation (`Binds`); a message remembered as rejected has its failed
  verdict wherever it is in the ring; and what was ever shown as rejected is in the
  ring as failed, remembered, or lapsed.
* `SentStaysShown` (`SentShown`): `ThreadInv`, a bubble's conversation is the one its
  request named or its event has, and `Pending` only while the answer is out.
* `OneProducer` (`RuntimeSound`), from `CopiesInv` (the registry names the copy that
  claimed the agent, only that one produces, a connected copy that was not stopped
  does), `QueueInv` (the queue holds the copies that enroll, each once; only the
  first has asked) and `TokenInv` (a spent token is accounted for).

`AutoReplyProofs` proves every safety property of the `autoreply` run, for any
messages, conversations, settings, budgets and caps and a stop at any await. It
begins with lemmas about the stash (what selecting, merging and trimming keep, and
that no conversation is in it twice). Two invariants serve four of the
theorems. `LoopInv` is about where messages and floors are:

* `Typed`, and `Shaped`: a tick's locals mean something only in the part of the
  tick that uses them; `unhanded` is the kept messages exactly between the
  acknowledgement and the plan of a loop not stopped; after a stop only the stashes
  the turn in flight covers are left.
* `FloorsKept`: the floors we hold are those given up for lost and those this tick
  still owes.
* `Fated`: a message that was seen is in hand or has a fate, nothing in hand had a
  turn or a record, nothing has both. `Judged`: what was acknowledged was seen or
  declined. `Placed`: unhanded, stash, plan and turn do not overlap, without which
  a message could leave one of them and stay in another.

`CheckInv` is about signatures, and is inductive beside `LoopInv`:

* `Refused`: a message refused at its first check was never seen and is not in
  hand, and its material stays failed (`Barred`); only what was seen is refused as a
  replay, suppressed or lost.
* `Vouched`: an entry of the stash that carries a verdict carries one that holds
  under the keys it was checked with, and those of a batch being handed over and of
  a turn hold under the keys in force.

`FatesStayAccounted` (`FatesAccounted`) follows from both, `VerdictsStayFresh`
(`NoStaleVerdict`) from `CheckInv`, `NothingIsLeaked` (`NothingLeaks`) from
`LoopInv`, and `StopIsFinal` (`StoppedStartsNothing`) by cases on the steps. `PeersStayLatched`
(`PeerTurnsLatched`) needs `LatchInv` too. Its counting half is a potential: the
peer turns a conversation had, and the messages that passed its latch and still
wait (`Claimed`), are paid for by the budget times the resets and by the latch's
count (`Paid`). A message that passes adds to both sides, a turn spends a claim, and
a reset that takes the count back adds a whole budget. Its other half,
`Announced`, equates the marked conversations with those announced or about to be.

### Assumptions on the constants

They are stated where the constants are declared and evaluated by the runs:
durations and limits are natural numbers, positive where the code divides by them
or compares strictly (`AgentControlAssumption`, `MessageGateAssumption`,
`AccessAssumption`, `AttachmentsAssumption`); requests, uploads and messages are
finitely many where the code counts them; a room's id is no thread's id, an
account is no address, `Out` is no message and `"free"` is no thread, because the
code keeps them apart by type or prefix; bounds are natural numbers
(`RuntimeAssumption`); the window, cap and failing run of the health report are
natural numbers (`HealthAssumption`); turn budgets are natural numbers, which is what
`normalizeTurnBudget` makes of them (`AutoReplyAssumption`). Nothing is assumed of
the environment.

### Only model-checked

* Liveness (`EverySettles`, `WalkEnds`, `HeldSettles`): out of the prover's reach.

Every other property of a passing run is a theorem. The theorems are about the
specifications without fairness, which is all that safety uses, and about the
components as composed in the runs; the small instances still matter for the models
themselves, since they show that every action happens.

## Not modelled

* **Python SDK** (`sdks/python`): the same protocol as the TypeScript SDK, whose
  adapter, verification and identity store are modelled.
* **The Hermes plugin's verification and inbox ring**: line-by-line twins of the
  TypeScript ones in `TrustRoot` and `InboxCache`.
* **The rest of the operator console** (`App.jsx`, `WireApp.jsx`, the panels of
  `consoleState.js` beside the thread view, the other screens): it renders what the
  relay answers and posts what the operator types; the rules are the relay's.
* **Event log and retention**: append-only rows that every operation writes, read by
  one modelled part only (`ConsoleThread`, a conversation's pages), and two prunes by
  age.
* **Setup, licensing, metrics, TLS, migrations, the HTTP server's wiring**: one-off
  I/O without protocol state.
* **ShieldCortex bridge**: a thin client of a service outside the repository.
* **MCP server sessions, file transfer and the command-line tools** of the
  connector: request parsing and I/O around the modelled store.
* **Cryptography, parsing and formatting**: signatures are key comparisons, feed
  pages are sets of guids, policies have no conditions on type or priority.
* **A crash between the two statements of `checkRateLimitQuarantine`**: the
  model takes them as one step (see "hazards").
* **The relay's key table against the pins of several agents at once**: agent keys
  are never revoked, so the relay may count as a root what no agent pins any more;
  `TrustRoot` has one agent under a relay that may serve anything.

Some behaviour is in the models and has no property, because the code states no
rule for it: a send parked in the gate goes out although its sender is paused
meanwhile; a task's history keeps a message that `createMessage` refused; the
streams of a canceled task stay open; a Hermes tick under way at `stop()` may
still start a deferred turn, and what Hermes holds back at a stop goes with the
process; a batch larger than the inbox ring evicts rejected messages before they
are remembered; a page the console asked for in one conversation and that lands after
a switch is shown in the other's; a send that fails after the relay stored it gives
its text back to the composer.

## What could be proved next

The liveness properties, with a prover that knows `ENABLED`. The console's other panels
and the Python SDK have no model to prove about yet.
