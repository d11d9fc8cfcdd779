---------------------------- MODULE ReplayNonces ----------------------------
(***************************************************************************)
(* The relay's replay defence: table replay_nonces with its two tiers, the *)
(* transport check of requireAgentAuth (packages/relay/src/auth.ts), the   *)
(* envelope claim of POST /v1/messages, and the sweep that forgets old     *)
(* nonces while copies of the same request may still be travelling.        *)
(*                                                                         *)
(* The network may deliver a signed request any number of times, at any    *)
(* time. All requests are of one agent: nonces are claimed per agent.      *)
(*                                                                         *)
(* Abstracted: the signatures and bodies (a request that does not verify   *)
(* claims nothing).                                                        *)
(***************************************************************************)
EXTENDS RelayTime

CONSTANTS
  Requests,    \* signed transport requests, each with its own nonce
  Envelopes,   \* signed message envelopes, each with its own nonce
  Skew,        \* config.timestampSkewSeconds
  Retention,   \* config.envelopeNonceRetentionSeconds
  PastSkew,    \* MAX_PAST_SKEW_SECONDS of the recipients
  FutureSkew   \* MAX_FUTURE_SKEW_SECONDS of the recipients

\* The default configuration satisfies the last conjunct: 87600 >= 86700 + 300.
ASSUME ReplayAssumption ==
  /\ Requests \cap Envelopes = {}
  /\ Skew \in Nat /\ Retention \in Nat /\ PastSkew \in Nat /\ FutureSkew \in Nat
  /\ MaxTime \in Nat
  /\ Retention >= PastSkew + FutureSkew

Signed == Requests \cup Envelopes

VARIABLES
  sentAt,     \* the instant each item says it was signed at
  claimedAt,  \* created_at of its replay_nonces row, NoTime when there is none
  claims,     \* history: how often each nonce was claimed
  firstAt,    \* history: when it was claimed first
  stored      \* history: how often each envelope became a message

nonceVars == <<sentAt, claimedAt, claims, firstAt, stored>>
replayVars == <<now, nonceVars>>

\* The signer's clock may be ahead of the relay's or behind it.
ReplayInit ==
  /\ now = 0
  /\ sentAt \in [Signed -> 0..MaxTime]
  /\ claimedAt = [x \in Signed |-> NoTime]
  /\ claims = [x \in Signed |-> 0]
  /\ firstAt = [x \in Signed |-> NoTime]
  /\ stored = [x \in Signed |-> 0]

-----------------------------------------------------------------------------
\* claimNonce: INSERT OR IGNORE under UNIQUE(agent_id, nonce).
claimNonce(x) ==
  /\ claimedAt[x] = NoTime
  /\ claimedAt' = [claimedAt EXCEPT ![x] = now]
  /\ claims' = [claims EXCEPT ![x] = @ + 1]
  /\ firstAt' = IF claims[x] = 0 THEN [firstAt EXCEPT ![x] = now] ELSE firstAt

InSkew(r) == now - sentAt[r] <= Skew /\ sentAt[r] - now <= Skew

\* One copy of transport request r arrives and is accepted.
requireAgentAuth(r) ==
  /\ InSkew(r)
  /\ claimNonce(r)
  /\ UNCHANGED <<now, sentAt, stored>>

\* One copy of envelope e arrives under a fresh transport request. The nonce
\* is claimed first; createMessage may then fail and leave it claimed.
postEnvelope(e, created) ==
  /\ claimNonce(e)
  /\ stored' = IF created THEN [stored EXCEPT ![e] = @ + 1] ELSE stored
  /\ UNCHANGED <<now, sentAt>>

\* Mutant: envelope nonces are kept no longer than transport ones.
StaleOneTier(x) ==
  /\ claimedAt[x] # NoTime
  /\ claimedAt[x] < now - Skew

Stale(x) ==
  /\ claimedAt[x] # NoTime
  /\ claimedAt[x] < now - (IF x \in Envelopes THEN Retention ELSE 2 * Skew)

sweepStaleNonces ==
  /\ claimedAt' = [x \in Signed |-> IF Stale(x) THEN NoTime ELSE claimedAt[x]]
  /\ UNCHANGED <<now, sentAt, claims, firstAt, stored>>

ReplayTick == Tick /\ UNCHANGED nonceVars

ReplayNext ==
  \/ \E r \in Requests : requireAgentAuth(r)
  \/ \E e \in Envelopes, created \in BOOLEAN : postEnvelope(e, created)
  \/ sweepStaleNonces
  \/ ReplayTick

ReplaySpec == ReplayInit /\ [][ReplayNext]_replayVars

-----------------------------------------------------------------------------
(* Properties *)

ReplayTypeOK ==
  /\ now \in 0..MaxTime
  /\ sentAt \in [Signed -> 0..MaxTime]
  /\ claimedAt \in [Signed -> Nat \cup {NoTime}]
  /\ claims \in [Signed -> Nat]
  /\ firstAt \in [Signed -> Nat \cup {NoTime}]
  /\ stored \in [Signed -> Nat]

\* A signed request is executed at most once, however often and however late
\* its copies arrive: its nonce is forgotten only after the skew check alone
\* refuses it, for a signer running ahead of the relay by the full skew too.
AcceptedOnce == \A r \in Requests : claims[r] <= 1

\* Whether a recipient's clock (the relay's here) would still accept e.
RecipientAccepts(e) ==
  now - sentAt[e] <= PastSkew /\ sentAt[e] - now <= FutureSkew

\* An envelope whose first copy came no earlier than the recipients' future
\* skew allows becomes a message at most once while any recipient would still
\* accept it; a later copy is stored only when all of them reject it as stale.
EnvelopeStoredOnce ==
  \A e \in Envelopes :
    /\ claims[e] > 0
    /\ firstAt[e] >= sentAt[e] - FutureSkew
    /\ RecipientAccepts(e)
    => stored[e] <= 1

\* Neither tier of nonces lets a copy through: a request runs once, and an
\* envelope is stored once for as long as a recipient would believe it.
NoReplay == ReplayTypeOK /\ AcceptedOnce /\ EnvelopeStoredOnce
=============================================================================
