---------------------------- MODULE ReplayProofs ----------------------------
(***************************************************************************)
(* The replay defence holds for every skew, every retention that covers    *)
(* the recipients' window and any number of requests. The claim count      *)
(* alone is not inductive: what makes a pruned row harmless is when it was *)
(* written, which RequestHistory and EnvelopeHistory relate to the clock.  *)
(***************************************************************************)
EXTENDS ReplayNonces, TLAPS

\* A request is claimed at most once; its row is there, or was pruned after
\* the skew window of even the fastest signer had closed.
RequestHistory(r) ==
  \/ claims[r] = 0 /\ claimedAt[r] = NoTime
  \/ /\ claims[r] = 1
     /\ firstAt[r] \in Nat
     /\ firstAt[r] >= sentAt[r] - Skew
     /\ \/ claimedAt[r] = firstAt[r]
        \/ claimedAt[r] = NoTime /\ now > firstAt[r] + 2 * Skew

\* An envelope was never claimed, or was claimed once and is remembered, or
\* the retention has passed since its first claim.
EnvelopeHistory(e) ==
  \/ claims[e] = 0 /\ claimedAt[e] = NoTime /\ stored[e] = 0
  \/ claims[e] = 1 /\ firstAt[e] \in Nat /\ claimedAt[e] = firstAt[e] /\ stored[e] <= 1
  \/ claims[e] > 0 /\ firstAt[e] \in Nat /\ now > firstAt[e] + Retention

ReplayInv ==
  /\ ReplayTypeOK
  /\ \A r \in Requests : RequestHistory(r)
  /\ \A e \in Envelopes : EnvelopeHistory(e)

LEMMA ReplayInvInit == ReplayInit => ReplayInv
  BY ReplayAssumption
  DEF ReplayInit, ReplayInv, ReplayTypeOK, RequestHistory, EnvelopeHistory, Signed, NoTime

LEMMA ReplayType == ReplayTypeOK /\ [ReplayNext]_replayVars => ReplayTypeOK'
<1> SUFFICES ASSUME ReplayTypeOK, [ReplayNext]_replayVars PROVE ReplayTypeOK'
  OBVIOUS
<1> USE ReplayAssumption DEF ReplayTypeOK, Signed, NoTime
<1>1. ASSUME NEW r \in Requests, requireAgentAuth(r) PROVE ReplayTypeOK'
  BY <1>1 DEF requireAgentAuth, claimNonce
<1>2. ASSUME NEW e \in Envelopes, NEW created \in BOOLEAN, postEnvelope(e, created)
      PROVE ReplayTypeOK'
  BY <1>2 DEF postEnvelope, claimNonce
<1>3. CASE sweepStaleNonces
  BY <1>3 DEF sweepStaleNonces
<1>4. CASE ReplayTick
  BY <1>4 DEF ReplayTick, Tick, nonceVars
<1>5. CASE UNCHANGED replayVars
  BY <1>5 DEF replayVars, nonceVars
<1> QED
  BY <1>1, <1>2, <1>3, <1>4, <1>5 DEF ReplayNext

LEMMA RequestStep ==
  ASSUME ReplayInv, [ReplayNext]_replayVars, NEW q \in Requests
  PROVE  RequestHistory(q)'
<1> USE ReplayAssumption DEF ReplayInv, ReplayTypeOK, Signed, NoTime
<1>0. RequestHistory(q) /\ q \in Signed /\ q \notin Envelopes
  OBVIOUS
<1>1. ASSUME NEW r \in Requests, requireAgentAuth(r) PROVE RequestHistory(q)'
  <2>1. CASE q = r
    BY <1>0, <1>1, <2>1 DEF requireAgentAuth, claimNonce, InSkew, RequestHistory
  <2>2. CASE q # r
    BY <1>0, <1>1, <2>2 DEF requireAgentAuth, claimNonce, RequestHistory
  <2> QED
    BY <2>1, <2>2
<1>2. ASSUME NEW e \in Envelopes, NEW created \in BOOLEAN, postEnvelope(e, created)
      PROVE RequestHistory(q)'
  BY <1>0, <1>2 DEF postEnvelope, claimNonce, RequestHistory
<1>3. CASE sweepStaleNonces
  BY <1>0, <1>3 DEF sweepStaleNonces, Stale, RequestHistory
<1>4. CASE ReplayTick
  BY <1>0, <1>4 DEF ReplayTick, Tick, nonceVars, RequestHistory
<1>5. CASE UNCHANGED replayVars
  BY <1>0, <1>5 DEF replayVars, nonceVars, RequestHistory
<1> QED
  BY <1>1, <1>2, <1>3, <1>4, <1>5 DEF ReplayNext

LEMMA EnvelopeStep ==
  ASSUME ReplayInv, [ReplayNext]_replayVars, NEW q \in Envelopes
  PROVE  EnvelopeHistory(q)'
<1> USE ReplayAssumption DEF ReplayInv, ReplayTypeOK, Signed, NoTime
<1>0. EnvelopeHistory(q) /\ q \in Signed /\ q \notin Requests
  OBVIOUS
<1>1. ASSUME NEW r \in Requests, requireAgentAuth(r) PROVE EnvelopeHistory(q)'
  BY <1>0, <1>1 DEF requireAgentAuth, claimNonce, EnvelopeHistory
<1>2. ASSUME NEW e \in Envelopes, NEW created \in BOOLEAN, postEnvelope(e, created)
      PROVE EnvelopeHistory(q)'
  <2>1. CASE q = e
    BY <1>0, <1>2, <2>1 DEF postEnvelope, claimNonce, EnvelopeHistory
  <2>2. CASE q # e
    BY <1>0, <1>2, <2>2 DEF postEnvelope, claimNonce, EnvelopeHistory
  <2> QED
    BY <2>1, <2>2
<1>3. CASE sweepStaleNonces
  BY <1>0, <1>3 DEF sweepStaleNonces, Stale, EnvelopeHistory
<1>4. CASE ReplayTick
  BY <1>0, <1>4 DEF ReplayTick, Tick, nonceVars, EnvelopeHistory
<1>5. CASE UNCHANGED replayVars
  BY <1>0, <1>5 DEF replayVars, nonceVars, EnvelopeHistory
<1> QED
  BY <1>1, <1>2, <1>3, <1>4, <1>5 DEF ReplayNext

LEMMA ReplayInductive == ReplaySpec => []ReplayInv
<1>1. ReplayInv /\ [ReplayNext]_replayVars => ReplayInv'
  <2> SUFFICES ASSUME ReplayInv, [ReplayNext]_replayVars PROVE ReplayInv'
    OBVIOUS
  <2>1. ReplayTypeOK'
    BY ReplayType DEF ReplayInv
  <2>2. (\A r \in Requests : RequestHistory(r))'
    BY RequestStep
  <2>3. (\A e \in Envelopes : EnvelopeHistory(e))'
    BY EnvelopeStep
  <2> QED
    BY <2>1, <2>2, <2>3 DEF ReplayInv
<1> QED
  BY ReplayInvInit, <1>1, PTL DEF ReplaySpec

\* No signed transport request passes requireAgentAuth twice, whatever the
\* skew, the number of copies and the times of the sweeps.
THEOREM RequestsAcceptedOnce == ReplaySpec => []AcceptedOnce
<1>1. ReplayInv => AcceptedOnce
  <2> SUFFICES ASSUME ReplayInv, NEW r \in Requests PROVE claims[r] <= 1
    BY DEF AcceptedOnce
  <2>1. RequestHistory(r)
    BY DEF ReplayInv
  <2>2. claims[r] = 0 \/ claims[r] = 1
    BY <2>1 DEF RequestHistory
  <2> QED
    BY <2>2
<1> QED
  BY ReplayInductive, <1>1, PTL

\* The envelope claim of POST /v1/messages stores an envelope once while any
\* recipient could still act on it, given a retention that covers the window.
THEOREM EnvelopesStoredOnce == ReplaySpec => []EnvelopeStoredOnce
<1>1. ReplayInv => EnvelopeStoredOnce
  <2> SUFFICES ASSUME ReplayInv, NEW e \in Envelopes, claims[e] > 0,
                      firstAt[e] >= sentAt[e] - FutureSkew, RecipientAccepts(e)
               PROVE  stored[e] <= 1
    BY DEF EnvelopeStoredOnce
  <2>1. /\ EnvelopeHistory(e)
        /\ claims[e] \in Nat /\ stored[e] \in Nat /\ sentAt[e] \in Nat /\ now \in Nat
    BY ReplayAssumption DEF ReplayInv, ReplayTypeOK, Signed
  <2> QED
    BY <2>1, ReplayAssumption DEF EnvelopeHistory, RecipientAccepts
<1> QED
  BY ReplayInductive, <1>1, PTL

\* Neither tier lets a copy through, for every skew and every retention that
\* covers the recipients' window.
THEOREM NothingReplayed == ReplaySpec => []NoReplay
<1>1. ReplayInv => ReplayTypeOK
  BY DEF ReplayInv
<1>2. ReplayTypeOK /\ AcceptedOnce /\ EnvelopeStoredOnce => NoReplay
  BY DEF NoReplay
<1> QED
  BY ReplayInductive, RequestsAcceptedOnce, EnvelopesStoredOnce, <1>1, <1>2, PTL
=============================================================================
