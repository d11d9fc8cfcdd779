--------------------------- MODULE ServicesProofs ---------------------------
(***************************************************************************)
(* The relay's services for any number of agents, messages, uploads and    *)
(* logins, for any limits and under a clock of any length. Each service    *)
(* has an inductive invariant of its own; the lemmas of the first section  *)
(* say that a step of the composition is a step of that service, a tick of *)
(* the clock, or nothing to it.                                            *)
(***************************************************************************)
EXTENDS Services, FiniteSetTheorems, SequenceTheorems, WellFoundedInduction, TLAPS

services == <<part, now, tables>>

-----------------------------------------------------------------------------
(* Clock and frames *)

Clock == now \in 0..MaxTime

LEMMA ControlClock == ControlNext => UNCHANGED now \/ Tick
  BY DEF ControlNext, controlAgent, insertHeartbeat, sweepHeartbeatLiveness,
         checkRateLimitQuarantine, pollInbox, pollLost, handleControls, adapterRestart, ControlTick

LEMMA ReplayClock == ReplayNext => UNCHANGED now \/ Tick
  BY DEF ReplayNext, requireAgentAuth, postEnvelope, sweepStaleNonces, ReplayTick

\* Time stands or ticks; a service moves only in its own part, at a standing clock.
LEMMA Frames ==
  ASSUME [ServicesNext]_services
  PROVE  /\ UNCHANGED now \/ Tick
         /\ (AprvNext /\ UNCHANGED now) \/ UNCHANGED aprvVars
         /\ (FeedNext /\ UNCHANGED now) \/ UNCHANGED feedVars
         /\ (AttNext /\ UNCHANGED now) \/ UNCHANGED attVars
         /\ ((RoomStep \/ SendStep \/ FloorStep) /\ UNCHANGED now) \/ UNCHANGED convVars
         /\ ((GateStep \/ OperatorStep \/ TaskStep \/ StreamStep) /\ UNCHANGED now)
              \/ UNCHANGED a2aVars
         /\ ((LoginStep \/ EnrollStep) /\ UNCHANGED now) \/ UNCHANGED accessVars
         /\ (HealthNext /\ UNCHANGED now) \/ UNCHANGED healthVars
         /\ ControlNext \/ (UNCHANGED <<relayVars, adapterVars>> /\ (UNCHANGED now \/ Tick))
<1>1. CASE UNCHANGED services
  BY <1>1 DEF services, tables
<1>2. CASE ServicesNext
  <2>1. UNCHANGED now \/ Tick
    BY <1>2, ControlClock, ReplayClock DEF ServicesNext
  <2>2. CASE ServiceStep /\ UNCHANGED now
    BY <1>2, <2>2 DEF ServicesNext, ServiceStep, OthersStand
  <2>3. CASE part = "control" /\ ControlNext
    BY <1>2, <2>1, <2>3 DEF ServicesNext, OthersStand
  <2>4. CASE part = "replay" /\ ReplayNext
    BY <1>2, <2>1, <2>4 DEF ServicesNext, OthersStand
  <2>5. CASE Tick /\ UNCHANGED tables
    BY <1>2, <2>5 DEF tables
  <2> QED
    BY <1>2, <2>2, <2>3, <2>4, <2>5 DEF ServicesNext
<1> QED
  BY <1>1, <1>2

LEMMA ClockStep ==
  ASSUME Clock, [ServicesNext]_services
  PROVE  Clock' /\ now \in Nat /\ now' \in Nat /\ now' >= now
  BY Frames, ReplayAssumption DEF Clock, Tick

-----------------------------------------------------------------------------
(* Approvals *)

\* A row is answered only while it is pending, so an operator's answer precedes
\* every report or is never given; what says executed was reported so.
AprvInv ==
  /\ aprv \in [Proposals -> {"none", "pending", "approved", "rejected", "executed", "failed",
                             "cancelled"}]
  /\ call \in [Proposals -> {"idle", "refused", "waiting", "allowed", "ran"}]
  /\ decision \in [Proposals -> {"none", "approved", "rejected"}]
  /\ reported \in [Proposals -> SUBSET Results]
  /\ \A p \in Proposals :
       /\ call[p] = "idle" => aprv[p] = "none"
       /\ aprv[p] \in {"none", "pending"} => decision[p] = "none" /\ reported[p] = {}
       /\ aprv[p] = "approved" => decision[p] = "approved"
       /\ aprv[p] = "executed" => "executed" \in reported[p]
       /\ call[p] = "ran" => aprv[p] \notin {"none", "pending", "rejected"}
  /\ RanAsApproved

LEMMA AprvInvInit == AprvInit => AprvInv
  BY DEF AprvInit, AprvInv, RanAsApproved

LEMMA AprvStep == AprvInv /\ AprvNext => AprvInv'
<1> SUFFICES ASSUME AprvInv, AprvNext PROVE AprvInv'
  OBVIOUS
<1> USE DEF AprvInv, RanAsApproved
<1>1. CASE holdAgent
  BY <1>1 DEF holdAgent
<1>2. ASSUME NEW p \in Proposals, NEW risk \in {"low", "high"}, NEW arrives \in BOOLEAN,
             proposeAction(p, risk, arrives)
      PROVE  AprvInv'
  BY <1>2 DEF proposeAction
<1>3. ASSUME NEW p \in Proposals, NEW answer \in {"approved", "rejected"},
             approveOrReject(p, answer)
      PROVE  AprvInv'
  BY <1>3 DEF approveOrReject, Answerable
<1>4. ASSUME NEW p \in Proposals, pollApproval(p) PROVE AprvInv'
  BY <1>4 DEF pollApproval
<1>5. ASSUME NEW p \in Proposals, adapterStops(p) PROVE AprvInv'
  BY <1>5 DEF adapterStops
<1>6. ASSUME NEW p \in Proposals, NEW result \in Results, completeActionResult(p, result)
      PROVE  AprvInv'
  BY <1>6 DEF completeActionResult, Results
<1> QED
  BY <1>1, <1>2, <1>3, <1>4, <1>5, <1>6 DEF AprvNext

\* For any number of proposals, a risky action runs on the operator's approval
\* or on the agent's own early report that it ran, and on nothing else; a row
\* that says rejected has not run, and only reports displace the answer.
THEOREM RunsAreApproved == ServicesSpec => []RanAsApproved
<1>1. ServicesInit => AprvInv
  BY AprvInvInit DEF ServicesInit
<1>2. AprvInv /\ UNCHANGED aprvVars => AprvInv'
  BY DEF AprvInv, RanAsApproved, aprvVars
<1>3. AprvInv /\ [ServicesNext]_services => AprvInv'
  BY <1>2, Frames, AprvStep
<1>4. AprvInv => RanAsApproved
  BY DEF AprvInv
<1> QED
  BY <1>1, <1>3, <1>4, PTL DEF ServicesSpec, services

-----------------------------------------------------------------------------
(* Feeds *)

\* Nothing was delivered before the feed existed; an item goes out when it is
\* first seen and stays among the seen ones as long as the feed lives.
FeedInv ==
  /\ feedState \in {"none", "live", "deleted"}
  /\ seen \in SUBSET Guids
  /\ got \in [Guids -> {0, 1}]
  /\ feedState = "none" => seen = {} /\ \A g \in Guids : got[g] = 0
  /\ FeedItemOnce

LEMMA FeedInvInit == FeedInit => FeedInv
  BY DEF FeedInit, FeedInv, FeedItemOnce

LEMMA FeedStep == FeedInv /\ FeedNext => FeedInv'
<1> SUFFICES ASSUME FeedInv, FeedNext PROVE FeedInv'
  OBVIOUS
<1> USE DEF FeedInv, FeedItemOnce
<1>1. ASSUME NEW r \in SUBSET Readers, createFeed(r) \/ setFeedSubscribers(r) PROVE FeedInv'
  BY <1>1 DEF createFeed, setFeedSubscribers
<1>2. CASE deleteFeed
  BY <1>2 DEF deleteFeed
<1>3. ASSUME NEW p \in Pollers, NEW asked \in BOOLEAN, pollStarts(p, asked) \/ pollFails(p)
      PROVE  FeedInv'
  BY <1>3 DEF pollStarts, pollFails
<1>4. ASSUME NEW p \in Pollers, NEW page \in SUBSET Guids, pollApplies(p, page) PROVE FeedInv'
  <2>1. CASE feedState = "live" /\ seen # {} /\ subs # {}
    <3>1. /\ seen' = seen \cup page /\ feedState' = feedState
          /\ got' = [g \in Guids |-> got[g] + IF g \in page \ seen THEN 1 ELSE 0]
      BY <1>4, <2>1 DEF pollApplies, Fresh
    <3>2. \A g \in Guids : g \notin seen => got[g] = 0
      BY <2>1
    <3> QED
      BY <2>1, <3>1, <3>2
  <2>2. CASE ~(feedState = "live" /\ seen # {} /\ subs # {})
    BY <1>4, <2>2 DEF pollApplies
  <2> QED
    BY <2>1, <2>2
<1> QED
  BY <1>1, <1>2, <1>3, <1>4 DEF FeedNext

\* However many polls overlap and in whatever order their pages are applied, no
\* item of a feed goes out twice, and none before the feed was seeded.
THEOREM ItemsGoOutOnce == ServicesSpec => []FeedItemOnce
<1>1. ServicesInit => FeedInv
  BY FeedInvInit DEF ServicesInit
<1>2. FeedInv /\ UNCHANGED feedVars => FeedInv'
  BY DEF FeedInv, FeedItemOnce, feedVars
<1>3. FeedInv /\ [ServicesNext]_services => FeedInv'
  BY <1>2, Frames, FeedStep
<1>4. FeedInv => FeedItemOnce
  BY DEF FeedInv
<1> QED
  BY <1>1, <1>3, <1>4, PTL DEF ServicesSpec, services

-----------------------------------------------------------------------------
(* The conversation floor *)

\* Whoever believes it holds a floor is its holder in the table, at least for as
\* long as it believes so.
FloorInv ==
  /\ Clock
  /\ floor \in [Convs -> [holder : Fleet \cup {Op}, until : Nat]]
  /\ lease \in [Fleet -> [Convs -> Nat]]
  /\ \A a \in Fleet, c \in Convs :
       /\ lease[a][c] <= now + FloorTtl
       /\ lease[a][c] > now => floor[c].holder = a /\ lease[a][c] <= floor[c].until

LEMMA AcquireStep ==
  ASSUME FloorInv, UNCHANGED now, NEW a \in Fleet, NEW c \in Rooms, NEW arrives \in BOOLEAN,
         acquireFloor(a, c, arrives)
  PROVE  FloorInv'
<1> USE ConversationsAssumption, ReplayAssumption DEF FloorInv, Clock
<1>1. c \in Convs /\ now \in Nat /\ now + FloorTtl \in Nat
  BY DEF Convs
<1>2. /\ floor' = [floor EXCEPT ![c] = [holder |-> a, until |-> now + FloorTtl]]
      /\ lease' = IF arrives THEN [lease EXCEPT ![a] = [lease[a] EXCEPT ![c] = now + FloorTtl]]
                             ELSE lease
  BY DEF acquireFloor
<1>3. \A b \in Fleet : lease[b][c] > now => b = a
  BY <1>1 DEF acquireFloor, FloorFree
<1>4. /\ floor' \in [Convs -> [holder : Fleet \cup {Op}, until : Nat]]
      /\ lease' \in [Fleet -> [Convs -> Nat]]
  BY <1>1, <1>2
<1>5. ASSUME NEW b \in Fleet, NEW d \in Convs
      PROVE  /\ lease'[b][d] <= now + FloorTtl
             /\ lease'[b][d] > now => floor'[d].holder = b /\ lease'[b][d] <= floor'[d].until
  <2>1. CASE d = c
    <3>1. floor'[d] = [holder |-> a, until |-> now + FloorTtl]
      BY <1>1, <1>2, <2>1
    <3>2. lease'[b][d] = lease[b][d] \/ (b = a /\ lease'[b][d] = now + FloorTtl)
      BY <1>1, <1>2, <2>1
    <3> QED
      BY <1>1, <1>3, <2>1, <3>1, <3>2
  <2>2. CASE d # c
    <3>1. floor'[d] = floor[d] /\ lease'[b][d] = lease[b][d]
      BY <1>1, <1>2, <2>2
    <3> QED
      BY <3>1
  <2> QED
    BY <2>1, <2>2
<1> QED
  BY <1>4, <1>5

LEMMA ReleaseStep ==
  ASSUME FloorInv, UNCHANGED now, NEW a \in Fleet, NEW c \in Rooms, releaseFloor(a, c)
  PROVE  FloorInv'
<1> USE ConversationsAssumption, ReplayAssumption DEF FloorInv, Clock
<1>1. c \in Convs /\ now \in Nat
  BY DEF Convs
<1>2. /\ floor' = [floor EXCEPT ![c] = Released(a, c)]
      /\ lease' = [lease EXCEPT ![a] = [lease[a] EXCEPT ![c] = 0]]
  BY DEF releaseFloor
<1>3. Released(a, c) \in [holder : Fleet \cup {Op}, until : Nat]
  BY <1>1 DEF Released, NoFloor
<1>4. /\ floor' \in [Convs -> [holder : Fleet \cup {Op}, until : Nat]]
      /\ lease' \in [Fleet -> [Convs -> Nat]]
  BY <1>1, <1>2, <1>3
<1>5. ASSUME NEW b \in Fleet, NEW d \in Convs
      PROVE  /\ lease'[b][d] <= now + FloorTtl
             /\ lease'[b][d] > now => floor'[d].holder = b /\ lease'[b][d] <= floor'[d].until
  <2>1. CASE d = c /\ b = a
    BY <1>1, <1>2, <2>1
  <2>2. CASE d = c /\ b # a
    <3>1. lease'[b][d] = lease[b][d] /\ floor'[d] = Released(a, c)
      BY <1>1, <1>2, <2>2
    <3> QED
      BY <2>2, <3>1 DEF Released
  <2>3. CASE d # c
    BY <1>2, <2>3
  <2> QED
    BY <2>1, <2>2, <2>3
<1> QED
  BY <1>4, <1>5

LEMMA FloorInvStep == FloorInv /\ [ServicesNext]_services => FloorInv'
<1> SUFFICES ASSUME FloorInv, [ServicesNext]_services PROVE FloorInv'
  OBVIOUS
<1>1. Clock' /\ now \in Nat /\ now' \in Nat /\ now' >= now
  BY ClockStep DEF FloorInv
<1>2. CASE UNCHANGED <<floor, lease>>
  BY <1>1, <1>2, ConversationsAssumption DEF FloorInv
<1>3. CASE FloorStep /\ UNCHANGED now
  BY <1>3, AcquireStep, ReleaseStep DEF FloorStep
<1>4. RoomStep \/ SendStep => UNCHANGED <<floor, lease>>
  BY DEF RoomStep, createRoom, deleteRoom, SendStep, sendToRoom, sendToAgent, broadcast,
         operatorSends, resumeThread, Store
<1> QED
  BY <1>2, <1>3, <1>4, Frames DEF convVars

\* A lease that ran out, a lost reply and a late release never let two agents
\* speak at once, for every length of the lease.
THEOREM OneSpeaker == ServicesSpec => []FloorExclusive
<1>1. ServicesInit => FloorInv
  BY ConversationsAssumption, ReplayAssumption
  DEF ServicesInit, ConvInit, ControlInit, FloorInv, NoFloor, Clock
<1>2. ASSUME FloorInv PROVE FloorExclusive
  <2>1. ASSUME NEW c \in Convs PROVE Cardinality({a \in Fleet : lease[a][c] > now}) <= 1
    <3>1. PICK H \in SUBSET Fleet : H = {a \in Fleet : lease[a][c] > now}
      OBVIOUS
    <3>2. \A a, b \in H : a = b
      BY <1>2, <3>1 DEF FloorInv
    <3>3. H = {} \/ \E b \in H : H = {b}
      BY <3>2
    <3>4. Cardinality(H) = 0 \/ Cardinality(H) = 1
      BY <3>3, FS_EmptySet, FS_Singleton
    <3> QED
      BY <3>1, <3>4
  <2> QED
    BY <2>1 DEF FloorExclusive
<1> QED
  BY <1>1, <1>2, FloorInvStep, PTL DEF ServicesSpec, services

-----------------------------------------------------------------------------
(* Who reads what *)

Mail == [sender : Fleet \cup {Op}, conv : Convs, dlv : SUBSET (Fleet \cup {Op}),
         ref : Nat, aud : SUBSET (Fleet \cup {Op})]

\* Deliveries go to the audience. Whatever is filed under a room's id was filed
\* after the room was created and, while the room is open, for all its members.
MailInv ==
  /\ room \in [Rooms -> [state : {"none", "open", "deleted"}, members : SUBSET Fleet]]
  /\ sent \in Seq(Mail)
  /\ \A i \in 1..Len(sent) :
       /\ sent[i].dlv \subseteq sent[i].aud
       /\ sent[i].conv \in Rooms =>
            /\ room[sent[i].conv].state # "none"
            /\ room[sent[i].conv].state = "open" => room[sent[i].conv].members \subseteq sent[i].aud

LEMMA StoreStep ==
  ASSUME MailInv, NEW s \in Fleet \cup {Op}, NEW c \in Convs, NEW dlv \in SUBSET (Fleet \cup {Op}),
         NEW aud \in SUBSET (Fleet \cup {Op}), NEW ref \in Nat, Store(s, c, dlv, aud, ref),
         dlv \subseteq aud,
         c \in Rooms => /\ room[c].state # "none"
                        /\ room[c].state = "open" => room[c].members \subseteq aud
  PROVE  MailInv'
<1> DEFINE m == [sender |-> s, conv |-> c, dlv |-> dlv, ref |-> ref, aud |-> aud]
<1>1. sent' = Append(sent, m) /\ UNCHANGED room
  BY DEF Store
<1>2. m \in Mail
  BY DEF Mail
<1>3. sent \in Seq(Mail) /\ sent' \in Seq(Mail) /\ Len(sent') = Len(sent) + 1
  BY <1>1, <1>2 DEF MailInv
<1>4. ASSUME NEW i \in 1..Len(sent') PROVE IF i = Len(sent') THEN sent'[i] = m
                                           ELSE i \in 1..Len(sent) /\ sent'[i] = sent[i]
  BY <1>1, <1>2, <1>3
<1>5. /\ m.dlv \subseteq m.aud
      /\ m.conv \in Rooms =>
           /\ room[m.conv].state # "none"
           /\ room[m.conv].state = "open" => room[m.conv].members \subseteq m.aud
  OBVIOUS
<1> HIDE DEF m
<1> QED
  BY <1>1, <1>3, <1>4, <1>5 DEF MailInv

LEMMA SendMailStep == MailInv /\ SendStep => MailInv'
<1> SUFFICES ASSUME MailInv, SendStep PROVE MailInv'
  OBVIOUS
<1>1. /\ \A r \in Rooms : r \in Convs /\ Members(r) \in SUBSET Fleet
      /\ \A c \in Known : c \in Convs /\ (c \in Rooms => room[c].state # "none")
      /\ Refs \subseteq Nat
  BY DEF MailInv, Members, isRoomConversation, Convs, Known, Refs
<1>2. ASSUME NEW a \in Fleet, NEW r \in Rooms, NEW ref \in Refs, sendToRoom(a, r, ref)
      PROVE  MailInv'
  <2>1. room[r].state = "open" /\ Members(r) = room[r].members
    BY <1>2 DEF sendToRoom, Members, isRoomConversation
  <2>2. Store(a, r, Members(r) \ {a}, Members(r), ref)
    BY <1>2 DEF sendToRoom
  <2> QED
    BY <1>1, <2>1, <2>2, StoreStep
<1>3. ASSUME NEW a \in Fleet, NEW b \in Fleet \cup {Op}, NEW c \in Known, NEW ref \in Refs,
             sendToAgent(a, b, c, ref)
      PROVE  MailInv'
  <2>1. PICK conv \in Convs : /\ conv = IF b = Op THEN DmId(a) ELSE c
                              /\ Threadable(conv)
                              /\ Store(a, conv, {b}, {b}, ref)
    <3>1. DmId(a) \in Convs
      BY DEF Convs
    <3> QED
      BY <1>1, <1>3, <3>1 DEF sendToAgent
  <2>2. DmId(a) \notin Rooms
    BY ConversationsAssumption
  <2>3. conv \in Rooms => room[conv].state # "none" /\ room[conv].state # "open"
    BY <1>1, <2>1, <2>2 DEF Threadable, isRoomConversation
  <2>4. {b} \in SUBSET (Fleet \cup {Op}) /\ ref \in Nat
    BY <1>1
  <2> QED
    BY <2>1, <2>3, <2>4, StoreStep
<1>4. ASSUME NEW a \in Fleet, NEW c \in Known, NEW ref \in Refs, broadcast(a, c, ref)
      PROVE  MailInv'
  BY <1>1, <1>4, StoreStep DEF broadcast, Threadable, isRoomConversation
<1>5. ASSUME NEW c \in Known, NEW b \in SUBSET Fleet, NEW ref \in Refs, operatorSends(c, b, ref)
      PROVE  MailInv'
  <2>1. CASE isRoomConversation(c)
    <3>1. Store(Op, c, Members(c), Members(c), ref) /\ Members(c) = room[c].members /\ c \in Rooms
      BY <1>5, <2>1 DEF operatorSends, Members, isRoomConversation
    <3> QED
      BY <1>1, <3>1, StoreStep
  <2>2. CASE ~isRoomConversation(c)
    <3>1. Store(Op, c, b, b, ref) /\ (c \in Rooms => room[c].state # "open")
      BY <1>5, <2>2 DEF operatorSends, isRoomConversation
    <3> QED
      BY <1>1, <3>1, StoreStep
  <2> QED
    BY <2>1, <2>2
<1>6. ASSUME NEW c \in Known, resumeThread(c) PROVE MailInv'
  <2>1. PICK crowd \in SUBSET Fleet : Store(Op, c, crowd, crowd, 0)
    BY <1>6 DEF resumeThread
  <2>2. c \in Rooms => room[c].state # "open"
    BY <1>6 DEF resumeThread, isRoomConversation
  <2> QED
    BY <1>1, <2>1, <2>2, StoreStep
<1> QED
  BY <1>2, <1>3, <1>4, <1>5, <1>6 DEF SendStep

LEMMA MailInvStep == MailInv /\ [ServicesNext]_services => MailInv'
<1> SUFFICES ASSUME MailInv, [ServicesNext]_services PROVE MailInv'
  OBVIOUS
<1>1. CASE UNCHANGED <<room, sent>>
  BY <1>1 DEF MailInv
<1>2. ASSUME NEW by \in Fleet \cup {Op}, NEW r \in Rooms, NEW m \in SUBSET Fleet,
             createRoom(by, r, m)
      PROVE  MailInv'
  BY <1>2 DEF createRoom, MailInv, Mail
<1>3. ASSUME NEW r \in Rooms, deleteRoom(r) PROVE MailInv'
  BY <1>3 DEF deleteRoom, MailInv, Mail
<1>4. FloorStep => UNCHANGED <<room, sent>>
  BY DEF FloorStep, acquireFloor, releaseFloor
<1> QED
  BY <1>1, <1>2, <1>3, <1>4, SendMailStep, Frames DEF convVars, RoomStep

\* Neither taking part in a thread, quoting a message, the floor's tail, a room's
\* history nor the deletion of a room shows an agent what it neither sent nor was
\* addressed by.
THEOREM OnlyTheAudienceReads == ServicesSpec => []ReadWithinAudience
<1>1. ServicesInit => MailInv
  BY DEF ServicesInit, ConvInit, MailInv, NoRoom
<1>2. ASSUME MailInv PROVE ReadWithinAudience
  <2>1. DOMAIN sent = 1..Len(sent)
    BY <1>2 DEF MailInv
  <2>2. ASSUME NEW a \in Fleet, NEW i \in DOMAIN sent, a \in sent[i].dlv
        PROVE  a \in sent[i].aud
    BY <1>2, <2>1, <2>2 DEF MailInv
  <2>3. ASSUME NEW a \in Fleet, NEW i \in DOMAIN sent, sent[i].conv \in Rooms,
               a \in Members(sent[i].conv)
        PROVE  a \in sent[i].aud
    BY <1>2, <2>1, <2>3 DEF MailInv, Members, isRoomConversation
  <2>4. ASSUME NEW a \in Fleet, NEW i \in DOMAIN sent, Visible(i, a)
        PROVE  a \in sent[i].aud \cup {sent[i].sender}
    BY <2>2, <2>3, <2>4 DEF Visible, isRoomConversation
  <2> QED
    BY <2>2, <2>3, <2>4 DEF ReadWithinAudience, Readable, Inbox, History, Quoted, OwnSent, FloorTail
<1> QED
  BY <1>1, <1>2, MailInvStep, PTL DEF ServicesSpec, services

-----------------------------------------------------------------------------
(* Attachments *)

\* What a row says of its file and of the messages that carry it.
UploadHistory(x) ==
  /\ att[x].state \in {"none", "lost", "unbound"} => boundBy[x] = -1
  /\ att[x].state \in {"unbound", "bound"} => x \in file \cup torn
  /\ att[x].state = "bound" => att[x].since = boundBy[x]
  /\ att[x].state = "gone" /\ boundBy[x] >= 0 => boundBy[x] < now - FileRetention

AttInv ==
  /\ Clock
  /\ att \in [Uploads -> [state : {"none", "lost", "unbound", "bound", "gone"}, since : Nat]]
  /\ boundBy \in [Uploads -> Nat \cup {-1}]
  /\ file \in SUBSET Uploads
  /\ torn \in SUBSET Uploads
  /\ \A x \in Uploads : UploadHistory(x)
  /\ getFleetAttachmentBytes <= Quota

\* Rows that are taken away or kept stay within the quota.
LEMMA RowsFewer ==
  ASSUME NEW R \in SUBSET Uploads, NEW S \in SUBSET Uploads, S \subseteq R, Cardinality(R) <= Quota
  PROVE  Cardinality(S) <= Quota
<1>1. IsFiniteSet(R) /\ IsFiniteSet(S)
  BY FS_Subset, AttachmentsAssumption
<1>2. Cardinality(R) \in Nat /\ Cardinality(S) \in Nat /\ Cardinality(S) <= Cardinality(R)
  BY <1>1, FS_Subset, FS_CardinalityType
<1> QED
  BY <1>2, AttachmentsAssumption

LEMMA CreateStep ==
  ASSUME AttInv, UNCHANGED now, NEW x \in Uploads, NEW crash \in BOOLEAN, createAttachment(x, crash)
  PROVE  AttInv'
<1> USE DEF AttInv, createAttachment
<1>1. now \in Nat
  BY ReplayAssumption DEF Clock
<1>2. att'[x].state \in {"lost", "unbound"} /\ \A y \in Uploads : y # x => att'[y] = att[y]
  OBVIOUS
<1>3. /\ att' \in [Uploads -> [state : {"none", "lost", "unbound", "bound", "gone"}, since : Nat]]
      /\ file' \in SUBSET Uploads /\ torn' \in SUBSET Uploads
      /\ boundBy' \in [Uploads -> Nat \cup {-1}]
  BY <1>1
<1>4. ASSUME NEW y \in Uploads PROVE UploadHistory(y)'
  BY <1>2 DEF UploadHistory
<1>5. getFleetAttachmentBytes' <= Quota
  <2>1. PICK R \in SUBSET Uploads : R = {y \in Uploads : HasRow(y)}
    OBVIOUS
  <2>2. PICK S \in SUBSET Uploads : S = {y \in Uploads : HasRow(y)'}
    OBVIOUS
  <2>3. S \subseteq R \cup {x}
    BY <1>2, <2>1, <2>2 DEF HasRow
  <2>4. IsFiniteSet(R)
    BY FS_Subset, AttachmentsAssumption
  <2>5. Cardinality(R) + 1 <= Quota
    BY <2>1 DEF getFleetAttachmentBytes
  <2>6. Cardinality(R) \in Nat
    BY <2>4, FS_CardinalityType
  <2>7. Cardinality(R \cup {x}) <= Quota
    <3>1. Cardinality(R \cup {x}) = IF x \in R THEN Cardinality(R) ELSE Cardinality(R) + 1
      BY <2>4, FS_AddElement
    <3> QED
      BY <2>5, <2>6, <3>1, AttachmentsAssumption
  <2>8. Cardinality(S) <= Quota
    BY <2>3, <2>7, RowsFewer
  <2> QED
    BY <2>2, <2>8 DEF getFleetAttachmentBytes
<1> QED
  BY <1>3, <1>4, <1>5 DEF Clock

LEMMA BindStep ==
  ASSUME AttInv, UNCHANGED now, NEW xs \in SUBSET Uploads, bindAttachments(xs)
  PROVE  AttInv'
<1> USE DEF AttInv, bindAttachments
<1>1. now \in Nat
  BY ReplayAssumption DEF Clock
<1>2. /\ att' \in [Uploads -> [state : {"none", "lost", "unbound", "bound", "gone"}, since : Nat]]
      /\ file' \in SUBSET Uploads /\ torn' \in SUBSET Uploads
      /\ boundBy' \in [Uploads -> Nat \cup {-1}]
  BY <1>1
<1>3. ASSUME NEW y \in Uploads PROVE UploadHistory(y)'
  <2>1. CASE y \in xs
    <3>1. att'[y] = [state |-> "bound", since |-> now] /\ boundBy'[y] = now
      BY <2>1
    <3>2. y \in file \cup torn
      BY <2>1 DEF HasRow, UploadHistory
    <3> QED
      BY <3>1, <3>2 DEF UploadHistory
  <2>2. CASE y \notin xs
    BY <2>2 DEF UploadHistory
  <2> QED
    BY <2>1, <2>2
<1>4. getFleetAttachmentBytes' <= Quota
  <2>1. \A y \in Uploads : HasRow(y)' <=> HasRow(y)
    BY DEF HasRow
  <2>2. {y \in Uploads : HasRow(y)'} = {y \in Uploads : HasRow(y)}
    BY <2>1
  <2> QED
    BY <2>2 DEF getFleetAttachmentBytes
<1> QED
  BY <1>2, <1>3, <1>4 DEF Clock

LEMMA SweepStep ==
  ASSUME AttInv, UNCHANGED now, NEW stuck \in SUBSET Uploads, NEW done \in SUBSET Uploads,
         NEW crashAt \in SUBSET Uploads, sweepAttachments(stuck, done, crashAt)
  PROVE  AttInv'
<1> USE DEF AttInv
<1>1. /\ now \in Nat
      /\ \A x \in done \cup crashAt : PastLife(x)
      /\ done \cap crashAt = {}
      /\ att' = [x \in Uploads |-> IF x \in done THEN [att[x] EXCEPT !.state = "gone"] ELSE att[x]]
      /\ file' = file \ (done \cup crashAt)
      /\ torn' = (torn \cup crashAt) \ done
      /\ boundBy' = boundBy
  BY ReplayAssumption DEF sweepAttachments, Clock
<1>2. ASSUME NEW y \in Uploads, y \in done
      PROVE  /\ att'[y].state = "gone" /\ att'[y].since \in Nat
             /\ att'[y] \in [state : {"none", "lost", "unbound", "bound", "gone"}, since : Nat]
  BY <1>1, <1>2
<1>3. ASSUME NEW y \in Uploads, y \notin done PROVE att'[y] = att[y]
  BY <1>1, <1>3
<1>4. /\ att' \in [Uploads -> [state : {"none", "lost", "unbound", "bound", "gone"}, since : Nat]]
      /\ file' \in SUBSET Uploads /\ torn' \in SUBSET Uploads
      /\ boundBy' \in [Uploads -> Nat \cup {-1}]
  BY <1>1, <1>2, <1>3
<1>5. ASSUME NEW y \in Uploads PROVE UploadHistory(y)'
  <2>1. CASE y \in done
    BY <1>1, <1>2, <2>1, AttachmentsAssumption DEF UploadHistory, PastLife
  <2>2. CASE y \notin done
    BY <1>1, <1>3, <2>2 DEF UploadHistory
  <2> QED
    BY <2>1, <2>2
<1>6. getFleetAttachmentBytes' <= Quota
  <2>1. PICK R \in SUBSET Uploads : R = {y \in Uploads : HasRow(y)}
    OBVIOUS
  <2>2. PICK S \in SUBSET Uploads : S = {y \in Uploads : HasRow(y)'}
    OBVIOUS
  <2>3. S \subseteq R
    BY <1>2, <1>3, <2>1, <2>2 DEF HasRow
  <2> QED
    BY <2>1, <2>2, <2>3, RowsFewer DEF getFleetAttachmentBytes
<1> QED
  BY <1>4, <1>5, <1>6 DEF Clock

\* An attachment is served for the whole retention after the last message that
\* bound it, and the quota holds, for all lifetimes and any number of uploads.
THEOREM AttachmentsServed == ServicesSpec => []BoundIsServed
<1>1. ServicesInit => AttInv
  <2>1. ASSUME AttInit, ControlInit PROVE AttInv
    <3>1. {x \in Uploads : HasRow(x)} = {}
      BY <2>1 DEF AttInit, HasRow
    <3>2. getFleetAttachmentBytes <= Quota
      BY <3>1, FS_EmptySet, AttachmentsAssumption DEF getFleetAttachmentBytes
    <3> QED
      BY <2>1, <3>2, ReplayAssumption DEF AttInit, ControlInit, AttInv, UploadHistory, Clock
  <2> QED
    BY <2>1 DEF ServicesInit
<1>2. ASSUME AttInv, [ServicesNext]_services PROVE AttInv'
  <2>1. Clock' /\ now \in Nat /\ now' \in Nat /\ now' >= now
    BY <1>2, ClockStep DEF AttInv
  <2>2. CASE UNCHANGED attVars
    <3>1. \A x \in Uploads : UploadHistory(x)'
      BY <1>2, <2>1, <2>2, AttachmentsAssumption DEF AttInv, UploadHistory, attVars
    <3> QED
      BY <1>2, <2>1, <2>2, <3>1 DEF AttInv, attVars, getFleetAttachmentBytes, HasRow
  <2>3. CASE AttNext /\ UNCHANGED now
    BY <1>2, <2>3, CreateStep, BindStep, SweepStep DEF AttNext
  <2> QED
    BY <1>2, <2>2, <2>3, Frames
<1>3. AttInv => BoundIsServed
  BY ReplayAssumption, AttachmentsAssumption DEF AttInv, BoundIsServed, UploadHistory, Clock
<1> QED
  BY <1>1, <1>2, <1>3, PTL DEF ServicesSpec, services

-----------------------------------------------------------------------------
(* Tasks *)

TaskRow == [state : {"none", "submitted", "canceled"}, parties : SUBSET (Senders \cup {Nobody}),
            room : BOOLEAN, history : Seq(Sends)]

Request == [st : {"idle", "parked", "refused", "stored"}, by : Senders \cup {Nobody},
            to : Senders \cup {Nobody}, task : Tasks \cup {0, Plain}, at : Nat \cup {-1}]

TaskTypes ==
  /\ Clock
  /\ flight \in [Sends -> Request]
  /\ task \in [Tasks -> TaskRow]

\* What every step of the gate and the tasks does to one request.
LEMMA FlightStep ==
  ASSUME Clock, flight \in [Sends -> Request],
         GateStep \/ OperatorStep \/ TaskStep \/ StreamStep, Posters \subseteq Senders
  PROVE  flight' \in [Sends -> Request]
<1>1. now \in Nat
  BY ReplayAssumption DEF Clock
<1>2. ASSUME NEW s \in Sends, NEW a \in Senders, NEW to \in Senders \cup {Nobody},
             NEW t \in Tasks \cup {0, Plain}, gateEntered(s, a, to, t)
      PROVE  flight' \in [Sends -> Request]
  BY <1>1, <1>2 DEF gateEntered, Request
<1>3. ASSUME NEW s \in Sends, NEW outcome \in {"stored", "refused"},
             flight' = [flight EXCEPT ![s].st = outcome]
      PROVE  flight' \in [Sends -> Request]
  BY <1>3 DEF Request
<1>4. GateStep => flight' \in [Sends -> Request]
  BY <1>2, <1>3 DEF GateStep, extensionDenies, postMessage, Resolve, sweepStaleRateLimitCounters
<1>5. OperatorStep \/ StreamStep => flight' \in [Sends -> Request]
  BY DEF OperatorStep, StreamStep, controlSender, writePolicy, openSseStream, closeStream
<1>6. TaskStep => flight' \in [Sends -> Request]
  BY <1>2, <1>3 DEF TaskStep, sendBegins, sendContinues, createTask, tasksCancel, Resolve
<1> QED
  BY <1>4, <1>5, <1>6

\* A step adds to the history of a task that is not canceled, creates or cancels
\* one, or leaves all tasks alone.
LEMMA TaskMoves ==
  ASSUME TaskTypes, GateStep \/ OperatorStep \/ TaskStep \/ StreamStep
  PROVE  /\ task' \in [Tasks -> TaskRow]
         /\ \A t \in Tasks : task[t].state = "canceled" => task'[t] = task[t]
<1> USE DEF TaskTypes
<1>1. CASE UNCHANGED task
  BY <1>1
<1>2. ASSUME NEW s \in Sends, NEW t \in Tasks, NEW stream \in BOOLEAN, sendContinues(s, t, stream),
             MayAppend(s, t)
      PROVE  /\ task' \in [Tasks -> TaskRow]
             /\ \A u \in Tasks : task[u].state = "canceled" => task'[u] = task[u]
  <2>1. task' = [task EXCEPT ![t].history = Append(@, s)] /\ task[t].state # "canceled"
    BY <1>2 DEF sendContinues, MayAppend
  <2>2. Append(task[t].history, s) \in Seq(Sends)
    BY DEF TaskRow
  <2> QED
    BY <2>1, <2>2 DEF TaskRow
<1>3. ASSUME NEW s \in Sends, NEW t \in Tasks, NEW isRoom \in BOOLEAN, NEW stream \in BOOLEAN,
             createTask(s, t, isRoom, stream)
      PROVE  /\ task' \in [Tasks -> TaskRow]
             /\ \A u \in Tasks : task[u].state = "canceled" => task'[u] = task[u]
  <2>1. [state |-> "submitted", parties |-> {flight[s].by, flight[s].to}, room |-> isRoom,
         history |-> <<s>>] \in TaskRow
    BY DEF TaskRow, Request
  <2>2. /\ task' = [task EXCEPT ![t] = [state |-> "submitted", room |-> isRoom, history |-> <<s>>,
                                        parties |-> {flight[s].by, flight[s].to}]]
        /\ task[t].state = "none"
    BY <1>3 DEF createTask
  <2> QED
    BY <2>1, <2>2
<1>4. ASSUME NEW a \in Senders, NEW t \in Tasks, tasksCancel(a, t)
      PROVE  /\ task' \in [Tasks -> TaskRow]
             /\ \A u \in Tasks : task[u].state = "canceled" => task'[u] = task[u]
  BY <1>4 DEF tasksCancel, TaskRow
<1>5. GateStep \/ OperatorStep \/ StreamStep => UNCHANGED task
  BY DEF GateStep, OperatorStep, StreamStep, openSseStream, closeStream
<1>6. ASSUME NEW s \in Sends, NEW a \in Senders, NEW to \in Senders, NEW t \in Tasks \cup {0},
             sendBegins(s, a, to, t)
      PROVE  UNCHANGED task
  BY <1>6 DEF sendBegins
<1>7. ASSUME NEW s \in Sends, NEW t \in Tasks, NEW stream \in BOOLEAN, sendContinues(s, t, stream),
             ~MayAppend(s, t)
      PROVE  UNCHANGED task
  BY <1>7 DEF sendContinues
<1>8. TaskStep => \/ UNCHANGED task
                  \/ /\ task' \in [Tasks -> TaskRow]
                     /\ \A u \in Tasks : task[u].state = "canceled" => task'[u] = task[u]
  BY <1>2, <1>3, <1>4, <1>6, <1>7 DEF TaskStep
<1> QED
  BY <1>1, <1>5, <1>8

LEMMA TaskTypesStep == TaskTypes /\ [ServicesNext]_services => TaskTypes'
  BY ClockStep, Frames, FlightStep, TaskMoves, MessageGateAssumption, A2ATasksAssumption
  DEF TaskTypes, a2aVars

LEMMA TaskTypesHold == ServicesSpec => []TaskTypes
<1>1. ServicesInit => TaskTypes
  BY ReplayAssumption
  DEF ServicesInit, A2AInit, GateInit, ControlInit, TaskTypes, Clock, Idle, NoTask, TaskRow, Request,
      Plain
<1> QED
  BY <1>1, TaskTypesStep, PTL DEF ServicesSpec, services

\* A canceled task never changes again, whatever passed the gate before the cancel.
THEOREM CanceledStays == ServicesSpec => ClosedTaskFrozen
<1>1. ASSUME TaskTypes, [ServicesNext]_services
      PROVE  [\A t \in Tasks : task[t].state = "canceled" => task'[t] = task[t]]_a2aVars
  BY <1>1, Frames, TaskMoves
<1> QED
  BY <1>1, TaskTypesHold, PTL DEF ServicesSpec, services, ClosedTaskFrozen

-----------------------------------------------------------------------------
(* The control plane *)

\* The operator's last word is a pause or a quarantine.
LastWordHolds ==
  \E i \in 1..Len(controls) :
    /\ controls[i].by = "operator" /\ controls[i].action # "resume"
    /\ \A j \in 1..Len(controls) : controls[j].by = "operator" => j <= i

\* Rows are in the order of their instants, and a pause or quarantine is served
\* until it is retired.
RowsInOrder ==
  \A i \in 1..Len(controls) :
    /\ controls[i].at <= now
    /\ \A j \in 1..Len(controls) : i <= j => controls[i].at <= controls[j].at
    /\ controls[i].action # "resume" => controls[i].expiresAt = Never \/ controls[i].expiresAt <= now

\* A quarantine for silence fell on an agent that nobody else held.
SilenceAlone ==
  reason = "heartbeat_timeout" =>
    agentStatus = "quarantined" /\ ~Standing({"pause"}) /\ ~LastWordHolds

ControlInv ==
  ControlTypeOK /\ RowsInOrder /\ SilenceAlone /\ StatusAnnounced /\ (LastWordHolds => agentStatus \in Held)

LEMMA RowFacts ==
  ASSUME ControlTypeOK
  PROVE  /\ Len(controls) \in Nat /\ DOMAIN controls = 1..Len(controls)
         /\ now \in Nat /\ Never \in Nat /\ Never > now
         /\ \A i \in 1..Len(controls) :
              controls[i] \in ControlRow /\ controls[i].expiresAt \in Int /\ controls[i].at \in Int
<1>1. controls \in Seq(ControlRow) /\ now \in 0..MaxTime
  BY DEF ControlTypeOK
<1>2. Len(controls) \in Nat /\ DOMAIN controls = 1..Len(controls)
  BY <1>1
<1>3. \A i \in 1..Len(controls) : controls[i] \in ControlRow
  BY <1>1
<1>4. \A r \in ControlRow : r.expiresAt \in Int /\ r.at \in Int
  BY DEF ControlRow
<1>5. now \in Nat /\ Never \in Nat /\ Never > now
  BY <1>1, AgentControlAssumption DEF Never
<1> QED
  BY <1>2, <1>3, <1>4, <1>5

\* Retiring rows changes when they expire and nothing else.
LEMMA RetiredRows ==
  ASSUME ControlTypeOK, NEW kinds \in SUBSET Actions
  PROVE  /\ Retired(kinds) \in Seq(ControlRow) /\ Len(Retired(kinds)) = Len(controls)
         /\ \A i \in 1..Len(controls) :
              /\ Retired(kinds)[i].action = controls[i].action
              /\ Retired(kinds)[i].by = controls[i].by
              /\ Retired(kinds)[i].at = controls[i].at
              /\ Retired(kinds)[i].expiresAt =
                   IF controls[i].action \in kinds /\ controls[i].expiresAt > now
                   THEN now ELSE controls[i].expiresAt
<1>1. /\ controls \in Seq(ControlRow) /\ DOMAIN controls = 1..Len(controls) /\ Len(controls) \in Nat
      /\ now \in 0..Never /\ now \in 0..MaxTime
  BY AgentControlAssumption DEF ControlTypeOK, Never
<1>2. ASSUME NEW i \in 1..Len(controls)
      PROVE  /\ controls[i] \in ControlRow
             /\ [controls[i] EXCEPT !.expiresAt = now] \in ControlRow
  <2>1. controls[i] \in ControlRow
    BY <1>1
  <2> QED
    BY <1>1, <2>1 DEF ControlRow
<1>3. Retired(kinds) \in [1..Len(controls) -> ControlRow]
  BY <1>1, <1>2 DEF Retired
<1>4. Retired(kinds) \in Seq(ControlRow) /\ Len(Retired(kinds)) = Len(controls)
  BY <1>1, <1>3
<1>5. ASSUME NEW i \in 1..Len(controls)
      PROVE  Retired(kinds)[i] = IF controls[i].action \in kinds /\ controls[i].expiresAt > now
                                 THEN [controls[i] EXCEPT !.expiresAt = now] ELSE controls[i]
  BY <1>1 DEF Retired, Unexpired
<1> QED
  BY <1>2, <1>4, <1>5 DEF ControlRow

LEMMA NewRow ==
  ASSUME ControlTypeOK, NEW action \in Actions, NEW by \in {"operator", "system"}
  PROVE  /\ Control(action, by) \in ControlRow
         /\ Control(action, by).action = action /\ Control(action, by).by = by
         /\ Control(action, by).at = now
         /\ action # "resume" => Control(action, by).expiresAt = Never
  BY AgentControlAssumption DEF ControlTypeOK, Control, ControlRow, Never

\* The table after retiring some kinds and adding a row, as the next state sees it.
LEMMA TableAfter ==
  ASSUME ControlTypeOK, NEW kinds \in SUBSET Actions, NEW action \in Actions,
         NEW by \in {"operator", "system"}, controls' = Append(Retired(kinds), Control(action, by))
  PROVE  /\ controls' \in Seq(ControlRow) /\ Len(controls') = Len(controls) + 1
         /\ controls'[Len(controls) + 1] = Control(action, by)
         /\ \A i \in 1..Len(controls) : controls'[i] = Retired(kinds)[i]
  BY RetiredRows, NewRow

LEMMA RetireNone == ControlTypeOK => Retired({}) = controls
  BY DEF ControlTypeOK, Retired

\* Live rows of the kinds ks that are not among the retired ones.
Spared(ks, kinds) ==
  \E i \in 1..Len(controls) : controls[i].action \in ks \ kinds /\ controls[i].expiresAt > now

LEMMA RowsAdded ==
  ASSUME ControlTypeOK, RowsInOrder, UNCHANGED now, NEW kinds \in SUBSET Actions,
         NEW action \in Actions, NEW by \in {"operator", "system"},
         controls' = Append(Retired(kinds), Control(action, by))
  PROVE  /\ RowsInOrder'
         /\ \A ks \in SUBSET Actions : Standing(ks)' <=> action \in ks \/ Spared(ks, kinds)
         /\ LastWordHolds' <=> IF by = "operator" THEN action # "resume" ELSE LastWordHolds
<1>1. /\ Len(controls) \in Nat /\ DOMAIN controls' = 1..Len(controls')
      /\ Len(controls') = Len(controls) + 1
      /\ now \in Nat /\ Never \in Nat /\ Never > now
  BY TableAfter, RowFacts
<1>2. /\ controls'[Len(controls) + 1].action = action /\ controls'[Len(controls) + 1].by = by
      /\ controls'[Len(controls) + 1].at = now
      /\ controls'[Len(controls) + 1].expiresAt > now
      /\ action # "resume" => controls'[Len(controls) + 1].expiresAt = Never
  <2>1. Control(action, by).expiresAt > now
    BY <1>1, AgentControlAssumption DEF Control
  <2> QED
    BY <2>1, TableAfter, NewRow
<1>3. ASSUME NEW i \in 1..Len(controls)
      PROVE  /\ controls'[i].action = controls[i].action /\ controls'[i].by = controls[i].by
             /\ controls'[i].at = controls[i].at
             /\ controls'[i].expiresAt =
                  IF controls[i].action \in kinds /\ controls[i].expiresAt > now
                  THEN now ELSE controls[i].expiresAt
  BY TableAfter, RetiredRows
<1>4. \A i \in 1..Len(controls) : controls[i].expiresAt \in Int /\ controls[i].at \in Int
  BY RowFacts
<1>5. RowsInOrder'
  BY <1>1, <1>2, <1>3, <1>4 DEF RowsInOrder, Never
<1>6. ASSUME NEW ks \in SUBSET Actions
      PROVE  Standing(ks)' <=> action \in ks \/ Spared(ks, kinds)
  <2>1. Standing(ks)' <=> \E i \in 1..(Len(controls) + 1) :
                            controls'[i].action \in ks /\ controls'[i].expiresAt > now
    BY <1>1 DEF Standing, Unexpired
  <2>2. 1..(Len(controls) + 1) = (1..Len(controls)) \cup {Len(controls) + 1}
    BY <1>1
  <2>3. ASSUME NEW i \in 1..Len(controls)
        PROVE  controls'[i].action \in ks /\ controls'[i].expiresAt > now
                 <=> controls[i].action \in ks \ kinds /\ controls[i].expiresAt > now
    BY <1>1, <1>3, <1>4
  <2> QED
    BY <1>2, <2>1, <2>2, <2>3 DEF Spared
<1>7. LastWordHolds' <=> IF by = "operator" THEN action # "resume" ELSE LastWordHolds
  <2>0. 1..Len(controls') = (1..Len(controls)) \cup {Len(controls) + 1}
    BY <1>1
  <2>1. CASE by = "operator"
    <3>1. ASSUME LastWordHolds' PROVE action # "resume"
      <4>1. PICK i \in 1..Len(controls') :
              /\ controls'[i].action # "resume"
              /\ \A j \in 1..Len(controls') : controls'[j].by = "operator" => j <= i
        BY <3>1 DEF LastWordHolds
      <4>2. Len(controls) + 1 <= i /\ i <= Len(controls) + 1
        BY <1>1, <1>2, <2>0, <2>1, <4>1
      <4>3. i = Len(controls) + 1
        BY <1>1, <4>2
      <4> QED
        BY <1>2, <4>1, <4>3
    <3>2. ASSUME action # "resume" PROVE LastWordHolds'
      BY <1>1, <1>2, <2>0, <2>1, <3>2 DEF LastWordHolds
    <3> QED
      BY <2>1, <3>1, <3>2
  <2>2. CASE by # "operator"
    <3>1. LastWordHolds' => LastWordHolds
      BY <1>2, <1>3, <2>0, <2>2 DEF LastWordHolds
    <3>2. LastWordHolds => LastWordHolds'
      BY <1>2, <1>3, <2>0, <2>2 DEF LastWordHolds
    <3> QED
      BY <2>2, <3>1, <3>2
  <2> QED
    BY <2>1, <2>2
<1> QED
  BY <1>5, <1>6, <1>7

LEMMA RowsRetired ==
  ASSUME ControlTypeOK, RowsInOrder, UNCHANGED now, NEW kinds \in SUBSET Actions,
         controls' = Retired(kinds)
  PROVE  /\ RowsInOrder'
         /\ \A ks \in SUBSET Actions : Standing(ks)' <=> Spared(ks, kinds)
         /\ LastWordHolds' <=> LastWordHolds
<1>1. /\ Len(controls) \in Nat /\ DOMAIN controls' = 1..Len(controls')
      /\ Len(controls') = Len(controls)
      /\ now \in Nat /\ Never \in Nat /\ Never > now
  BY RetiredRows, RowFacts
<1>2. ASSUME NEW i \in 1..Len(controls)
      PROVE  /\ controls'[i].action = controls[i].action /\ controls'[i].by = controls[i].by
             /\ controls'[i].at = controls[i].at
             /\ controls'[i].expiresAt =
                  IF controls[i].action \in kinds /\ controls[i].expiresAt > now
                  THEN now ELSE controls[i].expiresAt
  BY RetiredRows
<1>3. \A i \in 1..Len(controls) : controls[i].expiresAt \in Int /\ controls[i].at \in Int
  BY RowFacts
<1>4. RowsInOrder'
  <2>1. ASSUME NEW i \in 1..Len(controls), controls[i].action # "resume"
        PROVE  controls'[i].expiresAt = Never \/ controls'[i].expiresAt <= now
    BY <1>1, <1>2, <1>3, <2>1 DEF RowsInOrder
  <2>2. \A i \in 1..Len(controls) :
          /\ controls'[i].at <= now
          /\ \A j \in 1..Len(controls) : i <= j => controls'[i].at <= controls'[j].at
    BY <1>2 DEF RowsInOrder
  <2>3. Never' = Never /\ Len(controls') = Len(controls) /\ now' = now
    BY <1>1 DEF Never
  <2> QED
    BY <1>2, <2>1, <2>2, <2>3 DEF RowsInOrder
<1>5. ASSUME NEW ks \in SUBSET Actions PROVE Standing(ks)' <=> Spared(ks, kinds)
  <2>1. ASSUME NEW i \in 1..Len(controls)
        PROVE  controls'[i].action \in ks /\ controls'[i].expiresAt > now
                 <=> controls[i].action \in ks \ kinds /\ controls[i].expiresAt > now
    BY <1>1, <1>2, <1>3
  <2>2. Standing(ks)' <=> \E i \in 1..Len(controls) :
                            controls'[i].action \in ks /\ controls'[i].expiresAt > now
    BY <1>1 DEF Standing, Unexpired
  <2> QED
    BY <2>1, <2>2 DEF Spared
<1>6. LastWordHolds' <=> LastWordHolds
  BY <1>1, <1>2 DEF LastWordHolds
<1> QED
  BY <1>4, <1>5, <1>6

LEMMA ControlType == ControlTypeOK /\ ControlNext => ControlTypeOK'
<1> SUFFICES ASSUME ControlTypeOK, ControlNext PROVE ControlTypeOK'
  OBVIOUS
<1> USE AgentControlAssumption
<1>0. reply.served \in SUBSET (1..Len(controls)) /\ Len(controls) \in Nat
  BY RowFacts DEF ControlTypeOK
<1>1. ASSUME NEW kinds \in SUBSET Actions, NEW action \in Actions, NEW by \in {"operator", "system"},
             controls' = Append(Retired(kinds), Control(action, by)) \/ controls' = Retired(kinds)
      PROVE  controls' \in Seq(ControlRow) /\ (UNCHANGED reply => reply'.served \in SUBSET DOMAIN controls')
  <2>1. controls' \in Seq(ControlRow) /\ Len(controls') >= Len(controls) /\ Len(controls') \in Nat
    <3>1. CASE controls' = Append(Retired(kinds), Control(action, by))
      BY <1>0, <3>1, TableAfter
    <3>2. CASE controls' = Retired(kinds)
      BY <1>0, <3>2, RetiredRows
    <3> QED
      BY <1>1, <3>1, <3>2
  <2>2. DOMAIN controls' = 1..Len(controls')
    BY <2>1
  <2> QED
    BY <1>0, <2>1, <2>2
<1>2. Retired({}) = controls
  BY RetireNone
<1>3. reply \in [busy : BOOLEAN, served : SUBSET DOMAIN controls, status : Active \cup Held]
  BY DEF ControlTypeOK
<1>4. UNCHANGED reply /\ reply'.served \in SUBSET DOMAIN controls'
        => reply' \in [busy : BOOLEAN, served : SUBSET DOMAIN controls', status : Active \cup Held]
  BY <1>3
<1>5. ASSUME NEW action \in Actions, controlAgent(action) PROVE ControlTypeOK'
  <2>1. \E kinds \in SUBSET Actions : controls' = Append(Retired(kinds), Control(action, "operator"))
    BY <1>2, <1>5 DEF controlAgent, Actions
  <2>2. UNCHANGED <<now, lastSeen, strikes, paused, reply, obeyed>>
    BY <1>5 DEF controlAgent, adapterVars
  <2>3. agentStatus' \in Active \cup Held /\ reason' \in Reasons
    BY <1>5 DEF controlAgent, StatusAfter, Active, Held, Reasons
  <2> QED
    BY <1>1, <1>4, <2>1, <2>2, <2>3 DEF ControlTypeOK
<1>6. CASE insertHeartbeat
  <2>1. \E kinds \in SUBSET Actions : controls' = Retired(kinds)
    BY <1>2, <1>6 DEF insertHeartbeat, Actions
  <2>2. UNCHANGED <<now, strikes, paused, reply, obeyed>> /\ lastSeen' = now
    BY <1>6 DEF insertHeartbeat, adapterVars
  <2>3. agentStatus' \in Active \cup Held /\ reason' \in Reasons
    BY <1>6 DEF insertHeartbeat, Active, Held, Reasons, ControlTypeOK
  <2>4. "resume" \in Actions
    BY DEF Actions
  <2> QED
    BY <1>1, <1>4, <2>1, <2>2, <2>3, <2>4 DEF ControlTypeOK
<1>7. CASE sweepHeartbeatLiveness
  <2>1. controls' = Append(Retired({}), Control("quarantine", "system")) /\ "quarantine" \in Actions
    BY <1>2, <1>7 DEF sweepHeartbeatLiveness, Actions
  <2>2. UNCHANGED <<now, lastSeen, strikes, paused, reply, obeyed>>
    BY <1>7 DEF sweepHeartbeatLiveness, adapterVars
  <2>3. agentStatus' \in Active \cup Held /\ reason' \in Reasons
    BY <1>7 DEF sweepHeartbeatLiveness, Held, Reasons
  <2> QED
    BY <1>1, <1>4, <2>1, <2>2, <2>3 DEF ControlTypeOK
<1>8. CASE checkRateLimitQuarantine
  <2>1. /\ \/ controls' = Append(Retired({}), Control("quarantine", "system"))
           \/ controls' = Retired({})
        /\ "quarantine" \in Actions
    BY <1>2, <1>8 DEF checkRateLimitQuarantine, Actions
  <2>2. UNCHANGED <<now, lastSeen, paused, reply, obeyed>> /\ strikes' \in Seq(0..MaxTime)
    BY <1>8 DEF checkRateLimitQuarantine, adapterVars, ControlTypeOK
  <2>3. agentStatus' \in Active \cup Held /\ reason' \in Reasons
    BY <1>8 DEF checkRateLimitQuarantine, Held, Reasons, ControlTypeOK
  <2> QED
    BY <1>1, <1>4, <2>1, <2>2, <2>3 DEF ControlTypeOK
<1>9. CASE pollInbox \/ pollLost \/ handleControls \/ adapterRestart
  <2>1. UNCHANGED <<now, agentStatus, reason, lastSeen, controls, strikes>>
    BY <1>9 DEF pollInbox, pollLost, handleControls, adapterRestart, relayVars
  <2>2. reply' \in [busy : BOOLEAN, served : SUBSET DOMAIN controls, status : Active \cup Held]
    <3>1. NoReply \in [busy : BOOLEAN, served : SUBSET DOMAIN controls, status : Active \cup Held]
      BY DEF NoReply, Active
    <3>2. ServedControls \in SUBSET DOMAIN controls /\ agentStatus \in Active \cup Held
      BY DEF ServedControls, ControlTypeOK
    <3>3. CASE pollInbox
      <4>1. reply' = [busy |-> TRUE, served |-> ServedControls, status |-> agentStatus]
        BY <3>3 DEF pollInbox
      <4> HIDE DEF ServedControls
      <4> QED
        BY <3>2, <4>1
    <3>4. CASE pollLost \/ handleControls \/ adapterRestart
      <4>1. reply' = NoReply
        BY <3>4 DEF pollLost, handleControls, adapterRestart
      <4> QED
        BY <3>1, <4>1
    <3> QED
      BY <1>9, <3>3, <3>4
  <2>3. paused' \in BOOLEAN /\ obeyed' \in Active \cup Held
    BY <1>9
    DEF pollInbox, pollLost, handleControls, adapterRestart, AfterControls, ControlTypeOK, Active
  <2> QED
    BY <2>1, <2>2, <2>3 DEF ControlTypeOK
<1>10. CASE ControlTick
  BY <1>10 DEF ControlTick, Tick, relayVars, adapterVars, ControlTypeOK
<1> QED
  BY <1>5, <1>6, <1>7, <1>8, <1>9, <1>10 DEF ControlNext

\* Retiring pause and quarantine rows leaves none of them live; retiring quarantine
\* rows leaves the live pause rows, and retiring nothing leaves everything.
LEMMA SparedKinds ==
  ASSUME ControlTypeOK
  PROVE  /\ ~Spared({"pause", "quarantine"}, {"pause", "quarantine"})
         /\ Spared({"pause", "quarantine"}, {"quarantine"}) => Standing({"pause"})
         /\ \A ks \in SUBSET Actions : Spared(ks, {}) <=> Standing(ks)
  BY RowFacts DEF Spared, Standing, Unexpired

LEMMA ControlInvStep == ControlInv /\ ControlNext => ControlInv'
<1> SUFFICES ASSUME ControlInv, ControlNext PROVE ControlInv'
  OBVIOUS
<1>0. ControlTypeOK /\ ControlTypeOK' /\ Retired({}) = controls /\ RowsInOrder
  BY ControlType, RetireNone DEF ControlInv
<1> USE DEF Held, Active, Actions
<1>1. ASSUME NEW action \in Actions, controlAgent(action) PROVE ControlInv'
  <2>1. PICK kinds \in SUBSET Actions :
          /\ controls' = Append(Retired(kinds), Control(action, "operator"))
          /\ kinds = IF action = "resume" THEN {"pause", "quarantine"} ELSE {}
    BY <1>0, <1>1 DEF controlAgent
  <2>2. /\ RowsInOrder'
        /\ \A ks \in SUBSET Actions : Standing(ks)' <=> action \in ks \/ Spared(ks, kinds)
        /\ LastWordHolds' <=> action # "resume"
    BY <1>0, <1>1, <2>1, RowsAdded DEF controlAgent
  <2>3. agentStatus' = StatusAfter(action) /\ reason' # "heartbeat_timeout"
    BY <1>1 DEF controlAgent
  <2>4. StatusAnnounced' /\ (LastWordHolds' => agentStatus' \in Held)
    BY <1>0, <2>1, <2>2, <2>3, SparedKinds DEF StatusAnnounced, StatusAfter
  <2> QED
    BY <1>0, <2>2, <2>3, <2>4 DEF ControlInv, SilenceAlone
<1>2. CASE insertHeartbeat /\ agentStatus = "quarantined"
  <2>1. /\ reason = "heartbeat_timeout" /\ agentStatus' \in Active /\ reason' = "none"
        /\ controls' = Retired({"quarantine"}) /\ UNCHANGED now
    BY <1>2 DEF insertHeartbeat
  <2>2. /\ RowsInOrder'
        /\ \A ks \in SUBSET Actions : Standing(ks)' <=> Spared(ks, {"quarantine"})
        /\ LastWordHolds' <=> LastWordHolds
    BY <1>0, <2>1, RowsRetired
  <2>3. ~Standing({"pause", "quarantine"})'
    BY <1>0, <2>1, <2>2, SparedKinds DEF ControlInv, SilenceAlone
  <2> QED
    BY <1>0, <2>1, <2>2, <2>3 DEF ControlInv, SilenceAlone, StatusAnnounced
<1>3. CASE insertHeartbeat /\ agentStatus # "quarantined"
  <2>1. /\ agentStatus \in Active /\ agentStatus' \in Active /\ reason' = reason
        /\ controls' = controls /\ UNCHANGED now
    BY <1>0, <1>3 DEF insertHeartbeat, ControlTypeOK
  <2>2. /\ RowsInOrder' <=> RowsInOrder
        /\ LastWordHolds' <=> LastWordHolds
        /\ \A ks \in SUBSET Actions : Standing(ks)' <=> Standing(ks)
    BY <2>1 DEF RowsInOrder, LastWordHolds, Standing, Unexpired
  <2> QED
    BY <1>0, <2>1, <2>2 DEF ControlInv, SilenceAlone, StatusAnnounced
<1>4. CASE sweepHeartbeatLiveness
  <2>1. /\ agentStatus \in Active /\ agentStatus' = "quarantined" /\ UNCHANGED now
        /\ controls' = Append(Retired({}), Control("quarantine", "system"))
    BY <1>0, <1>4 DEF sweepHeartbeatLiveness
  <2>2. /\ RowsInOrder'
        /\ \A ks \in SUBSET Actions : Standing(ks)' <=> "quarantine" \in ks \/ Spared(ks, {})
        /\ LastWordHolds' <=> LastWordHolds
    BY <1>0, <2>1, RowsAdded
  <2>3. ~Standing({"pause"})
    BY <2>1 DEF ControlInv, StatusAnnounced, Standing
  <2>4. ~Standing({"pause"})' /\ Standing({"quarantine"})' /\ ~LastWordHolds'
    BY <1>0, <2>1, <2>2, <2>3, SparedKinds DEF ControlInv
  <2> QED
    BY <1>0, <2>1, <2>2, <2>4 DEF ControlInv, SilenceAlone, StatusAnnounced
<1>5. CASE checkRateLimitQuarantine
  <2>1. agentStatus \in Active /\ UNCHANGED now
    BY <1>0, <1>5 DEF checkRateLimitQuarantine, ControlTypeOK
  <2>2. CASE UNCHANGED <<agentStatus, reason, controls>>
    <3>1. /\ RowsInOrder' <=> RowsInOrder
          /\ LastWordHolds' <=> LastWordHolds
          /\ \A ks \in SUBSET Actions : Standing(ks)' <=> Standing(ks)
      BY <2>1, <2>2 DEF RowsInOrder, LastWordHolds, Standing, Unexpired
    <3> QED
      BY <1>0, <2>2, <3>1 DEF ControlInv, SilenceAlone, StatusAnnounced
  <2>3. CASE /\ agentStatus' = "quarantined" /\ reason' = "rate_limit_abuse"
             /\ controls' = Append(Retired({}), Control("quarantine", "system"))
    <3>1. /\ RowsInOrder'
          /\ \A ks \in SUBSET Actions : Standing(ks)' <=> "quarantine" \in ks \/ Spared(ks, {})
      BY <1>0, <2>1, <2>3, RowsAdded
    <3> QED
      BY <1>0, <2>3, <3>1 DEF ControlInv, SilenceAlone, StatusAnnounced
  <2> QED
    BY <1>0, <1>5, <2>2, <2>3 DEF checkRateLimitQuarantine
<1>6. CASE pollInbox \/ pollLost \/ handleControls \/ adapterRestart
  <2>1. UNCHANGED <<now, agentStatus, reason, controls>>
    BY <1>6 DEF pollInbox, pollLost, handleControls, adapterRestart, relayVars
  <2>2. /\ RowsInOrder' <=> RowsInOrder
        /\ LastWordHolds' <=> LastWordHolds
        /\ \A ks \in SUBSET Actions : Standing(ks)' <=> Standing(ks)
    BY <2>1 DEF RowsInOrder, LastWordHolds, Standing, Unexpired
  <2> QED
    BY <1>0, <2>1, <2>2 DEF ControlInv, SilenceAlone, StatusAnnounced
<1>7. CASE ControlTick
  <2>1. now' = now + 1 /\ UNCHANGED <<agentStatus, reason, controls>> /\ now' \in Nat /\ Never > now'
    BY <1>0, <1>7, RowFacts, AgentControlAssumption DEF ControlTick, Tick, relayVars, Never
  <2>2. RowsInOrder'
    BY <1>0, <2>1, RowFacts DEF RowsInOrder, Never
  <2>3. LastWordHolds' <=> LastWordHolds
    BY <2>1 DEF LastWordHolds
  <2>4. ASSUME NEW ks \in SUBSET {"pause", "quarantine"} PROVE Standing(ks)' <=> Standing(ks)
    <3>1. \A i \in DOMAIN controls : controls[i].action \in ks =>
            (controls[i].expiresAt > now' <=> controls[i].expiresAt > now)
      BY <1>0, <2>1, RowFacts DEF RowsInOrder
    <3> QED
      BY <2>1, <3>1 DEF Standing, Unexpired
  <2> QED
    BY <1>0, <2>1, <2>2, <2>3, <2>4 DEF ControlInv, SilenceAlone, StatusAnnounced
<1> QED
  BY <1>1, <1>2, <1>3, <1>4, <1>5, <1>6, <1>7 DEF ControlNext

\* A non-empty set of numbers up to n has a greatest one: the sets of what is above
\* each of them have a least one, strict inclusion being well-founded.
LEMMA GreatestOf ==
  ASSUME NEW n \in Nat, NEW S \in SUBSET (1..n), S # {}
  PROVE  \E m \in S : \A k \in S : k <= m
<1>1. PICK Above \in SUBSET SUBSET (1..n) : Above = {{k \in 1..n : k >= m} : m \in S}
  OBVIOUS
<1>2. Above # {}
  BY <1>1
<1>3. IsFiniteSet(1..n)
  BY FS_Interval
<1>4. Above \subseteq FiniteSubsetsOf(1..n)
  BY <1>3, FS_FiniteSubsetsOfFinite
<1>5. IsWellFoundedOn(StrictSubsetOrdering(1..n), FiniteSubsetsOf(1..n))
  BY FS_StrictSubsetOrderingWellFounded
<1>6. PICK x \in Above : \A y \in Above : <<y, x>> \notin StrictSubsetOrdering(1..n)
  BY <1>2, <1>4, <1>5, WFMin
<1>7. PICK m \in S : x = {k \in 1..n : k >= m}
  BY <1>1
<1>8. ASSUME NEW k \in S, k > m PROVE FALSE
  <2>1. PICK y \in Above : y = {j \in 1..n : j >= k}
    BY <1>1
  <2>2. y \subseteq x /\ m \in x /\ m \notin y
    BY <1>7, <1>8, <2>1
  <2>3. <<y, x>> \in StrictSubsetOrdering(1..n)
    BY <1>1, <2>2 DEF StrictSubsetOrdering
  <2> QED
    BY <1>6, <2>3
<1> QED
  BY <1>8

LEMMA DivBound ==
  ASSUME NEW x \in Int, NEW h \in Nat \ {0}, NEW l \in Nat, x \div h >= l
  PROVE  x >= h * l
  OBVIOUS

\* To the control plane the composition is the clock and the control plane.
LEMMA ControlRuns == ServicesSpec => ControlSpec
<1>1. ServicesInit => ControlInit
  BY DEF ServicesInit
<1>2. [ServicesNext]_services => [ControlNext]_controlVars
  BY Frames DEF ControlNext, ControlTick, controlVars, relayVars, adapterVars
<1> QED
  BY <1>1, <1>2, PTL DEF ServicesSpec, ControlSpec, services

LEMMA ControlInvHolds == ControlSpec => []ControlInv
<1>1. ASSUME ControlInit PROVE ControlInv
  <2>1. Len(controls) = 0 /\ DOMAIN controls = {} /\ 1..Len(controls) = {}
    BY <1>1 DEF ControlInit
  <2>2. ControlTypeOK
    <3>1. reply \in [busy : BOOLEAN, served : SUBSET DOMAIN controls, status : Active \cup Held]
      BY <1>1 DEF ControlInit, NoReply, Active
    <3>2. controls \in Seq(ControlRow) /\ strikes \in Seq(0..MaxTime)
      BY <1>1 DEF ControlInit
    <3>3. paused \in BOOLEAN
      BY <1>1 DEF ControlInit
    <3>4. /\ now \in 0..MaxTime /\ agentStatus \in Active \cup Held /\ reason \in Reasons
          /\ lastSeen \in {NoTime} \cup 0..MaxTime /\ obeyed \in Active \cup Held
      BY <1>1, AgentControlAssumption DEF ControlInit, Active, Held, Reasons
    <3> QED
      BY <3>1, <3>2, <3>3, <3>4 DEF ControlTypeOK
  <2> QED
    BY <1>1, <2>1, <2>2
    DEF ControlInit, ControlInv, RowsInOrder, SilenceAlone, StatusAnnounced, Standing, LastWordHolds,
        Active, Held
<1>2. ControlInv /\ UNCHANGED controlVars => ControlInv'
  BY DEF ControlInv, ControlTypeOK, RowsInOrder, SilenceAlone, StatusAnnounced, Standing,
         LastWordHolds, Unexpired, controlVars
<1> QED
  BY <1>1, <1>2, ControlInvStep, PTL DEF ControlSpec

\* Status and served controls stay in step and automation never overrules an
\* operator, for any timeouts, thresholds and number of controls.
THEOREM ControlStaysSound == ServicesSpec => []ControlSound
<1>1. ASSUME ControlInv PROVE ControlSound
  <2>1. ControlTypeOK /\ DOMAIN controls = 1..Len(controls)
    BY <1>1, RowFacts DEF ControlInv
  <2>2. OperatorHoldStands
    BY <1>1, <2>1 DEF ControlInv, OperatorHoldStands, LastWordHolds
  <2> QED
    BY <1>1, <2>2 DEF ControlInv, ControlSound
<1> QED
  BY <1>1, ControlRuns, ControlInvHolds, PTL

\* The sweep looks at the newest resume among those young enough to matter; the
\* rows it skips are older than the window.
LEMMA SweepLooksBack ==
  ASSUME ControlInv, agentStatus \in Active, sweepHeartbeatLiveness
  PROVE  /\ now - lastSeen >= HeartbeatTimeout * LivenessThreshold
         /\ \A i \in DOMAIN controls :
              controls[i].action = "resume"
                => now - controls[i].at >= HeartbeatTimeout * LivenessThreshold
<1> DEFINE window == HeartbeatTimeout * LivenessThreshold
           anchors == {i \in DOMAIN controls :
                         /\ controls[i].action = "resume"
                         /\ Unexpired(controls[i]) \/ controls[i].at > now - window}
           lastSign == IF lastSeen < ResumedAt THEN ResumedAt ELSE lastSeen
<1>0. /\ ControlTypeOK /\ RowsInOrder
      /\ HeartbeatTimeout \in Nat \ {0} /\ LivenessThreshold \in Nat /\ window \in Int
  BY AgentControlAssumption DEF ControlInv
<1>1. /\ Len(controls) \in Nat /\ DOMAIN controls = 1..Len(controls) /\ now \in Nat
      /\ \A i \in 1..Len(controls) : controls[i].at \in Int
  BY <1>0, RowFacts
<1>2. lastSeen \in Int
  BY <1>0, AgentControlAssumption DEF ControlTypeOK, NoTime
<1>3. ResumedAt \in Int /\ \A i \in anchors : controls[i].at <= ResumedAt
  <2>1. CASE anchors = {}
    BY <2>1 DEF ResumedAt, NoTime
  <2>2. CASE anchors # {}
    <3>1. PICK S \in SUBSET (1..Len(controls)) : S = anchors
      BY <1>1
    <3>2. PICK m \in S : \A k \in S : k <= m
      BY <1>1, <2>2, <3>1, GreatestOf
    <3>3. ResumedAt = controls[CHOOSE i \in S : \A j \in S : j <= i].at
      BY <2>2, <3>1 DEF ResumedAt
    <3>4. PICK n \in S : n = CHOOSE i \in S : \A j \in S : j <= i
      BY <3>2
    <3>5. \A j \in S : j <= n
      BY <3>2, <3>4
    <3> HIDE DEF anchors
    <3> QED
      BY <1>0, <1>1, <3>1, <3>3, <3>4, <3>5 DEF RowsInOrder
  <2> HIDE DEF anchors
  <2> QED
    BY <2>1, <2>2
<1>4. lastSign \in Int /\ lastSign >= lastSeen /\ lastSign >= ResumedAt
  BY <1>2, <1>3
<1>5. (now - lastSign) \div HeartbeatTimeout >= LivenessThreshold
  BY DEF sweepHeartbeatLiveness, Missed
<1>6. now - lastSign >= window
  <2>1. PICK x \in Int : x = now - lastSign
    BY <1>1, <1>4
  <2> QED
    BY <1>0, <1>5, <2>1, DivBound
<1>7. now - lastSeen >= window
  BY <1>0, <1>1, <1>2, <1>4, <1>6
<1>8. ASSUME NEW i \in DOMAIN controls, controls[i].action = "resume"
      PROVE  now - controls[i].at >= window
  <2>1. CASE i \in anchors
    <3>1. controls[i].at <= ResumedAt
      BY <1>3, <2>1
    <3> HIDE DEF anchors, lastSign, window
    <3> QED
      BY <1>0, <1>1, <1>3, <1>4, <1>6, <3>1
  <2>2. CASE i \notin anchors
    <3>1. ~(controls[i].at > now - window)
      BY <1>8, <2>2
    <3> HIDE DEF anchors, lastSign, window
    <3> QED
      BY <1>0, <1>1, <3>1
  <2> QED
    BY <2>1, <2>2
<1> QED
  BY <1>7, <1>8

\* A resume or a heartbeat buys a whole liveness window, for every length of it
\* and however long a resume is served.
THEOREM GraceAfterResume == ServicesSpec => ResumeGrace
<1>1. ASSUME ControlInv, [ControlNext]_controlVars
      PROVE  [/\ agentStatus \in Active /\ reason' = "heartbeat_timeout"
              => /\ now - lastSeen >= HeartbeatTimeout * LivenessThreshold
                 /\ \A i \in DOMAIN controls :
                      controls[i].action = "resume"
                        => now - controls[i].at >= HeartbeatTimeout * LivenessThreshold]_controlVars
  <2>1. agentStatus \in Active => reason # "heartbeat_timeout"
    BY <1>1 DEF ControlInv, SilenceAlone, Active
  <2>2. ASSUME agentStatus \in Active, reason' = "heartbeat_timeout", ControlNext
        PROVE  sweepHeartbeatLiveness
    BY <2>1, <2>2
    DEF ControlNext, controlAgent, insertHeartbeat, checkRateLimitQuarantine, pollInbox, pollLost,
        handleControls, adapterRestart, ControlTick, relayVars
  <2> QED
    BY <1>1, <2>2, SweepLooksBack
<1> QED
  BY <1>1, ControlRuns, ControlInvHolds, PTL DEF ControlSpec, ResumeGrace

-----------------------------------------------------------------------------
(* The rate limit *)

LEMMA NoFraction ==
  ASSUME NEW h \in Nat \ {0}, NEW d \in Int, h * d < h, h * d > 0 - h
  PROVE  d = 0
  OBVIOUS

\* The windows of the relay's clock do not overlap.
LEMMA WindowOf ==
  ASSUME NEW h \in Nat \ {0}, NEW t \in Nat
  PROVE  /\ t - (t % h) \in Nat /\ (t - (t % h)) % h = 0
         /\ t - (t % h) <= t /\ t <= t - (t % h) + h - 1
         /\ \A w \in Nat : w % h = 0 /\ w <= t /\ t <= w + h - 1 => w = t - (t % h)
<1>1. t = h * (t \div h) + (t % h) /\ t % h \in 0..(h - 1) /\ t \div h \in Nat
  OBVIOUS
<1>2. t - (t % h) = h * (t \div h) /\ t - (t % h) \in Nat
  BY <1>1
<1>3. (h * (t \div h)) % h = 0
  BY <1>1
<1>4. ASSUME NEW w \in Nat, w % h = 0, w <= t, t <= w + h - 1 PROVE w = t - (t % h)
  <2>1. PICK q \in Nat : w = h * q
    BY <1>4
  <2>2. PICK p \in Nat : t - (t % h) = h * p
    BY <1>1, <1>2
  <2>3. p - q \in Int /\ h * (p - q) = (t - w) - (t % h)
    BY <1>1, <2>1, <2>2
  <2>4. h * (p - q) < h /\ h * (p - q) > 0 - h
    BY <1>1, <1>4, <2>3
  <2>5. p - q = 0
    BY <2>3, <2>4, NoFraction
  <2>6. p = q
    BY <2>5
  <2> QED
    BY <2>1, <2>2, <2>6
<1> QED
  BY <1>1, <1>2, <1>3, <1>4

Spent(a, w) == Counted(a, w..(w + Window - 1))

\* A request that was not made yet was not counted; a window that the sweep leaves
\* alone holds the number of the requests that were, and it is never above the limit.
GateInv ==
  /\ TaskTypes
  /\ counter \in [Senders -> [WindowStarts -> Nat]]
  /\ \A s \in Sends : flight[s].at <= now /\ (flight[s].st = "idle" => flight[s].at = -1)
  /\ \A a \in Senders, w \in WindowStarts :
       /\ ~Sweepable(w) => counter[a][w] = Cardinality(Spent(a, w))
       /\ Cardinality(Spent(a, w)) <= Limit

LEMMA CountedFinite ==
  \A a, T : IsFiniteSet(Counted(a, T)) /\ Cardinality(Counted(a, T)) \in Nat
<1> TAKE a, T
<1>1. Counted(a, T) \in SUBSET Sends
  BY DEF Counted
<1> HIDE DEF Counted
<1>2. IsFiniteSet(Counted(a, T))
  BY <1>1, MessageGateAssumption, FS_Subset
<1> QED
  BY <1>2, FS_CardinalityType

\* The window of the present instant.
LEMMA ThisWindow ==
  ASSUME Clock
  PROVE  /\ windowStart \in WindowStarts /\ ~Sweepable(windowStart)
         /\ now \in windowStart..(windowStart + Window - 1)
         /\ \A w \in WindowStarts : now \in w..(w + Window - 1) => w = windowStart
<1>1. now \in Nat /\ now <= MaxTime /\ MaxTime \in Nat /\ Window \in Nat \ {0}
  BY ReplayAssumption, MessageGateAssumption DEF Clock
<1>2. /\ windowStart \in Nat /\ windowStart % Window = 0
      /\ windowStart <= now /\ now <= windowStart + Window - 1
      /\ \A w \in Nat : w % Window = 0 /\ w <= now /\ now <= w + Window - 1 => w = windowStart
  BY <1>1, WindowOf DEF windowStart
<1> HIDE DEF windowStart
<1>3. windowStart \in WindowStarts
  BY <1>1, <1>2 DEF WindowStarts
<1>4. ~Sweepable(windowStart)
  BY <1>1, <1>2 DEF Sweepable
<1>5. now \in windowStart..(windowStart + Window - 1)
  BY <1>1, <1>2
<1>6. ASSUME NEW w \in WindowStarts, now \in w..(w + Window - 1) PROVE w = windowStart
  <2>1. w \in Nat /\ w % Window = 0
    BY <1>1 DEF WindowStarts
  <2>2. w <= now /\ now <= w + Window - 1
    BY <1>1, <1>6, <2>1
  <2> QED
    BY <1>2, <2>1, <2>2
<1> QED
  BY <1>3, <1>4, <1>5, <1>6

\* A step that neither makes a request nor sweeps.
LEMMA GateStands ==
  ASSUME GateInv, TaskTypes', now' >= now, now \in Nat, now' \in Nat,
         counter' \in [Senders -> [WindowStarts -> Nat]],
         \A a \in Senders, w \in WindowStarts : ~Sweepable(w) => counter'[a][w] = counter[a][w],
         \A s \in Sends : /\ flight'[s].by = flight[s].by /\ flight'[s].at = flight[s].at
                          /\ flight'[s].st = "idle" => flight[s].st = "idle"
  PROVE  GateInv'
<1>1. \A a, T : Counted(a, T)' = Counted(a, T)
  BY DEF Counted
<1>2. \A a \in Senders, w \in WindowStarts : Spent(a, w)' = Spent(a, w)
  BY <1>1 DEF Spent
<1>3. ASSUME NEW w \in WindowStarts, Sweepable(w) PROVE Sweepable(w)'
  <2>1. Window \in Nat /\ w \in Nat
    BY ReplayAssumption, MessageGateAssumption DEF WindowStarts
  <2>2. PICK d \in Int : d = 2 * Window
    BY <2>1
  <2>3. w < now - d
    BY <1>3, <2>2 DEF Sweepable
  <2>4. w < now' - d
    BY <2>1, <2>2, <2>3
  <2> QED
    BY <2>2, <2>4 DEF Sweepable
<1>4. \A s \in Sends : flight'[s].at <= now' /\ (flight'[s].st = "idle" => flight'[s].at = -1)
  <2>1. \A s \in Sends : flight[s].at \in Int
    BY DEF GateInv, TaskTypes, Request
  <2> QED
    BY <2>1 DEF GateInv
<1>5. WindowStarts' = WindowStarts
  BY DEF WindowStarts
<1> QED
  BY <1>2, <1>3, <1>4, <1>5 DEF GateInv

LEMMA RequestMade ==
  ASSUME GateInv, TaskTypes', UNCHANGED now, NEW s \in Sends, NEW a \in Senders,
         NEW to \in Senders \cup {Nobody}, NEW t \in Tasks \cup {0, Plain}, gateEntered(s, a, to, t)
  PROVE  GateInv'
<1>0. /\ now \in Nat /\ flight[s].at = -1 /\ flight \in [Sends -> Request]
      /\ flight' \in [Sends -> Request]
  BY ReplayAssumption DEF GateInv, TaskTypes, Clock, gateEntered
<1>1. ASSUME NEW r \in Sends, r # s PROVE flight'[r] = flight[r]
  BY <1>0, <1>1 DEF gateEntered
<1>2. CASE status[a] # "held" /\ UnderLimit(a)
  <2>1. /\ flight'[s].by = a /\ flight'[s].at = now /\ flight'[s].st # "idle"
        /\ counter' = [counter EXCEPT ![a][windowStart] = @ + 1]
    BY <1>0, <1>2 DEF gateEntered
  <2>2. /\ windowStart \in WindowStarts /\ ~Sweepable(windowStart)
        /\ now \in windowStart..(windowStart + Window - 1)
        /\ \A w \in WindowStarts : now \in w..(w + Window - 1) => w = windowStart
    BY ThisWindow DEF GateInv, TaskTypes
  <2>3. /\ counter \in [Senders -> [WindowStarts -> Nat]]
        /\ counter[a][windowStart] < Limit /\ counter[a][windowStart] \in Nat
    BY <1>2, <2>2 DEF UnderLimit, GateInv
  <2>4. counter' \in [Senders -> [WindowStarts -> Nat]]
    BY <2>1, <2>2, <2>3
  <2>5. ASSUME NEW b \in Senders, NEW w \in WindowStarts
        PROVE  IF b = a /\ w = windowStart
               THEN counter'[b][w] = counter[a][windowStart] + 1 ELSE counter'[b][w] = counter[b][w]
    BY <2>1, <2>2, <2>3
  <2>6. s \notin Spent(a, windowStart)
    BY <1>0, <2>2 DEF Spent, Counted, WindowStarts
  <2>7. ASSUME NEW w \in WindowStarts, w = windowStart
        PROVE  Spent(a, w)' = Spent(a, w) \cup {s}
    BY <1>1, <2>1, <2>2, <2>7 DEF Spent, Counted
  <2>8. ASSUME NEW w \in WindowStarts, w = windowStart
        PROVE  Cardinality(Spent(a, w)') = Cardinality(Spent(a, w)) + 1
    <3>1. PICK S : S = Spent(a, w)
      OBVIOUS
    <3>2. IsFiniteSet(S)
      BY <3>1, CountedFinite DEF Spent
    <3>3. Cardinality(S \cup {s}) = Cardinality(S) + 1
      BY <2>6, <2>8, <3>1, <3>2, FS_AddElement
    <3> QED
      BY <2>7, <2>8, <3>1, <3>3
  <2>9. ASSUME NEW b \in Senders, NEW w \in WindowStarts, ~(b = a /\ w = windowStart)
        PROVE  Spent(b, w)' = Spent(b, w)
    <3>1. ~(b = a /\ now \in w..(w + Window - 1))
      BY <2>2, <2>9
    <3>2. flight[s].at \notin w..(w + Window - 1)
      BY <1>0 DEF WindowStarts
    <3> QED
      BY <1>1, <2>1, <3>1, <3>2 DEF Spent, Counted
  <2>10. \A w \in WindowStarts : Sweepable(w)' <=> Sweepable(w)
    BY DEF Sweepable
  <2>11. ASSUME NEW b \in Senders, NEW w \in WindowStarts
         PROVE  /\ ~Sweepable(w)' => counter'[b][w] = Cardinality(Spent(b, w)')
                /\ Cardinality(Spent(b, w)') <= Limit
    <3>1. CASE b = a /\ w = windowStart
      <4>1. counter[a][w] = Cardinality(Spent(a, w))
        BY <2>2, <3>1 DEF GateInv
      <4> QED
        BY <2>3, <2>5, <2>8, <3>1, <4>1, MessageGateAssumption
    <3>2. CASE ~(b = a /\ w = windowStart)
      BY <2>5, <2>9, <2>10, <3>2 DEF GateInv
    <3> QED
      BY <3>1, <3>2
  <2>12. \A r \in Sends : flight'[r].at <= now' /\ (flight'[r].st = "idle" => flight'[r].at = -1)
    BY <1>0, <1>1, <2>1 DEF GateInv
  <2>13. WindowStarts' = WindowStarts
    BY DEF WindowStarts
  <2> QED
    BY <2>4, <2>11, <2>12, <2>13 DEF GateInv
<1>3. CASE ~(status[a] # "held" /\ UnderLimit(a))
  <2>1. /\ flight'[s].at = -1 /\ counter' = counter /\ flight'[s].by = a
    BY <1>0, <1>3 DEF gateEntered
  <2>2. \A b \in Senders, w \in WindowStarts : Spent(b, w)' = Spent(b, w)
    <3> TAKE b \in Senders, w \in WindowStarts
    <3>1. -1 \notin w..(w + Window - 1)
      BY DEF WindowStarts
    <3> QED
      BY <1>0, <1>1, <2>1, <3>1 DEF Spent, Counted
  <2>3. \A r \in Sends : flight'[r].at <= now' /\ (flight'[r].st = "idle" => flight'[r].at = -1)
    BY <1>0, <1>1, <2>1 DEF GateInv
  <2>4. WindowStarts' = WindowStarts /\ \A w \in WindowStarts : Sweepable(w)' <=> Sweepable(w)
    BY DEF WindowStarts, Sweepable
  <2> QED
    BY <2>1, <2>2, <2>3, <2>4 DEF GateInv
<1> QED
  BY <1>2, <1>3

LEMMA GateInvStep == GateInv /\ [ServicesNext]_services => GateInv'
<1> SUFFICES ASSUME GateInv, [ServicesNext]_services PROVE GateInv'
  OBVIOUS
<1>1. /\ TaskTypes /\ TaskTypes' /\ now \in Nat /\ now' \in Nat /\ now' >= now
      /\ flight \in [Sends -> Request] /\ counter \in [Senders -> [WindowStarts -> Nat]]
  BY TaskTypesStep, ClockStep DEF GateInv, TaskTypes
<1>2. CASE UNCHANGED <<counter, flight>>
  BY <1>1, <1>2, GateStands
<1>3. ASSUME NEW s \in Sends, NEW outcome \in {"stored", "refused"}, Resolve(s, outcome),
             UNCHANGED counter
      PROVE  GateInv'
  <2>1. \A r \in Sends : /\ flight'[r].by = flight[r].by /\ flight'[r].at = flight[r].at
                         /\ flight'[r].st = "idle" => flight[r].st = "idle"
    BY <1>1, <1>3 DEF Resolve, Request
  <2> QED
    BY <1>1, <1>3, <2>1, GateStands
<1>4. CASE sweepStaleRateLimitCounters
  <2>1. counter' \in [Senders -> [WindowStarts -> Nat]]
    BY <1>1, <1>4 DEF sweepStaleRateLimitCounters
  <2>2. \A a \in Senders, w \in WindowStarts : ~Sweepable(w) => counter'[a][w] = counter[a][w]
    BY <1>4 DEF sweepStaleRateLimitCounters
  <2>3. UNCHANGED flight
    BY <1>4 DEF sweepStaleRateLimitCounters
  <2> QED
    BY <1>1, <2>1, <2>2, <2>3, GateStands
<1>5. GateStep /\ UNCHANGED now => GateInv'
  <2>1. ASSUME NEW s \in Sends, extensionDenies(s) PROVE GateInv'
    BY <1>3, <2>1 DEF extensionDenies, Resolve, senderVars
  <2>2. ASSUME NEW s \in Sends, NEW outcome \in {"stored", "refused"}, postMessage(s, outcome)
        PROVE  GateInv'
    BY <1>3, <2>2 DEF postMessage, senderVars
  <2> QED
    BY <1>1, <1>4, <2>1, <2>2, RequestMade, A2ATasksAssumption DEF GateStep
<1>6. OperatorStep \/ StreamStep => GateInv'
  BY <1>2 DEF OperatorStep, StreamStep, controlSender, writePolicy, openSseStream, closeStream, senderVars
<1>7. TaskStep /\ UNCHANGED now => GateInv'
  <2>1. ASSUME NEW s \in Sends, NEW t \in Tasks, NEW stream \in BOOLEAN, sendContinues(s, t, stream)
        PROVE  GateInv'
    BY <1>3, <2>1 DEF sendContinues, senderVars
  <2>2. ASSUME NEW s \in Sends, NEW t \in Tasks, NEW isRoom \in BOOLEAN, NEW stream \in BOOLEAN,
               createTask(s, t, isRoom, stream)
        PROVE  GateInv'
    BY <1>3, <2>2 DEF createTask, senderVars
  <2>3. ASSUME NEW a \in Senders, NEW t \in Tasks, tasksCancel(a, t) PROVE GateInv'
    BY <1>2, <2>3 DEF tasksCancel, senderVars
  <2> QED
    BY <1>1, <2>1, <2>2, <2>3, RequestMade DEF TaskStep, sendBegins
<1> QED
  BY <1>2, <1>5, <1>6, <1>7, Frames DEF a2aVars, senderVars

\* Two windows of the clock cover any span as long as a window.
LEMMA SpanBounded ==
  ASSUME GateInv, NEW a \in Senders, NEW t \in 0..MaxTime
  PROVE  Cardinality(Counted(a, t..(t + Window - 1))) <= 2 * Limit
<1> DEFINE w == t - (t % Window)
<1>0. /\ MaxTime \in Nat /\ Window \in Nat \ {0} /\ Limit \in Nat /\ t \in Nat
      /\ now \in Nat /\ now <= MaxTime
  BY ReplayAssumption, MessageGateAssumption DEF GateInv, TaskTypes, Clock
<1>1. w \in Nat /\ w % Window = 0 /\ w <= t /\ t <= w + Window - 1
  BY <1>0, WindowOf
<1> HIDE DEF w
<1>2. w \in WindowStarts /\ Cardinality(Spent(a, w)) <= Limit
  <2>1. w \in WindowStarts
    BY <1>0, <1>1 DEF WindowStarts
  <2> QED
    BY <2>1 DEF GateInv
<1>3. Cardinality(Spent(a, w + Window)) <= Limit
  <2>1. CASE w + Window <= MaxTime
    <3>1. (w + Window) % Window = 0
      <4>1. PICK q \in Nat : w = Window * q
        BY <1>0, <1>1
      <4>2. w + Window = Window * (q + 1) /\ q + 1 \in Nat
        BY <1>0, <4>1
      <4>3. \A k \in Nat : (Window * k) % Window = 0
        BY <1>0
      <4> QED
        BY <4>2, <4>3
    <3>2. w + Window \in WindowStarts
      BY <1>0, <1>1, <2>1, <3>1 DEF WindowStarts
    <3> QED
      BY <3>2 DEF GateInv
  <2>2. CASE w + Window > MaxTime
    <3>1. \A s \in Sends : flight[s].at \in Int /\ flight[s].at <= now
      BY DEF GateInv, TaskTypes, Request
    <3>2. Spent(a, w + Window) = {}
      BY <1>0, <1>1, <2>2, <3>1 DEF Spent, Counted
    <3> QED
      BY <1>0, <3>2, FS_EmptySet
  <2> QED
    BY <1>0, <1>1, <2>1, <2>2
<1>4. Counted(a, t..(t + Window - 1)) \subseteq Spent(a, w) \cup Spent(a, w + Window)
  BY <1>0, <1>1 DEF Spent, Counted
<1>5. PICK C, A, B : /\ C = Counted(a, t..(t + Window - 1))
                     /\ A = Spent(a, w) /\ B = Spent(a, w + Window)
  OBVIOUS
<1>6. /\ IsFiniteSet(A) /\ IsFiniteSet(B)
      /\ Cardinality(A) \in Nat /\ Cardinality(B) \in Nat
  BY <1>5, CountedFinite DEF Spent
<1>7. /\ IsFiniteSet(A \cup B)
      /\ Cardinality(A \cup B) <= Cardinality(A) + Cardinality(B)
  <2>1. PICK I : I = A \cap B
    OBVIOUS
  <2>2. IsFiniteSet(I)
    BY <1>6, <2>1, FS_Intersection
  <2>3. Cardinality(I) \in Nat
    BY <2>2, FS_CardinalityType
  <2>4. /\ IsFiniteSet(A \cup B)
        /\ Cardinality(A \cup B) = Cardinality(A) + Cardinality(B) - Cardinality(A \cap B)
    BY <1>6, FS_Union
  <2> QED
    BY <1>6, <2>1, <2>3, <2>4
<1>8. Cardinality(C) <= Cardinality(A \cup B)
  BY <1>4, <1>5, <1>7, FS_Subset
<1>9. Cardinality(C) \in Nat /\ Cardinality(A \cup B) \in Nat
  BY <1>5, <1>7, CountedFinite, FS_CardinalityType
<1> QED
  BY <1>0, <1>2, <1>3, <1>5, <1>6, <1>7, <1>8, <1>9

\* For every limit, window and number of requests over both transports: at most the
\* limit in a window of the clock, at most twice the limit in any span of that length.
THEOREM RateStaysBounded == ServicesSpec => []RateBounded
<1>1. ASSUME ServicesInit PROVE GateInv
  <2>1. TaskTypes
    BY <1>1, ReplayAssumption
    DEF ServicesInit, A2AInit, GateInit, ControlInit, TaskTypes, Clock, Idle, NoTask, TaskRow, Request,
        Plain
  <2>2. /\ now = 0 /\ flight = [s \in Sends |-> Idle]
        /\ counter = [b \in Senders |-> [w \in WindowStarts |-> 0]]
    BY <1>1 DEF ServicesInit, A2AInit, GateInit, ControlInit
  <2>3. \A s \in Sends : flight[s].at = -1
    BY <2>2 DEF Idle
  <2>4. \A a \in Senders, w \in WindowStarts : Spent(a, w) = {}
    BY <2>3 DEF Spent, Counted, WindowStarts
  <2> QED
    BY <2>1, <2>2, <2>3, <2>4, FS_EmptySet, MessageGateAssumption DEF GateInv
<1>2. GateInv => RateBounded
  BY SpanBounded DEF GateInv, RateBounded, Spent
<1> QED
  BY <1>1, <1>2, GateInvStep, PTL DEF ServicesSpec, services

-----------------------------------------------------------------------------
(* The login throttle *)

\* The entries of f from lo to hi, counted.
Hits(f, lo, hi) == {i \in DOMAIN f : lo <= f[i] /\ f[i] <= hi}
Num(f, lo, hi) == Cardinality(Hits(f, lo, hi))

LEMMA HitsFinite ==
  ASSUME NEW f \in Seq(Nat), NEW lo \in Int, NEW hi \in Int
  PROVE  /\ Hits(f, lo, hi) \subseteq 1..Len(f) /\ IsFiniteSet(Hits(f, lo, hi))
         /\ Num(f, lo, hi) \in Nat
<1>1. Hits(f, lo, hi) \in SUBSET (1..Len(f)) /\ Len(f) \in Nat
  BY DEF Hits
<1>2. IsFiniteSet(1..Len(f))
  BY <1>1, FS_Interval
<1> HIDE DEF Hits
<1>3. IsFiniteSet(Hits(f, lo, hi))
  BY <1>1, <1>2, FS_Subset
<1> QED
  BY <1>1, <1>3, FS_CardinalityType DEF Num

\* Counts of two spans that meet or leave nothing of f between them.
LEMMA NumCovered ==
  ASSUME NEW f \in Seq(Nat), NEW lo \in Int, NEW hi \in Int, NEW l1 \in Int, NEW h1 \in Int,
         NEW l2 \in Int, NEW h2 \in Int,
         \A i \in 1..Len(f) : lo <= f[i] /\ f[i] <= hi
                                => (l1 <= f[i] /\ f[i] <= h1) \/ (l2 <= f[i] /\ f[i] <= h2)
  PROVE  Num(f, lo, hi) <= Num(f, l1, h1) + Num(f, l2, h2)
<1>1. PICK A, B, C : A = Hits(f, l1, h1) /\ B = Hits(f, l2, h2) /\ C = Hits(f, lo, hi)
  OBVIOUS
<1>2. /\ IsFiniteSet(A) /\ IsFiniteSet(B) /\ IsFiniteSet(C)
      /\ Cardinality(A) \in Nat /\ Cardinality(B) \in Nat /\ Cardinality(C) \in Nat
  BY <1>1, HitsFinite DEF Num
<1>3. C \subseteq A \cup B
  BY <1>1 DEF Hits
<1>4. /\ IsFiniteSet(A \cup B)
      /\ Cardinality(A \cup B) = Cardinality(A) + Cardinality(B) - Cardinality(A \cap B)
  BY <1>2, FS_Union
<1>5. Cardinality(A \cap B) \in Nat /\ Cardinality(A \cup B) \in Nat
  BY <1>2, <1>4, FS_Intersection, FS_CardinalityType
<1>6. Cardinality(C) <= Cardinality(A \cup B)
  BY <1>3, <1>4, FS_Subset
<1> QED
  BY <1>1, <1>2, <1>4, <1>5, <1>6 DEF Num

LEMMA NumWithin ==
  ASSUME NEW f \in Seq(Nat), NEW lo \in Int, NEW hi \in Int, NEW l1 \in Int, NEW h1 \in Int,
         \A i \in 1..Len(f) : lo <= f[i] /\ f[i] <= hi => l1 <= f[i] /\ f[i] <= h1
  PROVE  Num(f, lo, hi) <= Num(f, l1, h1)
<1>1. PICK A, C : A = Hits(f, l1, h1) /\ C = Hits(f, lo, hi)
  OBVIOUS
<1>2. IsFiniteSet(A)
  BY <1>1, HitsFinite
<1>3. C \subseteq A
  BY <1>1 DEF Hits
<1> QED
  BY <1>1, <1>2, <1>3, FS_Subset DEF Num

LEMMA NumApart ==
  ASSUME NEW f \in Seq(Nat), NEW lo \in Int, NEW hi \in Int, NEW m \in Int,
         lo <= m, m <= hi
  PROVE  Num(f, lo, m) + Num(f, m + 1, hi) <= Num(f, lo, hi)
<1>1. PICK A, B, C : A = Hits(f, lo, m) /\ B = Hits(f, m + 1, hi) /\ C = Hits(f, lo, hi)
  OBVIOUS
<1>2. /\ IsFiniteSet(A) /\ IsFiniteSet(B) /\ IsFiniteSet(C)
      /\ Cardinality(A) \in Nat /\ Cardinality(B) \in Nat /\ Cardinality(C) \in Nat
  BY <1>1, HitsFinite DEF Num
<1>3. A \cup B \subseteq C /\ A \cap B = {}
  BY <1>1 DEF Hits
<1>4. /\ IsFiniteSet(A \cup B)
      /\ Cardinality(A \cup B) = Cardinality(A) + Cardinality(B) - Cardinality(A \cap B)
  BY <1>2, FS_Union
<1>5. Cardinality(A \cap B) = 0
  BY <1>3, FS_EmptySet
<1>6. Cardinality(A \cup B) <= Cardinality(C)
  BY <1>2, <1>3, FS_Subset
<1> QED
  BY <1>1, <1>2, <1>4, <1>5, <1>6 DEF Num

LEMMA NumAppend ==
  ASSUME NEW f \in Seq(Nat), NEW n \in Nat, NEW lo \in Int, NEW hi \in Int
  PROVE  Num(Append(f, n), lo, hi) = IF lo <= n /\ n <= hi THEN Num(f, lo, hi) + 1 ELSE Num(f, lo, hi)
<1>1. /\ Len(f) \in Nat /\ Append(f, n) \in Seq(Nat) /\ DOMAIN Append(f, n) = 1..(Len(f) + 1)
      /\ DOMAIN f = 1..Len(f)
      /\ Append(f, n)[Len(f) + 1] = n /\ \A i \in 1..Len(f) : Append(f, n)[i] = f[i]
  OBVIOUS
<1>2. Hits(Append(f, n), lo, hi) =
        IF lo <= n /\ n <= hi THEN Hits(f, lo, hi) \cup {Len(f) + 1} ELSE Hits(f, lo, hi)
  BY <1>1 DEF Hits
<1>3. Len(f) + 1 \notin Hits(f, lo, hi) /\ IsFiniteSet(Hits(f, lo, hi))
  BY <1>1, HitsFinite
<1>4. PICK A, e : A = Hits(f, lo, hi) /\ e = Len(f) + 1
  OBVIOUS
<1>5. Cardinality(A \cup {e}) = Cardinality(A) + 1
  BY <1>3, <1>4, FS_AddElement
<1> QED
  BY <1>2, <1>4, <1>5 DEF Num

LEMMA NumNone ==
  ASSUME NEW f \in Seq(Nat), NEW lo \in Int, NEW hi \in Int,
         \A i \in 1..Len(f) : ~(lo <= f[i] /\ f[i] <= hi)
  PROVE  Num(f, lo, hi) = 0
<1>1. Hits(f, lo, hi) = {}
  BY DEF Hits
<1> QED
  BY <1>1, FS_EmptySet DEF Num

Bucket == [failures : Nat, resetAt : Nat]
Begun(b, n) == b.failures > 0 /\ b.resetAt > n

SpansBounded(f) == \A t \in Nat : Num(f, t, t + LoginWindow - 1) < 2 * MaxFailures

\* The failures f of one key at instant n, with the bucket b. A bucket that lives
\* holds the failures since it was begun, the first of them at that instant; few
\* came in the window before. Without one, few came in the last window.
KeyInv(b, f, n) ==
  /\ b \in Bucket /\ f \in Seq(Nat)
  /\ \A i \in 1..Len(f) : f[i] <= n
  /\ Begun(b, n) =>
       LET s == b.resetAt - LoginWindow IN
       /\ b.failures <= MaxFailures
       /\ s <= n
       /\ b.failures = Num(f, s, n)
       /\ Num(f, s, s) >= 1
       /\ Num(f, s - LoginWindow + 1, s - 1) < MaxFailures
  /\ ~Begun(b, n) => Num(f, n - LoginWindow + 1, n) < MaxFailures /\ Num(f, n, n) = 0
  /\ SpansBounded(f)

LEMMA KeyFacts ==
  ASSUME NEW b, NEW f, NEW n \in Nat, KeyInv(b, f, n)
  PROVE  /\ LoginWindow \in Nat \ {0} /\ MaxFailures \in Nat \ {0}
         /\ b \in Bucket /\ b.failures \in Nat /\ b.resetAt \in Nat /\ f \in Seq(Nat)
         /\ \A i \in 1..Len(f) : f[i] \in Nat /\ f[i] <= n
<1>1. b \in Bucket /\ f \in Seq(Nat)
  BY DEF KeyInv
<1>2. \A i \in 1..Len(f) : f[i] \in Nat /\ f[i] <= n
  BY <1>1 DEF KeyInv
<1> QED
  BY <1>1, <1>2, AccessAssumption DEF Bucket

LEMMA KeyNew ==
  ASSUME NEW n \in Nat PROVE KeyInv(NoBucket, <<>>, n)
<1>1. << >> \in Seq(Nat) /\ \A i \in 1..Len(<< >>) : FALSE
  OBVIOUS
<1>2. \A lo, hi \in Int : Num(<< >>, lo, hi) = 0
  BY <1>1, NumNone
<1>3. LoginWindow \in Nat \ {0} /\ MaxFailures \in Nat \ {0}
  BY AccessAssumption
<1>4. NoBucket \in Bucket /\ ~Begun(NoBucket, n)
  BY DEF NoBucket, Bucket, Begun
<1>5. SpansBounded(<< >>)
  BY <1>2, <1>3 DEF SpansBounded
<1> QED
  BY <1>1, <1>2, <1>3, <1>4, <1>5 DEF KeyInv

\* A bucket that has run out may be forgotten.
LEMMA KeyForgets ==
  ASSUME NEW b, NEW f, NEW n \in Nat, KeyInv(b, f, n), ~Begun(b, n)
  PROVE  KeyInv(NoBucket, f, n)
<1>1. NoBucket \in Bucket /\ ~Begun(NoBucket, n)
  BY DEF NoBucket, Bucket, Begun
<1> QED
  BY <1>1 DEF KeyInv

LEMMA KeyTick ==
  ASSUME NEW b, NEW f, NEW n \in Nat, KeyInv(b, f, n)
  PROVE  KeyInv(b, f, n + 1)
<1>0. /\ LoginWindow \in Nat \ {0} /\ MaxFailures \in Nat \ {0}
      /\ b \in Bucket /\ b.failures \in Nat /\ b.resetAt \in Nat /\ f \in Seq(Nat)
      /\ \A i \in 1..Len(f) : f[i] \in Nat /\ f[i] <= n
  BY KeyFacts
<1>1. \A i \in 1..Len(f) : f[i] <= n + 1
  BY <1>0
<1>2. Num(f, n + 1, n + 1) = 0
  BY <1>0, NumNone
<1>a. PICK s \in Int : s = b.resetAt - LoginWindow
  BY <1>0
<1>3. CASE Begun(b, n + 1)
  <2>1. Begun(b, n)
    BY <1>0, <1>3 DEF Begun
  <2>2. Num(f, s, n + 1) <= Num(f, s, n)
    BY <1>0, NumWithin
  <2>3. Num(f, s, n) <= Num(f, s, n + 1)
    BY <1>0, NumWithin
  <2>4. Num(f, s, n) = Num(f, s, n + 1)
    BY <1>0, <2>2, <2>3, HitsFinite
  <2> QED
    BY <1>0, <1>a, <1>1, <1>3, <2>1, <2>4 DEF KeyInv
<1>4. CASE ~Begun(b, n + 1) /\ Begun(b, n)
  <2>0. b.failures > 0 /\ b.resetAt > n /\ ~(b.failures > 0 /\ b.resetAt > n + 1)
    BY <1>4 DEF Begun
  <2>1. s = n + 1 - LoginWindow
    <3>1. b.resetAt = n + 1
      BY <1>0, <2>0
    <3> QED
      BY <1>0, <1>a, <3>1
  <2>2. b.failures <= MaxFailures /\ b.failures = Num(f, s, n) /\ Num(f, s, s) >= 1
    BY <1>a, <1>4 DEF KeyInv
  <2>3. Num(f, s, s) + Num(f, s + 1, n) <= Num(f, s, n)
    BY <1>0, <2>1, NumApart
  <2>4. Num(f, s + 1, n + 1) <= Num(f, s + 1, n)
    BY <1>0, NumWithin
  <2>5. Num(f, n + 1 - LoginWindow + 1, n + 1) < MaxFailures
    BY <1>0, <2>1, <2>2, <2>3, <2>4, HitsFinite
  <2> QED
    BY <1>0, <1>1, <1>2, <1>4, <2>5 DEF KeyInv
<1>5. CASE ~Begun(b, n + 1) /\ ~Begun(b, n)
  <2>1. Num(f, n + 1 - LoginWindow + 1, n + 1) <= Num(f, n - LoginWindow + 1, n)
    <3>1. PICK lo, l1 \in Int : lo = n + 1 - LoginWindow + 1 /\ l1 = n - LoginWindow + 1
      BY <1>0
    <3>2. n + 1 \in Int /\ \A i \in 1..Len(f) : lo <= f[i] => l1 <= f[i] /\ f[i] <= n
      BY <1>0, <3>1
    <3>3. Num(f, lo, n + 1) <= Num(f, l1, n)
      BY <1>0, <3>2, NumWithin
    <3> QED
      BY <3>1, <3>3
  <2>2. Num(f, n - LoginWindow + 1, n) < MaxFailures
    BY <1>5 DEF KeyInv
  <2>3. Num(f, n + 1 - LoginWindow + 1, n + 1) < MaxFailures
    BY <1>0, <2>1, <2>2, HitsFinite
  <2> QED
    BY <1>0, <1>1, <1>2, <1>5, <2>3 DEF KeyInv
<1> QED
  BY <1>3, <1>4, <1>5

LEMMA KeyBegins ==
  ASSUME NEW b, NEW f, NEW n \in Nat, KeyInv(b, f, n), ~Begun(b, n)
  PROVE  KeyInv([failures |-> 1, resetAt |-> n + LoginWindow], Append(f, n), n)
<1>0. /\ LoginWindow \in Nat \ {0} /\ MaxFailures \in Nat \ {0} /\ f \in Seq(Nat)
      /\ \A i \in 1..Len(f) : f[i] \in Nat /\ f[i] <= n
  BY KeyFacts
<1>1. Num(f, n - LoginWindow + 1, n) < MaxFailures /\ Num(f, n, n) = 0 /\ SpansBounded(f)
  BY DEF KeyInv
<1>2. PICK c : c = [failures |-> 1, resetAt |-> n + LoginWindow]
  OBVIOUS
<1>3. c \in Bucket /\ c.failures = 1 /\ c.resetAt = n + LoginWindow
  BY <1>0, <1>2 DEF Bucket
<1>4. Begun(c, n) /\ c.resetAt - LoginWindow = n
  BY <1>0, <1>3 DEF Begun
<1>5. PICK g \in Seq(Nat) : g = Append(f, n)
  <2>1. Append(f, n) \in Seq(Nat)
    BY <1>0
  <2> QED
    BY <2>1
<1>6. \A i \in 1..Len(g) : g[i] <= n
  BY <1>0, <1>5
<1>7. Num(g, n, n) = 1
  BY <1>0, <1>1, <1>5, NumAppend
<1>8. Num(g, n - LoginWindow + 1, n - 1) < MaxFailures
  <2>1. Num(f, n - LoginWindow + 1, n - 1) <= Num(f, n - LoginWindow + 1, n)
    <3>1. /\ n - LoginWindow + 1 \in Int /\ n - 1 \in Int /\ n \in Int
          /\ \A i \in 1..Len(f) : f[i] <= n - 1 => f[i] <= n
      BY <1>0
    <3> QED
      BY <1>0, <3>1, NumWithin
  <2>2. Num(g, n - LoginWindow + 1, n - 1) = Num(f, n - LoginWindow + 1, n - 1)
    BY <1>0, <1>5, NumAppend
  <2> QED
    BY <1>0, <1>1, <2>1, <2>2, HitsFinite
<1>9. SpansBounded(g)
  <2>1. ASSUME NEW t \in Nat, t <= n, n <= t + LoginWindow - 1
        PROVE  Num(g, t, t + LoginWindow - 1) < 2 * MaxFailures
    <3>1. Num(f, t, t + LoginWindow - 1) <= Num(f, n - LoginWindow + 1, n)
      BY <1>0, <2>1, NumWithin
    <3>2. Num(g, t, t + LoginWindow - 1) = Num(f, t, t + LoginWindow - 1) + 1
      BY <1>0, <1>5, <2>1, NumAppend
    <3> QED
      BY <1>0, <1>1, <3>1, <3>2, HitsFinite
  <2>2. ASSUME NEW t \in Nat, ~(t <= n /\ n <= t + LoginWindow - 1)
        PROVE  Num(g, t, t + LoginWindow - 1) < 2 * MaxFailures
    <3>1. Num(g, t, t + LoginWindow - 1) = Num(f, t, t + LoginWindow - 1)
      BY <1>0, <1>5, <2>2, NumAppend
    <3> QED
      BY <1>1, <3>1 DEF SpansBounded
  <2> QED
    BY <1>0, <2>1, <2>2 DEF SpansBounded
<1>10. KeyInv(c, g, n)
  BY <1>0, <1>3, <1>4, <1>6, <1>7, <1>8, <1>9 DEF KeyInv
<1> QED
  BY <1>2, <1>5, <1>10

LEMMA KeyCounts ==
  ASSUME NEW b, NEW f, NEW n \in Nat, KeyInv(b, f, n), Begun(b, n), b.failures < MaxFailures
  PROVE  KeyInv([b EXCEPT !.failures = @ + 1], Append(f, n), n)
<1>0. /\ LoginWindow \in Nat \ {0} /\ MaxFailures \in Nat \ {0} /\ f \in Seq(Nat)
      /\ b \in Bucket /\ b.failures \in Nat /\ b.resetAt \in Nat
      /\ \A i \in 1..Len(f) : f[i] \in Nat /\ f[i] <= n
  BY KeyFacts
<1>1. PICK s \in Int : s = b.resetAt - LoginWindow
  BY <1>0
<1>2. /\ s <= n /\ b.failures = Num(f, s, n) /\ Num(f, s, s) >= 1
      /\ Num(f, s - LoginWindow + 1, s - 1) < MaxFailures
      /\ SpansBounded(f)
  BY <1>1 DEF KeyInv
<1>3. n < s + LoginWindow
  BY <1>0, <1>1 DEF Begun
<1>4. PICK c : c = [b EXCEPT !.failures = @ + 1]
  OBVIOUS
<1>5. c \in Bucket /\ c.failures = b.failures + 1 /\ c.resetAt = b.resetAt
  BY <1>0, <1>4 DEF Bucket
<1>6. Begun(c, n) /\ c.resetAt - LoginWindow = s
  BY <1>0, <1>1, <1>5 DEF Begun
<1>7. PICK g \in Seq(Nat) : g = Append(f, n)
  <2>1. Append(f, n) \in Seq(Nat)
    BY <1>0
  <2> QED
    BY <2>1
<1>8. \A i \in 1..Len(g) : g[i] <= n
  BY <1>0, <1>7
<1>9. Num(g, s, n) = b.failures + 1
  BY <1>0, <1>2, <1>7, NumAppend
<1>10. Num(g, s, s) >= 1
  BY <1>0, <1>2, <1>7, NumAppend, HitsFinite
<1>11. Num(g, s - LoginWindow + 1, s - 1) < MaxFailures
  BY <1>0, <1>2, <1>7, NumAppend
<1>12. SpansBounded(g)
  <2>1. ASSUME NEW t \in Nat, t <= n, n <= t + LoginWindow - 1
        PROVE  Num(g, t, t + LoginWindow - 1) < 2 * MaxFailures
    <3>1. Num(f, t, t + LoginWindow - 1) <= Num(f, s - LoginWindow + 1, s - 1) + Num(f, s, n)
      <4>1. PICK hi, l1, h1 \in Int : hi = t + LoginWindow - 1 /\ l1 = s - LoginWindow + 1 /\ h1 = s - 1
        BY <1>0
      <4>2. ASSUME NEW i \in 1..Len(f), t <= f[i], f[i] <= hi
            PROVE  (l1 <= f[i] /\ f[i] <= h1) \/ (s <= f[i] /\ f[i] <= n)
        <5>1. f[i] \in Nat /\ f[i] <= n
          BY <1>0
        <5> QED
          BY <1>0, <1>2, <1>3, <2>1, <4>1, <4>2, <5>1
      <4>3. Num(f, t, hi) <= Num(f, l1, h1) + Num(f, s, n)
        BY <1>0, <4>2, NumCovered
      <4> QED
        BY <4>1, <4>3
    <3>2. Num(g, t, t + LoginWindow - 1) = Num(f, t, t + LoginWindow - 1) + 1
      BY <1>0, <1>7, <2>1, NumAppend
    <3> QED
      BY <1>0, <1>2, <3>1, <3>2, HitsFinite
  <2>2. ASSUME NEW t \in Nat, ~(t <= n /\ n <= t + LoginWindow - 1)
        PROVE  Num(g, t, t + LoginWindow - 1) < 2 * MaxFailures
    <3>1. Num(g, t, t + LoginWindow - 1) = Num(f, t, t + LoginWindow - 1)
      BY <1>0, <1>7, <2>2, NumAppend
    <3> QED
      BY <1>2, <3>1 DEF SpansBounded
  <2> QED
    BY <1>0, <2>1, <2>2 DEF SpansBounded
<1>13. KeyInv(c, g, n)
  BY <1>0, <1>2, <1>5, <1>6, <1>8, <1>9, <1>10, <1>11, <1>12 DEF KeyInv
<1> QED
  BY <1>4, <1>7, <1>13

\* What one key's recordFailure does to the map: the key's own bucket, and buckets
\* of others that had run out.
LEMMA RecordedAt ==
  ASSUME now \in Nat, NEW b \in [Keyed -> Bucket], NEW k \in Keyed
  PROVE  /\ Recorded(b, k) \in [Keyed -> Bucket]
         /\ \A j \in Keyed : j # k => \/ Recorded(b, k)[j] = b[j]
                                      \/ ~Live(b, j) /\ Recorded(b, k)[j] = NoBucket
         /\ Live(b, k) => Recorded(b, k)[k] = [b[k] EXCEPT !.failures = @ + 1]
         /\ ~Live(b, k) => \/ Recorded(b, k)[k].failures = 0
                           \/ Recorded(b, k)[k] = [failures |-> 1, resetAt |-> now + LoginWindow]
<1>1. NoBucket \in Bucket /\ NoBucket.failures = 0
  BY DEF NoBucket, Bucket
<1>2. [failures |-> 1, resetAt |-> now + LoginWindow] \in Bucket
  BY AccessAssumption DEF Bucket
<1>3. /\ sweep(b) \in [Keyed -> Bucket]
      /\ \A j \in Keyed : sweep(b)[j] = b[j] \/ (~Live(b, j) /\ sweep(b)[j] = NoBucket)
  BY <1>1 DEF sweep
<1>4. [b[k] EXCEPT !.failures = @ + 1] \in Bucket
  BY DEF Bucket
<1>5. CASE Live(b, k)
  <2>1. Recorded(b, k) = [b EXCEPT ![k].failures = @ + 1]
    BY <1>5 DEF Recorded
  <2>2. Recorded(b, k) = [b EXCEPT ![k] = [b[k] EXCEPT !.failures = @ + 1]]
    BY <2>1
  <2> QED
    BY <1>4, <1>5, <2>2
<1>6. CASE ~Live(b, k)
  <2>1. PICK c \in [Keyed -> Bucket] :
          /\ c = b \/ (c = sweep(b) /\ b[k].failures = 0)
          /\ \/ Recorded(b, k) = c /\ c = sweep(b) /\ b[k].failures = 0
             \/ Recorded(b, k) = [c EXCEPT ![k] = [failures |-> 1, resetAt |-> now + LoginWindow]]
    BY <1>3, <1>6 DEF Recorded
  <2>2. \A j \in Keyed : c[j] = b[j] \/ (~Live(b, j) /\ c[j] = NoBucket)
    BY <1>3, <2>1
  <2>3. CASE Recorded(b, k) = c /\ c = sweep(b) /\ b[k].failures = 0
    <3>1. c[k].failures = 0
      BY <1>1, <2>2, <2>3
    <3> QED
      BY <1>6, <2>2, <2>3, <3>1
  <2>4. CASE Recorded(b, k) = [c EXCEPT ![k] = [failures |-> 1, resetAt |-> now + LoginWindow]]
    BY <1>2, <1>6, <2>2, <2>4
  <2> QED
    BY <2>1, <2>3, <2>4
<1> QED
  BY <1>5, <1>6

\* Both keys of an attempt, one after the other: each is counted or begun, unless it
\* ends without a bucket.
LEMMA BothRecorded ==
  ASSUME now \in Nat, bucket \in [Keyed -> Bucket], NEW acct \in Accounts, NEW ip \in Addresses,
         NEW c, c = Recorded(Recorded(Checked(acct, ip), acct), ip)
  PROVE  /\ c \in [Keyed -> Bucket]
         /\ \A j \in Keyed \ {acct, ip} : c[j] = bucket[j] \/ (~Live(bucket, j) /\ c[j] = NoBucket)
         /\ \A k \in {acct, ip} :
              \/ c[k].failures = 0
              \/ Live(bucket, k) /\ c[k] = [bucket[k] EXCEPT !.failures = @ + 1]
              \/ ~Live(bucket, k) /\ c[k] = [failures |-> 1, resetAt |-> now + LoginWindow]
<1>0. /\ acct \in Keyed /\ ip \in Keyed /\ acct # ip
      /\ LoginWindow \in Nat \ {0}
      /\ NoBucket \in Bucket /\ NoBucket.failures = 0 /\ NoBucket.resetAt = 0
  BY AccessAssumption DEF Keyed, NoBucket, Bucket
<1>1. PICK a \in [Keyed -> Bucket] :
        /\ a = Checked(acct, ip)
        /\ \A j \in Keyed : a[j] = bucket[j] \/ (~Live(bucket, j) /\ a[j] = NoBucket)
  <2>1. Checked(acct, ip) \in [Keyed -> Bucket]
    BY <1>0 DEF Checked, sweep
  <2>2. \A j \in Keyed : \/ Checked(acct, ip)[j] = bucket[j]
                         \/ ~Live(bucket, j) /\ Checked(acct, ip)[j] = NoBucket
    BY DEF Checked, sweep
  <2> HIDE DEF Checked
  <2> QED
    BY <2>1, <2>2
<1>2. \A j \in Keyed : Live(a, j) <=> Live(bucket, j) /\ a[j] = bucket[j]
  BY <1>0, <1>1 DEF Live
<1>3. \A j \in Keyed : Live(bucket, j) => Live(a, j) /\ a[j] = bucket[j]
  BY <1>1 DEF Live
<1>4. PICK b \in [Keyed -> Bucket] :
        /\ b = Recorded(a, acct)
        /\ \A j \in Keyed : j # acct => b[j] = a[j] \/ (~Live(a, j) /\ b[j] = NoBucket)
        /\ Live(a, acct) => b[acct] = [a[acct] EXCEPT !.failures = @ + 1]
        /\ ~Live(a, acct) => \/ b[acct].failures = 0
                             \/ b[acct] = [failures |-> 1, resetAt |-> now + LoginWindow]
  <2> HIDE DEF Recorded
  <2> QED
    BY <1>0, RecordedAt
<1>5. /\ c \in [Keyed -> Bucket]
      /\ \A j \in Keyed : j # ip => c[j] = b[j] \/ (~Live(b, j) /\ c[j] = NoBucket)
      /\ Live(b, ip) => c[ip] = [b[ip] EXCEPT !.failures = @ + 1]
      /\ ~Live(b, ip) => \/ c[ip].failures = 0
                         \/ c[ip] = [failures |-> 1, resetAt |-> now + LoginWindow]
  <2>1. c = Recorded(b, ip)
    BY <1>1, <1>4
  <2> HIDE DEF Recorded
  <2> QED
    BY <1>0, <2>1, RecordedAt
<1>6. ASSUME NEW j \in Keyed \ {acct, ip}
      PROVE  c[j] = bucket[j] \/ (~Live(bucket, j) /\ c[j] = NoBucket)
  <2>1. b[j] = bucket[j] \/ (~Live(bucket, j) /\ b[j] = NoBucket)
    BY <1>1, <1>2, <1>3, <1>4
  <2>2. c[j] = b[j] \/ (~Live(b, j) /\ c[j] = NoBucket)
    BY <1>5
  <2>3. b[j] = bucket[j] => (Live(b, j) <=> Live(bucket, j))
    BY DEF Live
  <2> QED
    BY <2>1, <2>2, <2>3
<1>7. /\ Live(bucket, ip) => Live(b, ip) /\ b[ip] = bucket[ip]
      /\ ~Live(bucket, ip) => ~Live(b, ip)
  BY <1>0, <1>1, <1>2, <1>3, <1>4 DEF Live
<1>8. \/ c[acct].failures = 0
      \/ Live(bucket, acct) /\ c[acct] = [bucket[acct] EXCEPT !.failures = @ + 1]
      \/ ~Live(bucket, acct) /\ c[acct] = [failures |-> 1, resetAt |-> now + LoginWindow]
  <2>1. c[acct] = b[acct] \/ c[acct].failures = 0
    BY <1>0, <1>5
  <2> QED
    BY <1>0, <1>2, <1>3, <1>4, <2>1
<1> QED
  BY <1>0, <1>5, <1>6, <1>7, <1>8

ThrottleInv ==
  /\ Clock
  /\ bucket \in [Keyed -> Bucket]
  /\ fails \in [Keyed -> Seq(Nat)]
  /\ \A k \in Keyed \ dropped : KeyInv(bucket[k], fails[k], now)

LEMMA LiveBegun == \A k : Live(bucket, k) <=> Begun(bucket[k], now)
  BY DEF Live, Begun

LEMMA LoginFailsStep ==
  ASSUME ThrottleInv, UNCHANGED now, NEW acct \in Accounts, NEW ip \in Addresses,
         loginFails(acct, ip)
  PROVE  ThrottleInv'
<1>0. /\ now \in Nat /\ bucket \in [Keyed -> Bucket] /\ fails \in [Keyed -> Seq(Nat)]
      /\ acct \in Keyed /\ ip \in Keyed
  BY ReplayAssumption DEF ThrottleInv, Clock, Keyed
<1>1. /\ bucket' = Recorded(Recorded(Checked(acct, ip), acct), ip)
      /\ fails' = [k \in Keyed |-> IF k \in {acct, ip} THEN Append(fails[k], now) ELSE fails[k]]
      /\ dropped' = dropped \cup {k \in {acct, ip} : bucket'[k].failures = 0}
  BY DEF loginFails
<1>2. /\ bucket' \in [Keyed -> Bucket]
      /\ \A j \in Keyed \ {acct, ip} :
           bucket'[j] = bucket[j] \/ (~Live(bucket, j) /\ bucket'[j] = NoBucket)
      /\ \A k \in {acct, ip} :
           \/ bucket'[k].failures = 0
           \/ Live(bucket, k) /\ bucket'[k] = [bucket[k] EXCEPT !.failures = @ + 1]
           \/ ~Live(bucket, k) /\ bucket'[k] = [failures |-> 1, resetAt |-> now + LoginWindow]
  <2>1. PICK c : c = Recorded(Recorded(Checked(acct, ip), acct), ip)
    OBVIOUS
  <2>2. /\ c \in [Keyed -> Bucket]
        /\ \A j \in Keyed \ {acct, ip} : c[j] = bucket[j] \/ (~Live(bucket, j) /\ c[j] = NoBucket)
        /\ \A k \in {acct, ip} :
             \/ c[k].failures = 0
             \/ Live(bucket, k) /\ c[k] = [bucket[k] EXCEPT !.failures = @ + 1]
             \/ ~Live(bucket, k) /\ c[k] = [failures |-> 1, resetAt |-> now + LoginWindow]
    BY <1>0, <2>1, BothRecorded
  <2>3. bucket' = c
    BY <1>1, <2>1
  <2> QED
    BY <2>2, <2>3
<1>3. fails' \in [Keyed -> Seq(Nat)]
  BY <1>0, <1>1
<1>4. ASSUME NEW k \in Keyed \ dropped' PROVE KeyInv(bucket'[k], fails'[k], now)
  <2>1. k \notin dropped /\ KeyInv(bucket[k], fails[k], now)
    BY <1>1 DEF ThrottleInv
  <2>2. CASE k \notin {acct, ip}
    <3>1. fails'[k] = fails[k]
      BY <1>1, <2>2
    <3>2. bucket'[k] = bucket[k] \/ (~Begun(bucket[k], now) /\ bucket'[k] = NoBucket)
      BY <1>2, <2>2, LiveBegun
    <3> QED
      BY <1>0, <2>1, <3>1, <3>2, KeyForgets
  <2>3. CASE k \in {acct, ip} /\ Live(bucket, k)
    <3>1. fails'[k] = Append(fails[k], now) /\ bucket'[k].failures # 0
      BY <1>1, <2>3
    <3>2. bucket'[k] = [bucket[k] EXCEPT !.failures = @ + 1]
      BY <1>2, <2>3, <3>1
    <3>3. bucket[k].failures < MaxFailures
      BY <1>0, <2>3, AccessAssumption DEF loginFails, Blocked, Bucket
    <3>4. Begun(bucket[k], now)
      BY <2>3, LiveBegun
    <3>5. KeyInv([bucket[k] EXCEPT !.failures = @ + 1], Append(fails[k], now), now)
      BY <1>0, <2>1, <3>3, <3>4, KeyCounts
    <3> QED
      BY <3>1, <3>2, <3>5
  <2>4. CASE k \in {acct, ip} /\ ~Live(bucket, k)
    <3>1. fails'[k] = Append(fails[k], now) /\ bucket'[k].failures # 0
      BY <1>1, <2>4
    <3>2. bucket'[k] = [failures |-> 1, resetAt |-> now + LoginWindow]
      BY <1>2, <2>4, <3>1
    <3>3. ~Begun(bucket[k], now)
      BY <2>4, LiveBegun
    <3>4. KeyInv([failures |-> 1, resetAt |-> now + LoginWindow], Append(fails[k], now), now)
      BY <1>0, <2>1, <3>3, KeyBegins
    <3> QED
      BY <3>1, <3>2, <3>4
  <2> QED
    BY <2>2, <2>3, <2>4
<1>5. Keyed' = Keyed
  BY DEF Keyed
<1> QED
  BY <1>2, <1>3, <1>4 DEF ThrottleInv, Clock

\* The other steps forget buckets that have run out, or all of one account.
LEMMA BucketsForgotten ==
  ASSUME ThrottleInv, UNCHANGED now, NEW cleared \in SUBSET Keyed,
         bucket' \in [Keyed -> Bucket],
         \A k \in Keyed \ cleared :
           bucket'[k] = bucket[k] \/ (~Live(bucket, k) /\ bucket'[k] = NoBucket),
         \A k \in cleared : bucket'[k] = NoBucket,
         fails' = [k \in Keyed |-> IF k \in cleared THEN << >> ELSE fails[k]],
         dropped' = dropped \ cleared
  PROVE  ThrottleInv'
<1>0. now \in Nat /\ fails \in [Keyed -> Seq(Nat)]
  BY ReplayAssumption DEF ThrottleInv, Clock
<1>1. fails' \in [Keyed -> Seq(Nat)]
  BY <1>0
<1>2. ASSUME NEW k \in Keyed \ dropped' PROVE KeyInv(bucket'[k], fails'[k], now)
  <2>1. CASE k \in cleared
    <3>1. bucket'[k] = NoBucket /\ fails'[k] = << >>
      BY <2>1
    <3> QED
      BY <1>0, <3>1, KeyNew
  <2>2. CASE k \notin cleared
    <3>1. fails'[k] = fails[k] /\ KeyInv(bucket[k], fails[k], now)
      BY <2>2 DEF ThrottleInv
    <3>2. bucket'[k] = bucket[k] \/ (~Begun(bucket[k], now) /\ bucket'[k] = NoBucket)
      BY <2>2, LiveBegun
    <3> QED
      BY <1>0, <3>1, <3>2, KeyForgets
  <2> QED
    BY <2>1, <2>2
<1> QED
  BY <1>1, <1>2 DEF ThrottleInv, Clock, Keyed

LEMMA LoginOtherStep ==
  ASSUME ThrottleInv, UNCHANGED now, NEW acct \in Keyed, NEW ip \in Keyed,
         loginSucceeds(acct, ip) \/ loginRefused(acct, ip) \/ sweepBuckets
  PROVE  ThrottleInv'
<1>0. /\ bucket \in [Keyed -> Bucket] /\ fails \in [Keyed -> Seq(Nat)] /\ NoBucket \in Bucket
  BY DEF ThrottleInv, NoBucket, Bucket
<1>1. /\ sweep(bucket) \in [Keyed -> Bucket]
      /\ \A j \in Keyed : \/ sweep(bucket)[j] = bucket[j]
                          \/ ~Live(bucket, j) /\ sweep(bucket)[j] = NoBucket
  BY <1>0 DEF sweep
<1>2. /\ Checked(acct, ip) \in [Keyed -> Bucket]
      /\ \A j \in Keyed : \/ Checked(acct, ip)[j] = bucket[j]
                          \/ ~Live(bucket, j) /\ Checked(acct, ip)[j] = NoBucket
  BY <1>0, <1>1 DEF Checked
<1>3. CASE loginSucceeds(acct, ip)
  <2>1. /\ bucket' = [k \in Keyed |-> IF k \in {acct} THEN NoBucket ELSE Checked(acct, ip)[k]]
        /\ fails' = [k \in Keyed |-> IF k \in {acct} THEN << >> ELSE fails[k]]
        /\ dropped' = dropped \ {acct}
    BY <1>0, <1>3 DEF loginSucceeds, ClearedBy
  <2>2. bucket' \in [Keyed -> Bucket]
    BY <1>0, <1>2, <2>1
  <2>3. \A k \in {acct} : bucket'[k] = NoBucket
    BY <1>0, <2>1
  <2>4. \A k \in Keyed \ {acct} :
          bucket'[k] = bucket[k] \/ (~Live(bucket, k) /\ bucket'[k] = NoBucket)
    BY <1>2, <2>1
  <2>5. {acct} \in SUBSET Keyed
    BY <1>0
  <2> QED
    BY <2>1, <2>2, <2>3, <2>4, <2>5, BucketsForgotten
<1>4. CASE loginRefused(acct, ip) \/ sweepBuckets
  <2>1. /\ bucket' = Checked(acct, ip) \/ bucket' = sweep(bucket)
        /\ fails' = fails /\ dropped' = dropped
    BY <1>4 DEF loginRefused, sweepBuckets
  <2>2. PICK none \in SUBSET Keyed : none = {}
    OBVIOUS
  <2>3. /\ bucket' \in [Keyed -> Bucket]
        /\ \A k \in Keyed \ none :
             bucket'[k] = bucket[k] \/ (~Live(bucket, k) /\ bucket'[k] = NoBucket)
    <3> HIDE DEF Checked, sweep, Live
    <3> QED
      BY <1>1, <1>2, <2>1
  <2>4. /\ fails' = [k \in Keyed |-> IF k \in none THEN << >> ELSE fails[k]]
        /\ dropped' = dropped \ none /\ \A k \in none : bucket'[k] = NoBucket
    BY <1>0, <2>1, <2>2
  <2> QED
    BY <2>3, <2>4, BucketsForgotten
<1> QED
  BY <1>3, <1>4

LEMMA ThrottleStep == ThrottleInv /\ [ServicesNext]_services => ThrottleInv'
<1> SUFFICES ASSUME ThrottleInv, [ServicesNext]_services PROVE ThrottleInv'
  OBVIOUS
<1>1. Clock /\ Clock' /\ now \in Nat
  BY ClockStep DEF ThrottleInv
<1>2. CASE UNCHANGED <<bucket, fails, dropped>>
  <2>1. CASE UNCHANGED now
    BY <1>2, <2>1 DEF ThrottleInv, Clock, Keyed, KeyInv
  <2>2. CASE Tick
    <3>1. now' = now + 1
      BY <2>2 DEF Tick
    <3>2. \A k \in Keyed \ dropped : KeyInv(bucket[k], fails[k], now + 1)
      BY <1>1, KeyTick DEF ThrottleInv
    <3> QED
      BY <1>1, <1>2, <3>1, <3>2 DEF ThrottleInv
  <2> QED
    BY <2>1, <2>2, Frames
<1>3. CASE LoginStep /\ UNCHANGED now
  <2>1. Accounts \subseteq Keyed /\ Addresses \subseteq Keyed
    BY DEF Keyed
  <2>2. CASE sweepBuckets /\ Keyed # {}
    BY <1>3, <2>2, LoginOtherStep
  <2>3. CASE sweepBuckets /\ Keyed = {}
    <3>1. Keyed' = {} /\ bucket' \in [Keyed -> Bucket] /\ fails' = fails
      BY <2>3 DEF sweepBuckets, sweep, Keyed
    <3> QED
      BY <1>1, <2>3, <3>1 DEF ThrottleInv
  <2> QED
    BY <1>3, <2>1, <2>2, <2>3, LoginFailsStep, LoginOtherStep DEF LoginStep
<1>4. CASE EnrollStep /\ UNCHANGED now
  <2>1. \/ \E acct \in Accounts, ip \in Addresses : loginSucceeds(acct, ip)
        \/ UNCHANGED <<bucket, fails, dropped>>
    BY <1>4 DEF EnrollStep, issueEnrollmentToken, enroll, setAgentIdentityKey
  <2>2. Accounts \subseteq Keyed /\ Addresses \subseteq Keyed
    BY DEF Keyed
  <2> QED
    BY <1>2, <1>4, <2>1, <2>2, LoginOtherStep
<1> QED
  BY <1>2, <1>3, <1>4, Frames DEF accessVars

\* However attempts on several accounts from several addresses, successes, sweeps
\* and a full map interleave, for every allowance, window and map size: a key that
\* was never denied a bucket fails less than twice the allowance in any window.
THEOREM GuessesStayBounded == ServicesSpec => []GuessesBounded
<1>1. ASSUME ServicesInit PROVE ThrottleInv
  <2>1. /\ now = 0 /\ bucket = [k \in Keyed |-> NoBucket] /\ fails = [k \in Keyed |-> << >>]
    BY <1>1 DEF ServicesInit, AccessInit, ControlInit
  <2>2. NoBucket \in Bucket
    BY DEF NoBucket, Bucket
  <2>3. << >> \in Seq(Nat) /\ KeyInv(NoBucket, << >>, 0)
    BY KeyNew
  <2> QED
    BY <2>1, <2>2, <2>3, ReplayAssumption DEF ThrottleInv, Clock
<1>2. ASSUME ThrottleInv PROVE GuessesBounded
  <2>1. ASSUME NEW k \in Keyed \ dropped, NEW t \in 0..MaxTime
        PROVE  FailsIn(k, t..(t + LoginWindow - 1)) < 2 * MaxFailures
    <3>1. /\ KeyInv(bucket[k], fails[k], now) /\ now \in Nat /\ t \in Nat
      BY <1>2, ReplayAssumption DEF ThrottleInv, Clock
    <3>2. /\ LoginWindow \in Nat /\ fails[k] \in Seq(Nat) /\ SpansBounded(fails[k])
      BY <3>1, KeyFacts DEF KeyInv
    <3>3. {i \in DOMAIN fails[k] : fails[k][i] \in t..(t + LoginWindow - 1)}
            = Hits(fails[k], t, t + LoginWindow - 1)
      BY <3>1, <3>2 DEF Hits
    <3>4. FailsIn(k, t..(t + LoginWindow - 1)) = Num(fails[k], t, t + LoginWindow - 1)
      BY <3>3 DEF FailsIn, Num
    <3> QED
      BY <3>1, <3>2, <3>4 DEF SpansBounded
  <2> QED
    BY <2>1 DEF GuessesBounded
<1> QED
  BY <1>1, <1>2, ThrottleStep, PTL DEF ServicesSpec, services

-----------------------------------------------------------------------------
(* Fleet health *)

\* A set that holds whatever is below its members holds 1..c, c its size.
LEMMA InitialIs ==
  ASSUME NEW n \in Nat, NEW D \in SUBSET (1..n), \A i \in D : 1..i \subseteq D
  PROVE  /\ Cardinality(D) \in 0..n
         /\ \A i \in 1..Cardinality(D) : i \in D
<1>1. IsFiniteSet(1..n) /\ Cardinality(1..n) = n
  BY FS_Interval
<1>2. PICK c : c = Cardinality(D)
  OBVIOUS
<1>3. IsFiniteSet(D) /\ c <= n
  BY ONLY <1>1, <1>2, D \in SUBSET (1..n), FS_Subset
<1>4. c \in 0..n
  BY <1>2, <1>3, FS_CardinalityType
<1>5. ASSUME NEW i \in 1..c, i \notin D PROVE FALSE
  <2>1. PICK l : l = i - 1
    OBVIOUS
  <2>2. D \subseteq 1..l
    <3> SUFFICES ASSUME NEW j \in D, j >= i PROVE FALSE
      BY <1>4, <2>1
    <3> QED
      BY <1>4, <1>5
  <2>3. IsFiniteSet(1..l) /\ Cardinality(1..l) = l
    BY <1>4, <2>1, FS_Interval
  <2>4. c <= l
    BY ONLY <1>2, <2>2, <2>3, FS_Subset
  <2> QED
    BY <1>4, <2>1, <2>4
<1> QED
  BY <1>2, <1>4, <1>5

\* Of a window W that reaches to n, the failures B that end it number F or more
\* exactly when the last F of 1..n are in it and failed.
LEMMA TailIs ==
  ASSUME NEW n \in Nat, NEW F \in Nat, NEW W \in SUBSET (1..n), NEW B,
         \A i \in W : i..n \subseteq W
  PROVE  Cardinality({i \in W : \A j \in W : j >= i => j \in B}) >= F
           <=> F <= n /\ ((n - F) + 1)..n \subseteq W \cap B
<1>1. PICK T \in SUBSET (1..n) : T = {i \in W : \A j \in W : j >= i => j \in B}
  OBVIOUS
<1>2. PICK c : c = Cardinality(T)
  OBVIOUS
<1>3. IsFiniteSet(1..n) /\ Cardinality(1..n) = n
  BY FS_Interval
<1>4. IsFiniteSet(T) /\ c <= n
  BY ONLY <1>1, <1>2, <1>3, FS_Subset
<1>5. c \in Nat
  BY <1>2, <1>4, FS_CardinalityType
<1>6. ASSUME c >= F PROVE F <= n /\ ((n - F) + 1)..n \subseteq W \cap B
  <2>1. F <= n
    BY <1>4, <1>5, <1>6
  <2>2. ASSUME NEW j \in ((n - F) + 1)..n, j \notin W \cap B PROVE FALSE
    <3>0. PICK R : R = (j + 1)..n
      OBVIOUS
    <3>1. T \subseteq R
      <4> SUFFICES ASSUME NEW i \in T, i <= j PROVE FALSE
        BY <1>1, <2>1, <3>0
      <4>1. j \in W
        BY <1>1, <2>1
      <4> QED
        BY <1>1, <2>2, <4>1
    <3>2. IsFiniteSet(R) /\ Cardinality(R) = n - j
      BY <2>1, <3>0, FS_Interval
    <3>3. c <= n - j
      BY ONLY <1>2, <3>1, <3>2, FS_Subset
    <3> QED
      BY <1>5, <1>6, <2>1, <3>3
  <2> QED
    BY <2>1, <2>2
<1>7. ASSUME F <= n, ((n - F) + 1)..n \subseteq W \cap B PROVE c >= F
  <2>1. PICK R : R = ((n - F) + 1)..n
    OBVIOUS
  <2>2. R \subseteq T
    BY <1>1, <1>7, <2>1
  <2>3. Cardinality(R) = F
    BY <1>7, <2>1, FS_Interval
  <2>4. F <= c
    BY ONLY <1>2, <1>4, <2>2, <2>3, FS_Subset
  <2> QED
    BY <1>5, <2>4
<1> QED
  BY <1>1, <1>2, <1>6, <1>7

\* W holds F of the last F of 1..n exactly when it holds them all.
LEMMA RunIs ==
  ASSUME NEW n \in Nat, NEW F \in Nat, NEW W \in SUBSET (1..n)
  PROVE  Cardinality({i \in W : i > n - F}) = F <=> F <= n /\ ((n - F) + 1)..n \subseteq W
<1>1. PICK T \in SUBSET (1..n) : T = {i \in W : i > n - F}
  OBVIOUS
<1>2. IsFiniteSet(1..n) /\ Cardinality(1..n) = n
  BY FS_Interval
<1>3. Cardinality(T) <= n
  BY ONLY <1>1, <1>2, FS_Subset
<1>4. CASE F > n
  BY <1>1, <1>3, <1>4
<1>5. CASE F <= n
  <2>1. PICK R : R = ((n - F) + 1)..n
    OBVIOUS
  <2>2. T \subseteq R
    BY <1>1, <1>5, <2>1
  <2>3. IsFiniteSet(R) /\ Cardinality(R) = F
    BY <1>5, <2>1, FS_Interval
  <2>4. Cardinality(T) = F => T = R
    BY ONLY <2>2, <2>3, FS_Subset
  <2>5. R \subseteq W => T = R
    BY <1>1, <1>5, <2>1, <2>2
  <2> QED
    BY <1>1, <1>5, <2>1, <2>3, <2>4, <2>5
<1> QED
  BY <1>4, <1>5

Call == [t : Nat, ok : BOOLEAN]

\* The end of a sequence.
LEMMA SuffixIs ==
  ASSUME NEW s \in Seq(Call), NEW d \in 0..Len(s)
  PROVE  LET q == SubSeq(s, d + 1, Len(s))
         IN  q \in Seq(Call) /\ Len(q) = Len(s) - d /\ \A i \in 1..Len(q) : q[i] = s[d + i]
<1>1. PICK l \in Nat : l = Len(s) /\ DOMAIN s = 1..l
  OBVIOUS
<1>2. PICK q : q = SubSeq(s, d + 1, l)
  OBVIOUS
<1>3. \A i \in (d + 1)..l : s[i] \in Call
  BY <1>1
<1>4. d + 1 \in Int /\ l \in Int
  BY <1>1
<1>5. /\ q \in Seq(Call) /\ Len(q) = IF d + 1 <= l THEN l - (d + 1) + 1 ELSE 0
      /\ \A i \in 1..(l - (d + 1) + 1) : q[i] = s[d + 1 + i - 1]
  BY ONLY <1>2, <1>3, <1>4, SubSeqProperties
<1>6. Len(q) = l - d /\ \A i \in 1..(l - d) : q[i] = s[d + i]
  BY <1>1, <1>5
<1> QED
  BY ONLY <1>1, <1>2, <1>5, <1>6

\* What noteModelCallEnded keeps is the end of the list with the new outcome, and
\* what it drops is beyond the cap or from before the window.
LEMMA NoteIs ==
  ASSUME HealthAssumption, now \in Nat, NEW s \in Seq(Call), NEW ok \in BOOLEAN
  PROVE  LET all == Append(s, [t |-> now, ok |-> ok])
             q == NoteModelCall(s, ok)
             d == Len(all) - Len(q)
         IN  /\ q \in Seq(Call) /\ d \in 0..Len(all) /\ Len(q) <= TurnMax
             /\ \A i \in 1..Len(q) : q[i] = all[d + i]
             /\ \A i \in 1..d : i <= Len(all) - TurnMax \/ all[i].t < now - TurnWindow
<1>1. PICK all \in Seq(Call) : all = Append(s, [t |-> now, ok |-> ok])
  <2>1. [t |-> now, ok |-> ok] \in Call
    BY Zenon DEF Call
  <2>2. PICK x \in Call : x = [t |-> now, ok |-> ok]
    BY <2>1
  <2>3. Append(s, x) \in Seq(Call)
    OBVIOUS
  <2> QED
    BY ONLY <2>2, <2>3
<1>2. PICK n \in Nat : n = Len(all)
  BY <1>1
<1>3. PICK e \in 0..n : e = IF n > TurnMax THEN n - TurnMax ELSE 0
  BY <1>2 DEF HealthAssumption
<1>4. PICK capped : capped = LastOf(all, TurnMax)
  OBVIOUS
<1>5. capped = SubSeq(all, e + 1, Len(all))
  BY <1>2, <1>3, <1>4 DEF LastOf, HealthAssumption
<1>6. capped \in Seq(Call) /\ Len(capped) = n - e /\ \A i \in 1..(n - e) : capped[i] = all[e + i]
  BY <1>2, <1>3, <1>5, SuffixIs
<1>7. PICK m \in Nat : m = n - e /\ DOMAIN capped = 1..m /\ Len(capped) = m
  BY <1>6
<1>8. PICK D \in SUBSET (1..m) : D = {i \in DOMAIN capped : \A j \in 1..i : capped[j].t < now - TurnWindow}
  <2>1. {i \in DOMAIN capped : \A j \in 1..i : capped[j].t < now - TurnWindow} \subseteq 1..m
    BY <1>7
  <2> QED
    BY <2>1
<1>9. ASSUME NEW i \in D, NEW j \in 1..i PROVE j \in D
  <2>1. j \in 1..m /\ 1..j \subseteq 1..i
    BY <1>8
  <2> QED
    BY <1>7, <1>8, <2>1
<1>10. PICK c : c = Cardinality(D)
  OBVIOUS
<1>11. c \in 0..m /\ \A i \in 1..c : i \in D
  BY <1>9, <1>10, InitialIs
<1>12. PICK q : q = NoteModelCall(s, ok)
  OBVIOUS
<1>13. q = SubSeq(capped, c + 1, Len(capped))
  BY <1>1, <1>4, <1>8, <1>10, <1>12 DEF NoteModelCall
<1>14. q \in Seq(Call) /\ Len(q) = m - c /\ \A i \in 1..(m - c) : q[i] = capped[c + i]
  <2>1. capped \in Seq(Call) /\ c \in 0..Len(capped)
    BY <1>6, <1>7, <1>11
  <2>2. q \in Seq(Call) /\ Len(q) = Len(capped) - c /\ \A i \in 1..Len(q) : q[i] = capped[c + i]
    BY ONLY <1>13, <2>1, SuffixIs
  <2> QED
    BY <1>7, <2>2
<1>15. PICK d \in Nat : d = e + c
  <2>1. e + c \in Nat
    BY <1>11
  <2> QED
    BY <2>1
<1>16. n - Len(q) = d /\ d \in 0..n /\ Len(q) <= TurnMax
  BY <1>3, <1>7, <1>11, <1>14, <1>15 DEF HealthAssumption
<1>17. ASSUME NEW i \in 1..(m - c) PROVE q[i] = all[d + i]
  <2>1. q[i] = capped[c + i] /\ c + i \in 1..(n - e)
    BY <1>3, <1>7, <1>11, <1>14
  <2>2. capped[c + i] = all[e + (c + i)]
    BY <1>6, <2>1
  <2> QED
    BY <1>3, <1>11, <1>15, <2>1, <2>2
<1>18. ASSUME NEW i \in 1..d PROVE i <= n - TurnMax \/ all[i].t < now - TurnWindow
  <2>1. CASE i <= e
    BY <1>3, <2>1 DEF HealthAssumption
  <2>2. CASE i > e
    <3>1. PICK j \in 1..c : i = e + j
      <4>1. i - e \in 1..c /\ i = e + (i - e)
        BY <1>3, <1>11, <1>15, <2>2
      <4> QED
        BY <4>1
    <3>2. j \in D /\ j \in 1..(n - e)
      BY <1>7, <1>11
    <3>3. capped[j].t < now - TurnWindow
      BY <1>8, <3>2
    <3> QED
      BY <1>6, <3>1, <3>2, <3>3
  <2> QED
    BY <1>3, <2>1, <2>2
<1> QED
  BY <1>1, <1>2, <1>12, <1>14, <1>16, <1>17, <1>18

\* The turns that count for a heartbeat sent at s after u turns had ended, and
\* whether they mean that the model is down.
CountedAt(u, s) == {i \in 1..u : i > u - TurnMax /\ ended[i].t >= s - TurnWindow}

DownAt(u, s) ==
  LET counted == CountedAt(u, s)
      run == {i \in counted : i > u - FailRun}
  IN  /\ counted # {}
      /\ \/ \A i \in counted : ~ended[i].ok
         \/ Cardinality(run) = FailRun /\ \A i \in run : ~ended[i].ok

\* The verdict h is the truth about the turns of such a heartbeat.
Reports(h, u, s) ==
  /\ u \in 0..Len(ended) /\ s \in Nat
  /\ h \in {"unknown", "ok", "degraded", "down"}
  /\ h = "down" <=> DownAt(u, s)
  /\ h \in {"unknown", "ok"} => \A i \in CountedAt(u, s) : ended[i].ok

\* The plugin's list is the end of what has happened: what it dropped is beyond
\* the cap or has left the window, and so no longer counts.
CallsInv ==
  /\ ended \in Seq(Call) /\ calls \in Seq(Call)
  /\ \A i \in 1..Len(ended) : ended[i].t <= now
  /\ \A i, j \in 1..Len(ended) : i <= j => ended[i].t <= ended[j].t
  /\ Len(calls) <= Len(ended) /\ Len(calls) <= TurnMax
  /\ \A i \in 1..Len(calls) : calls[i] = ended[(Len(ended) - Len(calls)) + i]
  /\ \A i \in 1..(Len(ended) - Len(calls)) :
       i <= Len(ended) - TurnMax \/ ended[i].t < now - TurnWindow

\* Every heartbeat, on the wire or received, told the truth when it was sent.
HealthInv ==
  /\ CallsInv
  /\ \A b \in wire : Reports(b.health, b.upto, b.sent)
  /\ \A b \in {latest} : b = NoBeat \/ Reports(b.health, b.upto, b.sent)

\* What a heartbeat reports of the list is true of what has happened.
LEMMA BeatReports ==
  ASSUME HealthAssumption, now \in Nat, CallsInv
  PROVE  Reports(TurnHealth(calls, now), Len(ended), now)
<1>1. PICK u \in Nat : u = Len(ended) /\ DOMAIN ended = 1..u
  BY DEF CallsInv
<1>2. PICK n \in Nat : n = Len(calls) /\ DOMAIN calls = 1..n
  BY DEF CallsInv
<1>3. PICK k \in Nat : k = u - n /\ n <= TurnMax
  <2>1. n <= u /\ n <= TurnMax
    BY <1>1, <1>2 DEF CallsInv
  <2>2. u - n \in Nat
    BY <2>1
  <2> QED
    BY <2>1, <2>2
<1>4. PICK F \in Nat : F = FailRun
  BY DEF HealthAssumption
<1>5. TurnMax \in Nat /\ TurnWindow \in Nat
  BY DEF HealthAssumption
<1>6. PICK C \in SUBSET (1..u) : C = CountedAt(u, now)
  BY DEF CountedAt
<1>7. PICK W \in SUBSET (1..n) : W = {i \in DOMAIN calls : calls[i].t >= now - TurnWindow}
  BY <1>2
<1>8. \A i \in 1..n : calls[i] = ended[k + i] /\ k + i \in 1..u
  BY <1>1, <1>2, <1>3 DEF CallsInv
<1>9. \A i \in 1..u : ended[i] \in Call /\ ended[i].t \in Nat
  <2>1. \A i \in 1..u : ended[i] \in Call
    BY <1>1 DEF CallsInv
  <2> QED
    BY <2>1 DEF Call
<1>10. \A i \in 1..n : i \in W <=> k + i \in C
  BY <1>2, <1>3, <1>5, <1>6, <1>7, <1>8, <1>9 DEF CountedAt
<1>11. ASSUME NEW j \in C PROVE \E i \in W : j = k + i
  <2>1. j > u - TurnMax /\ ~(ended[j].t < now - TurnWindow) /\ j \in 1..u
    BY <1>5, <1>6, <1>9 DEF CountedAt
  <2>2. ~(j <= u - TurnMax)
    BY <1>5, <2>1
  <2>3. ~(j \in 1..k)
    BY <1>1, <1>2, <1>3, <2>1, <2>2 DEF CallsInv
  <2>4. j - k \in 1..n /\ j = k + (j - k)
    BY <1>3, <2>1, <2>3
  <2> QED
    BY <1>10, <2>4
<1>12. PICK B \in SUBSET W : B = {i \in W : ~calls[i].ok}
  OBVIOUS
<1>13. \A i \in W : k + i \in C /\ (i \in B <=> ~ended[k + i].ok)
  BY <1>7, <1>8, <1>10, <1>12
<1>14. W = {} <=> C = {}
  BY <1>11, <1>13
<1>15. W = B <=> \A j \in C : ~ended[j].ok
  BY <1>11, <1>13
<1>16. B = {} <=> \A j \in C : ended[j].ok
  BY <1>11, <1>13
<1>17. ASSUME NEW i \in W, NEW j \in i..n PROVE j \in W
  <2>1. j \in 1..n /\ i \in 1..n /\ i <= j
    OBVIOUS
  <2>2. ended[k + i].t <= ended[k + j].t
    <3>1. \A x, y \in 1..u : x <= y => ended[x].t <= ended[y].t
      BY <1>1 DEF CallsInv
    <3>2. k + i \in 1..u /\ k + j \in 1..u /\ k + i <= k + j
      BY <1>8, <2>1
    <3> QED
      BY <3>1, <3>2
  <2>3. ended[k + i].t \in Nat /\ ended[k + j].t \in Nat
    BY <1>8, <1>9, <2>1
  <2>4. calls[j].t >= now - TurnWindow
    BY <1>5, <1>7, <1>8, <2>1, <2>2, <2>3
  <2> QED
    BY <1>2, <1>7, <2>1, <2>4
<1>18. PICK tail : tail = {i \in W : \A j \in W : j >= i => j \in B}
  OBVIOUS
<1>19. Cardinality(tail) >= F <=> F <= n /\ ((n - F) + 1)..n \subseteq W \cap B
  <2>1. \A i \in W : i..n \subseteq W
    BY <1>17
  <2>2. Cardinality({i \in W : \A j \in W : j >= i => j \in B}) >= F
          <=> F <= n /\ ((n - F) + 1)..n \subseteq W \cap B
    BY ONLY <2>1, n \in Nat, F \in Nat, W \in SUBSET (1..n), TailIs
  <2> QED
    BY <1>18, <2>2
<1>20. PICK run : run = {i \in C : i > u - F}
  OBVIOUS
<1>21. Cardinality(run) = F <=> F <= u /\ ((u - F) + 1)..u \subseteq C
  BY <1>20, RunIs
<1>22. ASSUME F <= n, ((n - F) + 1)..n \subseteq W \cap B
       PROVE  F <= u /\ ((u - F) + 1)..u \subseteq C /\ \A j \in run : ~ended[j].ok
  <2>1. ASSUME NEW j \in ((u - F) + 1)..u PROVE j \in C /\ ~ended[j].ok
    <3>1. PICK i \in ((n - F) + 1)..n : j = k + i
      <4>1. j - k \in ((n - F) + 1)..n /\ j = k + (j - k)
        BY <1>3
      <4> QED
        BY <4>1
    <3> QED
      BY <1>13, <1>22, <3>1
  <2>2. \A j \in run : j \in ((u - F) + 1)..u
    BY <1>20
  <2>3. F <= u
    BY <1>3, <1>22
  <2> QED
    BY <2>1, <2>2, <2>3
<1>23. ASSUME F <= u, ((u - F) + 1)..u \subseteq C, \A j \in run : ~ended[j].ok
       PROVE  F <= n /\ ((n - F) + 1)..n \subseteq W \cap B
  <2>1. F <= n
    <3>1. CASE F = 0
      BY <3>1
    <3>2. CASE F > 0
      <4>1. (u - F) + 1 \in C
        BY <1>23, <3>2
      <4>2. PICK i \in W : (u - F) + 1 = k + i
        BY <1>11, <4>1
      <4> QED
        BY <1>3, <4>2
    <3> QED
      BY <3>1, <3>2
  <2>2. ASSUME NEW i \in ((n - F) + 1)..n PROVE i \in W \cap B
    <3>1. k + i \in ((u - F) + 1)..u /\ i \in 1..n
      BY <1>3, <2>1
    <3>2. k + i \in C /\ k + i > u - F
      BY <1>23, <3>1
    <3>3. k + i \in run
      BY <1>20, <3>2
    <3> QED
      BY <1>10, <1>13, <1>23, <3>1, <3>2, <3>3
  <2> QED
    BY <2>1, <2>2
<1>24. Cardinality(tail) >= F <=> Cardinality(run) = F /\ \A j \in run : ~ended[j].ok
  BY <1>19, <1>21, <1>22, <1>23
<1>25. PICK h : h = TurnHealth(calls, now)
  OBVIOUS
<1>26. h = IF W = {} THEN "unknown"
           ELSE IF W = B \/ Cardinality(tail) >= F THEN "down"
           ELSE IF B # {} THEN "degraded" ELSE "ok"
  BY <1>4, <1>7, <1>12, <1>18, <1>25, Zenon DEF TurnHealth
<1>27. DownAt(u, now) <=> C # {} /\ ((\A j \in C : ~ended[j].ok)
                                      \/ (Cardinality(run) = F /\ \A j \in run : ~ended[j].ok))
  BY <1>4, <1>6, <1>20 DEF DownAt
<1>28. h = "down" <=> DownAt(u, now)
  BY <1>14, <1>15, <1>24, <1>26, <1>27
<1>29. h \in {"unknown", "ok"} => \A j \in C : ended[j].ok
  BY <1>14, <1>16, <1>26
<1>30. h \in {"unknown", "ok", "degraded", "down"}
  BY <1>26
<1> QED
  BY <1>1, <1>6, <1>25, <1>28, <1>29, <1>30 DEF Reports

\* A report stays true while what has happened is only added to.
LEMMA ReportsStay ==
  ASSUME ended \in Seq(Call), ended' \in Seq(Call), Len(ended') >= Len(ended),
         \A i \in 1..Len(ended) : ended'[i] = ended[i],
         NEW h, NEW u, NEW s, Reports(h, u, s)
  PROVE  Reports(h, u, s)'
<1>1. u \in 0..Len(ended) /\ u \in 0..Len(ended') /\ Len(ended) \in Nat
  BY DEF Reports
<1>2. \A i \in 1..u : ended'[i] = ended[i]
  BY <1>1
<1>3. CountedAt(u, s)' = CountedAt(u, s)
  BY <1>1, <1>2 DEF CountedAt
<1>4. \A i \in CountedAt(u, s) : ended'[i] = ended[i]
  BY <1>2 DEF CountedAt
<1>5. DownAt(u, s)' <=> DownAt(u, s)
  BY <1>3, <1>4 DEF DownAt
<1> QED
  BY <1>1, <1>3, <1>4, <1>5 DEF Reports

\* An ending is noted in the list and in what has happened.
LEMMA NoteStep ==
  ASSUME HealthAssumption, now \in Nat, now' = now, CallsInv, NEW ok \in BOOLEAN,
         calls' = NoteModelCall(calls, ok), ended' = Append(ended, [t |-> now, ok |-> ok])
  PROVE  CallsInv' /\ Len(ended') >= Len(ended) /\ \A i \in 1..Len(ended) : ended'[i] = ended[i]
<1>1. PICK u \in Nat : u = Len(ended) /\ DOMAIN ended = 1..u
  BY DEF CallsInv
<1>2. PICK n \in Nat : n = Len(calls) /\ DOMAIN calls = 1..n
  BY DEF CallsInv
<1>3. PICK k \in Nat : k = u - n
  <2>1. u - n \in Nat
    BY <1>1, <1>2 DEF CallsInv
  <2> QED
    BY <2>1
<1>4. PICK x \in Call : x = [t |-> now, ok |-> ok]
  <2>1. [t |-> now, ok |-> ok] \in Call
    BY Zenon DEF Call
  <2> QED
    BY <2>1
<1>5. x.t = now
  BY <1>4
<1>6. PICK all : all = Append(calls, x)
  OBVIOUS
<1>7. all \in Seq(Call) /\ Len(all) = n + 1 /\ all[n + 1] = x /\ \A i \in 1..n : all[i] = calls[i]
  BY <1>2, <1>6 DEF CallsInv
<1>8. /\ ended' = Append(ended, x) /\ ended' \in Seq(Call) /\ Len(ended') = u + 1 /\ ended'[u + 1] = x
      /\ \A i \in 1..u : ended'[i] = ended[i]
  BY <1>1, <1>4 DEF CallsInv
<1>9. PICK q : q = calls'
  OBVIOUS
<1>10. /\ q \in Seq(Call) /\ Len(all) - Len(q) \in 0..Len(all) /\ Len(q) <= TurnMax
       /\ \A i \in 1..Len(q) : q[i] = all[(Len(all) - Len(q)) + i]
       /\ \A i \in 1..(Len(all) - Len(q)) : i <= Len(all) - TurnMax \/ all[i].t < now - TurnWindow
  <2>1. calls \in Seq(Call)
    BY DEF CallsInv
  <2> QED
    BY <1>4, <1>6, <1>9, <2>1, NoteIs
<1>11. PICK d \in 0..(n + 1) : d = (n + 1) - Len(q)
  BY <1>7, <1>10
<1>12. Len(q) \in Nat /\ Len(q) = (n + 1) - d /\ (u + 1) - Len(q) = k + d
  BY <1>3, <1>10, <1>11
<1>13. ASSUME NEW j \in 1..(n + 1) PROVE all[j] = ended'[k + j] /\ k + j \in 1..(u + 1)
  <2>1. CASE j = n + 1
    <3>1. k + j = u + 1 /\ u + 1 \in 1..(u + 1)
      BY <1>3, <2>1
    <3>2. all[j] = x /\ ended'[k + j] = x
      BY <1>7, <1>8, <2>1, <3>1
    <3> QED
      BY <3>1, <3>2
  <2>2. CASE j \in 1..n
    <3>1. k + j \in 1..u
      BY <1>3, <2>2
    <3>2. calls[j] = ended[k + j]
      BY <1>1, <1>2, <1>3, <2>2 DEF CallsInv
    <3>3. k + j \in 1..(u + 1)
      BY <3>1
    <3> QED
      BY <1>7, <1>8, <2>2, <3>1, <3>2, <3>3
  <2>3. j = n + 1 \/ j \in 1..n
    OBVIOUS
  <2> QED
    BY <2>1, <2>2, <2>3
<1>14. ASSUME NEW i \in 1..Len(q) PROVE q[i] = ended'[(k + d) + i]
  <2>1. q[i] = all[d + i] /\ d + i \in 1..(n + 1)
    BY <1>7, <1>10, <1>11, <1>12
  <2>2. k + (d + i) = (k + d) + i
    BY <1>12
  <2> QED
    BY <1>13, <2>1, <2>2
<1>15. TurnMax \in Nat /\ TurnWindow \in Nat
  BY DEF HealthAssumption
<1>16. ASSUME NEW i \in 1..(k + d) PROVE i <= (u + 1) - TurnMax \/ ended'[i].t < now - TurnWindow
  <2>1. CASE i <= k
    <3>1. i \in 1..(Len(ended) - Len(calls)) /\ i \in 1..u
      BY <1>1, <1>2, <1>3, <2>1
    <3>2. i <= u - TurnMax \/ ended[i].t < now - TurnWindow
      BY <1>1, <3>1 DEF CallsInv
    <3> QED
      BY <1>8, <1>15, <3>1, <3>2
  <2>2. CASE i > k
    <3>1. PICK j \in 1..d : i = k + j
      <4>1. i - k \in 1..d /\ i = k + (i - k)
        BY <2>2
      <4> QED
        BY <4>1
    <3>2. j <= (n + 1) - TurnMax \/ all[j].t < now - TurnWindow
      BY <1>7, <1>10, <1>11
    <3>3. j \in 1..(n + 1)
      OBVIOUS
    <3>4. all[j] = ended'[i]
      BY <1>13, <3>1, <3>3
    <3>5. j <= (n + 1) - TurnMax => i <= (u + 1) - TurnMax
      BY <1>3, <1>15, <3>1
    <3> QED
      BY <3>2, <3>4, <3>5
  <2>3. i <= k \/ i > k
    OBVIOUS
  <2> QED
    BY <2>1, <2>2, <2>3
<1>17. \A i \in 1..(u + 1) : ended'[i].t <= now
  <2>1. \A i \in 1..u : ended[i].t <= now
    BY <1>1 DEF CallsInv
  <2> QED
    BY <1>5, <1>8, <2>1
<1>18. \A i, j \in 1..(u + 1) : i <= j => ended'[i].t <= ended'[j].t
  <2>1. \A i, j \in 1..u : i <= j => ended[i].t <= ended[j].t
    BY <1>1 DEF CallsInv
  <2> SUFFICES ASSUME NEW i \in 1..(u + 1), NEW j \in 1..(u + 1), i <= j
               PROVE  ended'[i].t <= ended'[j].t
    OBVIOUS
  <2>2. CASE j = u + 1
    BY <1>5, <1>8, <1>17, <2>2
  <2>3. CASE j \in 1..u
    <3>1. i \in 1..u
      BY <2>3
    <3> QED
      BY <1>8, <2>1, <2>3, <3>1
  <2>4. j = u + 1 \/ j \in 1..u
    OBVIOUS
  <2> QED
    BY <2>2, <2>3, <2>4
<1>19. Len(calls') = Len(q) /\ Len(ended') - Len(calls') = k + d /\ Len(q) <= u + 1
  BY <1>3, <1>8, <1>9, <1>11, <1>12
<1>20. CallsInv'
  BY <1>8, <1>9, <1>10, <1>14, <1>16, <1>17, <1>18, <1>19 DEF CallsInv
<1> QED
  BY <1>1, <1>8, <1>20

\* Time passing takes turns out of the window, never into it.
LEMMA CallsStand ==
  ASSUME HealthAssumption, now \in Nat, now' \in Nat, now' >= now, CallsInv, UNCHANGED <<calls, ended>>
  PROVE  CallsInv'
<1>1. \A i \in 1..Len(ended) : ended[i].t \in Nat
  <2>1. \A i \in 1..Len(ended) : ended[i] \in Call
    BY DEF CallsInv
  <2> QED
    BY <2>1 DEF Call
<1>2. \A i \in 1..Len(ended) : ended[i].t <= now'
  BY <1>1 DEF CallsInv
<1>3. Len(ended) \in Nat /\ Len(calls) \in Nat
  BY DEF CallsInv
<1>4. \A i \in 1..(Len(ended) - Len(calls)) :
        i <= Len(ended) - TurnMax \/ ended[i].t < now' - TurnWindow
  <2> SUFFICES ASSUME NEW i \in 1..(Len(ended) - Len(calls)), ~(i <= Len(ended) - TurnMax)
               PROVE  ended[i].t < now' - TurnWindow
    OBVIOUS
  <2>1. ended[i].t < now - TurnWindow
    BY DEF CallsInv
  <2>2. ended[i].t \in Nat
    BY <1>1, <1>3
  <2> QED
    BY <2>1, <2>2 DEF HealthAssumption
<1> QED
  BY <1>2, <1>4 DEF CallsInv

LEMMA HealthKept ==
  ASSUME HealthInv, CallsInv', Len(ended') >= Len(ended), \A i \in 1..Len(ended) : ended'[i] = ended[i],
         UNCHANGED <<wire, latest>>
  PROVE  HealthInv'
<1>1. ended \in Seq(Call) /\ ended' \in Seq(Call)
  BY DEF HealthInv, CallsInv
<1>2. ASSUME NEW b \in wire PROVE Reports(b.health, b.upto, b.sent)'
  <2>1. Reports(b.health, b.upto, b.sent)
    BY DEF HealthInv
  <2> QED
    BY <1>1, <2>1, ReportsStay
<1>3. ASSUME NEW b \in {latest} PROVE b = NoBeat \/ Reports(b.health, b.upto, b.sent)'
  <2>1. b = NoBeat \/ Reports(b.health, b.upto, b.sent)
    BY DEF HealthInv
  <2> QED
    BY <1>1, <2>1, ReportsStay
<1> QED
  BY <1>2, <1>3 DEF HealthInv, NoBeat

LEMMA HealthEnds ==
  ASSUME HealthAssumption, now \in Nat, now' = now, HealthInv, NEW ok \in BOOLEAN,
         calls' = NoteModelCall(calls, ok), ended' = Append(ended, [t |-> now, ok |-> ok]),
         UNCHANGED <<wire, latest>>
  PROVE  HealthInv'
<1>1. CallsInv
  BY DEF HealthInv
<1>2. CallsInv' /\ Len(ended') >= Len(ended) /\ \A i \in 1..Len(ended) : ended'[i] = ended[i]
  BY <1>1, NoteStep
<1> QED
  BY <1>2, HealthKept

LEMMA HealthStands ==
  ASSUME HealthAssumption, now \in Nat, now' \in Nat, now' >= now, HealthInv,
         UNCHANGED <<calls, ended, wire, latest>>
  PROVE  HealthInv'
<1>1. CallsInv'
  BY CallsStand DEF HealthInv
<1>2. Len(ended) \in Nat
  BY DEF HealthInv, CallsInv
<1> QED
  BY <1>1, <1>2, HealthKept

LEMMA HealthBeats ==
  ASSUME HealthAssumption, now \in Nat, now' = now, HealthInv, beat
  PROVE  HealthInv'
<1>1. /\ wire' = wire \cup {[sent |-> now, health |-> TurnHealth(calls, now), upto |-> Len(ended)]}
      /\ UNCHANGED <<calls, latest, ended>>
  BY DEF beat
<1>2. PICK h, u, s : h = TurnHealth(calls, now) /\ u = Len(ended) /\ s = now
  OBVIOUS
<1>3. Reports(h, u, s) /\ ended \in Seq(Call) /\ Len(ended) \in Nat
  BY <1>2, BeatReports DEF HealthInv, CallsInv
<1>4. Reports(h, u, s)'
  BY <1>1, <1>3, ReportsStay
<1>5. PICK made : made = [sent |-> s, health |-> h, upto |-> u]
  OBVIOUS
<1>6. made.sent = s /\ made.health = h /\ made.upto = u
  BY <1>5
<1>7. ASSUME NEW b \in wire' PROVE Reports(b.health, b.upto, b.sent)'
  <2>1. CASE b = made
    BY <1>4, <1>6, <2>1
  <2>2. CASE b \in wire
    <3>1. Reports(b.health, b.upto, b.sent)
      BY <2>2 DEF HealthInv
    <3> QED
      BY <1>1, <1>3, <3>1, ReportsStay
  <2> QED
    BY <1>1, <1>2, <1>5, <2>1, <2>2
<1>8. ASSUME NEW b \in {latest'} PROVE b = NoBeat \/ Reports(b.health, b.upto, b.sent)'
  <2>1. b = NoBeat \/ Reports(b.health, b.upto, b.sent)
    BY <1>1 DEF HealthInv
  <2> QED
    BY <1>1, <1>3, <2>1, ReportsStay
<1>9. CallsInv'
  BY <1>1, CallsStand DEF HealthInv
<1> QED
  BY <1>7, <1>8, <1>9 DEF HealthInv, NoBeat

LEMMA HealthHears ==
  ASSUME HealthAssumption, now \in Nat, now' = now, HealthInv, NEW b \in wire,
         beatReceived(b) \/ beatLost(b)
  PROVE  HealthInv'
<1>1. wire' \subseteq wire /\ UNCHANGED <<calls, ended>>
  BY DEF beatReceived, beatLost
<1>2. ended \in Seq(Call) /\ Len(ended) \in Nat
  BY DEF HealthInv, CallsInv
<1>3. ASSUME NEW h, NEW u, NEW s, Reports(h, u, s) PROVE Reports(h, u, s)'
  BY <1>1, <1>2, <1>3, ReportsStay
<1>4. ASSUME NEW c \in wire' PROVE Reports(c.health, c.upto, c.sent)'
  <2>1. Reports(c.health, c.upto, c.sent)
    BY <1>1 DEF HealthInv
  <2> QED
    BY <1>3, <2>1
<1>5. ASSUME NEW c \in {latest'} PROVE c = NoBeat \/ Reports(c.health, c.upto, c.sent)'
  <2>1. CASE beatReceived(b)
    <3>1. c = [at |-> now, sent |-> b.sent, health |-> b.health, upto |-> b.upto]
      BY <2>1 DEF beatReceived
    <3>2. c.sent = b.sent /\ c.health = b.health /\ c.upto = b.upto
      BY <3>1
    <3>3. Reports(b.health, b.upto, b.sent)
      BY DEF HealthInv
    <3>4. Reports(c.health, c.upto, c.sent)
      BY <3>2, <3>3
    <3> QED
      BY <1>3, <3>4
  <2>2. CASE beatLost(b)
    <3>1. c = NoBeat \/ Reports(c.health, c.upto, c.sent)
      BY <2>2 DEF beatLost, HealthInv
    <3> QED
      BY <1>3, <3>1
  <2> QED
    BY <2>1, <2>2
<1>6. CallsInv'
  BY <1>1, CallsStand DEF HealthInv
<1> QED
  BY <1>4, <1>5, <1>6 DEF HealthInv, NoBeat

LEMMA HealthStep == HealthInv /\ Clock /\ [ServicesNext]_services => HealthInv'
<1> SUFFICES ASSUME HealthInv, Clock, [ServicesNext]_services PROVE HealthInv'
  OBVIOUS
<1>1. now \in Nat /\ now' \in Nat /\ now' >= now
  BY ClockStep
<1>2. CASE UNCHANGED healthVars
  BY <1>1, <1>2, HealthStands, HealthAssumption DEF healthVars
<1>3. CASE HealthNext /\ UNCHANGED now
  <2>1. ASSUME NEW u \in Turns, spawnTurn(u) PROVE HealthInv'
    BY <1>1, <2>1, HealthStands, HealthAssumption DEF spawnTurn
  <2>2. ASSUME NEW u \in Turns, turnTimesOut(u) PROVE HealthInv'
    <3>1. /\ calls' = NoteModelCall(calls, FALSE) /\ ended' = Append(ended, [t |-> now, ok |-> FALSE])
          /\ UNCHANGED <<wire, latest>>
      BY <2>2 DEF turnTimesOut, NotedOnce
    <3> QED
      BY <1>1, <1>3, <3>1, HealthEnds, HealthAssumption
  <2>3. ASSUME NEW u \in Turns, NEW ok \in BOOLEAN, childExits(u, ok) PROVE HealthInv'
    <3>1. CASE child[u] = "running"
      <4>1. /\ calls' = NoteModelCall(calls, ok) /\ ended' = Append(ended, [t |-> now, ok |-> ok])
            /\ UNCHANGED <<wire, latest>>
        BY <2>3, <3>1 DEF childExits, NotedOnce
      <4> QED
        BY <1>1, <1>3, <4>1, HealthEnds, HealthAssumption
    <3>2. CASE child[u] # "running"
      BY <1>1, <2>3, <3>2, HealthStands, HealthAssumption DEF childExits, NotedOnce
    <3> QED
      BY <3>1, <3>2
  <2>4. CASE beat
    BY <1>1, <1>3, <2>4, HealthBeats, HealthAssumption
  <2>5. ASSUME NEW b \in wire, beatReceived(b) \/ beatLost(b) PROVE HealthInv'
    BY <1>1, <1>3, <2>5, HealthHears, HealthAssumption
  <2>6. ASSUME NEW s \in {"active", "paused", "quarantined"}, statusChanges(s) PROVE HealthInv'
    BY <1>1, <2>6, HealthStands, HealthAssumption DEF statusChanges
  <2> QED
    BY <1>3, <2>1, <2>2, <2>3, <2>4, <2>5, <2>6 DEF HealthNext
<1> QED
  BY <1>2, <1>3, Frames

LEMMA AlarmFollows == HealthInv => AlarmIsTrue
<1> SUFFICES ASSUME HealthInv PROVE AlarmIsTrue
  OBVIOUS
<1>1. latest = NoBeat \/ Reports(latest.health, latest.upto, latest.sent)
  BY DEF HealthInv
<1>2. ASSUME latest # NoBeat
      PROVE  /\ latest.health = "down" <=> ModelDown
             /\ latest.health \in {"unknown", "ok", "degraded", "down"}
             /\ latest.health \in {"unknown", "ok"} => \A i \in CountedTurns : ended[i].ok
  <2>1. CountedTurns = CountedAt(latest.upto, latest.sent)
    BY DEF CountedTurns, CountedAt
  <2>2. ModelDown <=> DownAt(latest.upto, latest.sent)
    BY <2>1 DEF ModelDown, DownAt
  <2> QED
    BY <1>1, <1>2, <2>1, <2>2 DEF Reports
<1>3. CASE latest = NoBeat \/ now - latest.at > StaleAfter \/ standing = "quarantined"
  BY <1>3 DEF AlarmIsTrue, Attention, AgentHealth
<1>4. CASE ~(latest = NoBeat \/ now - latest.at > StaleAfter \/ standing = "quarantined")
  <2>1. /\ "critical" \in Attention <=> latest.health = "down"
        /\ Attention = {} => latest.health \notin {"down", "degraded"}
    BY <1>4 DEF Attention, AgentHealth
  <2>2. ("critical" \in Attention) = ModelDown
    <3>1. ModelDown \in BOOLEAN
      BY DEF ModelDown
    <3>2. "critical" \in Attention <=> ModelDown
      BY <1>2, <1>4, <2>1
    <3> QED
      BY <3>1, <3>2
  <2>3. Attention = {} => \A i \in CountedTurns : ended[i].ok
    BY <1>2, <1>4, <2>1
  <2> QED
    BY <1>4, <2>2, <2>3 DEF AlarmIsTrue
<1> QED
  BY <1>3, <1>4

\* For any window, cap, run of failures and number of turns: the alarm is the truth
\* about the turns that had ended when the last heartbeat heard was sent.
THEOREM AlarmStaysTrue == ServicesSpec => []AlarmIsTrue
<1>1. ServicesInit => Clock /\ HealthInv
  BY ReplayAssumption, HealthAssumption
  DEF ServicesInit, HealthInit, ReplayInit, Clock, HealthInv, CallsInv
<1>2. Clock /\ [ServicesNext]_services => Clock'
  BY ClockStep
<1> QED
  BY <1>1, <1>2, HealthStep, AlarmFollows, PTL DEF ServicesSpec, services
=============================================================================
