--------------------------- MODULE Conversations ----------------------------
(***************************************************************************)
(* Rooms, message routing, who may read what, and the conversation floor   *)
(* of packages/relay/src/db.ts with the routes in front of them.           *)
(*                                                                         *)
(* A conversation id is a room's id, an agent's direct thread with the     *)
(* operator, or any id a sender made up; senders choose it freely, so an   *)
(* agent may write under a thread it has never seen. Room ids are random   *)
(* and never reused, and the members of a room are fixed at its creation.  *)
(*                                                                         *)
(* Abstracted: bodies, labels, signatures and limits; the deliveries' life *)
(* after they are queued (module Delivery); the sender gate (MessageGate). *)
(***************************************************************************)
EXTENDS RelayTime, Sequences, FiniteSets

CONSTANTS
  Fleet,      \* agents of one fleet
  Op,         \* the fleet's operator agent, op_<fleet>
  Threads,    \* conversation ids senders make up
  Rooms,      \* ids createRoom may draw
  FloorTtl,   \* ttl_seconds the clients ask for, after the route's clamp
  MaxSent     \* bound: messages stored

VARIABLES
  room,    \* Rooms -> [state, members]: tables rooms and room_members
  sent,    \* messages in order: [sender, conv, dlv, ref, aud]; aud is history
  floor,   \* conversation_floors: [holder, until], until 0 when no row
  lease    \* history: until when each agent believes it holds each floor

convVars == <<room, sent, floor, lease>>

\* canonicalDmId
DmId(a) == <<"dm", a>>
Convs == Threads \cup Rooms \cup {DmId(a) : a \in Fleet}

\* Room ids are drawn at random: no thread of a sender's own has one.
ASSUME ConversationsAssumption ==
  /\ FloorTtl \in Nat
  /\ Rooms \cap (Threads \cup {DmId(a) : a \in Fleet}) = {}

NoRoom == [state |-> "none", members |-> {}]
NoFloor == [holder |-> Op, until |-> 0]

ConvInit ==
  /\ room = [r \in Rooms |-> NoRoom]
  /\ sent = <<>>
  /\ floor = [c \in Convs |-> NoFloor]
  /\ lease = [a \in Fleet |-> [c \in Convs |-> 0]]

-----------------------------------------------------------------------------
(* Rooms *)

isRoomConversation(c) == c \in Rooms /\ room[c].state = "open"

Members(c) == IF isRoomConversation(c) THEN room[c].members ELSE {}

\* An agent that creates a room is a member whether it asked to be or not.
createRoom(by, r, requested) ==
  /\ room[r].state = "none"
  /\ room' = [room EXCEPT ![r] =
       [state |-> "open", members |-> requested \cup ({by} \ {Op})]]
  /\ UNCHANGED <<sent, floor, lease>>

deleteRoom(r) ==
  /\ room[r].state = "open"
  /\ room' = [room EXCEPT ![r] = [state |-> "deleted", members |-> {}]]
  /\ UNCHANGED <<sent, floor, lease>>

-----------------------------------------------------------------------------
(* Sending *)

\* The rows of one message. aud is everybody the sender addressed: the whole
\* room, or the recipients.
Store(s, c, dlv, aud, ref) ==
  /\ Len(sent) < MaxSent
  /\ sent' = Append(sent, [sender |-> s, conv |-> c, dlv |-> dlv, ref |-> ref, aud |-> aud])
  /\ UNCHANGED <<room, floor, lease>>

\* Nobody can name a room before its random id is drawn.
Known == Convs \ {r \in Rooms : room[r].state = "none"}

\* A message may quote any message id as the one it replies to.
Refs == 0..Len(sent)

\* Recipient kind "group": only a member posts into a room.
sendToRoom(a, r, ref) ==
  /\ a \in Members(r)
  /\ Store(a, r, Members(r) \ {a}, Members(r), ref)

\* A room's id is refused for any recipient but the room.
Threadable(c) == ~isRoomConversation(c)

\* The thread with the operator is canonical, whatever id was passed.
sendToAgent(a, b, c, ref) ==
  LET conv == IF b = Op THEN DmId(a) ELSE c IN
  /\ Threadable(conv)
  /\ Store(a, conv, {b}, {b}, ref)

broadcast(a, c, ref) ==
  /\ Threadable(c)
  /\ Store(a, c, Fleet \ {a}, Fleet \ {a}, ref)

\* createOperatorMessage: under a room's id the message goes to the room's
\* members, whatever recipient was named.
operatorSends(c, recipients, ref) ==
  /\ IF isRoomConversation(c)
     THEN Store(Op, c, Members(c), Members(c), ref)
     ELSE /\ recipients = Fleet \/ Cardinality(recipients) = 1
          /\ Store(Op, c, recipients, recipients, ref)

\* isConversationParticipant
Participant(a, c) ==
  \/ a \in Members(c)
  \/ \E i \in DOMAIN sent : sent[i].conv = c /\ a \in sent[i].dlv \cup {sent[i].sender}

\* resumeConversation outside rooms: everybody who took part.
resumeThread(c) ==
  LET crowd == {a \in Fleet : Participant(a, c)} IN
  /\ ~isRoomConversation(c)
  /\ crowd # {}
  /\ Store(Op, c, crowd, crowd, 0)

-----------------------------------------------------------------------------
(* Reading *)

\* Mutant: whoever takes part in a conversation reads all of it.
VisibleToParticipants(i, a) == Participant(a, sent[i].conv)

\* messageVisibleToSql
Visible(i, a) ==
  \/ sent[i].sender = a
  \/ isRoomConversation(sent[i].conv) /\ a \in Members(sent[i].conv)
  \/ ~isRoomConversation(sent[i].conv) /\ a \in sent[i].dlv

\* getConversationTail, served to a participant with a granted floor.
FloorTail(a, c) == {i \in DOMAIN sent : Participant(a, c) /\ sent[i].conv = c /\ Visible(i, a)}

Inbox(a) == {i \in DOMAIN sent : a \in sent[i].dlv}

\* The room history an inbox reply carries for the rooms its messages are in.
History(a) ==
  LET rooms == {c \in Rooms : a \in Members(c) /\ \E i \in Inbox(a) : sent[i].conv = c} IN
  {i \in DOMAIN sent : sent[i].conv \in rooms}

\* The reply_to snapshots: of visible messages in the same conversation.
Quoted(a) ==
  {i \in DOMAIN sent :
     Visible(i, a) /\ \E j \in Inbox(a) : sent[j].ref = i /\ sent[j].conv = sent[i].conv}

\* getSentMessageStatus and listSentMessages
OwnSent(a) == {i \in DOMAIN sent : sent[i].sender = a}

Readable(a) == Inbox(a) \cup History(a) \cup Quoted(a) \cup OwnSent(a) \cup UNION {FloorTail(a, c) : c \in Convs}

-----------------------------------------------------------------------------
(* The floor *)

FloorFree(c, a) == floor[c].until <= now \/ floor[c].holder = a

\* POST floor. The reply may be lost; the client asks again with the same ttl.
acquireFloor(a, c, arrives) ==
  /\ Participant(a, c)
  /\ FloorFree(c, a)
  /\ floor' = [floor EXCEPT ![c] = [holder |-> a, until |-> now + FloorTtl]]
  /\ lease' = IF arrives THEN [lease EXCEPT ![a][c] = now + FloorTtl] ELSE lease
  /\ UNCHANGED <<room, sent>>

\* Mutant: the release does not look at the holder.
ReleasedAny(a, c) == NoFloor

Released(a, c) == IF floor[c].holder = a THEN NoFloor ELSE floor[c]

\* DELETE floor, possibly long after the lease ran out and moved on.
releaseFloor(a, c) ==
  /\ Participant(a, c)
  /\ floor' = [floor EXCEPT ![c] = Released(a, c)]
  /\ lease' = [lease EXCEPT ![a][c] = 0]
  /\ UNCHANGED <<room, sent>>

-----------------------------------------------------------------------------
RoomStep ==
  \/ \E by \in Fleet \cup {Op}, r \in Rooms, m \in SUBSET Fleet : createRoom(by, r, m)
  \/ \E r \in Rooms : deleteRoom(r)

SendStep ==
  \/ \E a \in Fleet, r \in Rooms, ref \in Refs : sendToRoom(a, r, ref)
  \/ \E a \in Fleet, b \in Fleet \cup {Op}, c \in Known, ref \in Refs : sendToAgent(a, b, c, ref)
  \/ \E a \in Fleet, c \in Known, ref \in Refs : broadcast(a, c, ref)
  \/ \E c \in Known, b \in SUBSET Fleet, ref \in Refs : operatorSends(c, b, ref)
  \/ \E c \in Known : resumeThread(c)

FloorStep ==
  \/ \E a \in Fleet, r \in Rooms, arrives \in BOOLEAN : acquireFloor(a, r, arrives)
  \/ \E a \in Fleet, r \in Rooms : releaseFloor(a, r)

\* Nothing that is written under a thread reaches an agent that neither sent
\* it nor was addressed by it: not by joining the thread, by quoting the
\* message, through the floor's tail or a room's history, nor by the deletion
\* of the room (messageVisibleToSql and the room guard of createMessage).
ReadWithinAudience ==
  \A a \in Fleet : \A i \in Readable(a) : a \in sent[i].aud \cup {sent[i].sender}

\* At most one agent believes it holds a conversation's floor: a lease that
\* ran out, a lost reply and a release that comes after somebody else took
\* over never let two agents speak at once (acquireFloor, releaseFloor).
FloorExclusive ==
  \A c \in Convs : Cardinality({a \in Fleet : lease[a][c] > now}) <= 1
=============================================================================
