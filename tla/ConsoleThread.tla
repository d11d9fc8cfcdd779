--------------------------- MODULE ConsoleThread ----------------------------
(***************************************************************************)
(* The conversation view of the operator console: useConsoleState in       *)
(* packages/relay/frontend/src/consoleState.js with optimistic.js,         *)
(* compose.js and hooks.js. The newest page of the selected thread is      *)
(* polled, older pages are loaded on demand and kept, and a message the    *)
(* operator sends is a bubble of its thread until the relay echoes it.     *)
(*                                                                         *)
(* Every request is answered later, in any order, or fails. Its            *)
(* continuation works with the state of the render that made it, which it  *)
(* carries along, and sets the state of the render it lands in.            *)
(*                                                                         *)
(* Abstracted: what the other panels show, attachments, mentions, quoted   *)
(* messages, layout, the composer and its text: all messages say the same, *)
(* the case optimistic.js names. The effect of a selection is part of its  *)
(* step.                                                                   *)
(***************************************************************************)
EXTENDS Naturals, Sequences, FiniteSets

CONSTANTS
  Threads,      \* conversation ids
  RoomThreads,  \* those of rooms, which the composer can address
  FeedThreads,  \* the one-way ones
  NoThread,     \* none selected, or a request that names none
  Pending,      \* "__pending__", the conversation of a bubble the relay is to assign one
  PageLimit,    \* TIMELINE_LIMIT
  MaxEvents,    \* bound: events the relay records
  MaxSends,     \* bound: messages the operator sends
  MaxCalls      \* bound: requests under way

VARIABLES
  eventLog,    \* the relay's events (of a feed: its messages) in the order of
               \* (created_at, id): [conv, msg]
  signedIn,    \* session.token
  selected,    \* selectedConversationId
  newest,      \* timelineEvents, as positions in eventLog
  older,       \* olderEvents
  hasMore,     \* hasMoreHistory
  loading,     \* loadingHistory
  bubbles,     \* optimistic: [id, conv, bound]
  sending,
  requests,    \* requests under way
  sends,       \* history: messages sent
  settled      \* history: messages echoed by a page, given back to the composer, or
               \* gone with the session

threadVars == <<eventLog, signedIn, selected, newest, older, hasMore, loading, bubbles,
                sending, requests, sends, settled>>
viewVars == <<selected, newest, older, hasMore, loading>>

ThreadInit ==
  /\ eventLog = <<>> /\ signedIn = TRUE /\ selected = NoThread
  /\ newest = {} /\ older = {} /\ hasMore = TRUE /\ loading = FALSE
  /\ bubbles = {} /\ sending = FALSE /\ requests = {}
  /\ sends = 0 /\ settled = {}

-----------------------------------------------------------------------------
(* The relay *)

\* getConversation, sorted newest first, as of the moment the log had n events:
\* a page of the events of c before position b.
Page(c, n, b) ==
  LET mine == {e \in 1..n : eventLog[e].conv = c /\ e < b}
  IN  {e \in mine : Cardinality({f \in mine : f > e}) < PageLimit}

Least(S) == CHOOSE e \in S : \A f \in S : e <= f
Greatest(S) == CHOOSE e \in S : \A f \in S : f <= e

Recorded(c, m) ==
  /\ Len(eventLog) < MaxEvents
  /\ eventLog' = Append(eventLog, [conv |-> c, msg |-> m])

\* An agent, a feed or another operator adds to a conversation.
othersWrite(c) ==
  /\ Recorded(c, 0)
  /\ UNCHANGED <<viewVars, signedIn, bubbles, sending, requests, sends, settled>>

-----------------------------------------------------------------------------
(* Selecting and paging *)

\* A request with what its continuation reads of the render that made it. at is
\* the position of the cursor for an older page, the number of the message for a
\* send; the newest page is read only to look what slides out from under older
\* ones, or to leave out what is known.
Call(kind, c, at) ==
  [kind |-> kind, conv |-> c, at |-> at, asOf |-> Len(eventLog),
   view |-> IF kind = "post" THEN selected ELSE c,
   older |-> older,
   newest |-> IF kind = "older" \/ older # {} THEN newest ELSE {}]

Asks(call) == Cardinality(requests) < MaxCalls /\ requests' = requests \cup {call}

\* The effect of a change of selectedConversationId; ld is loadingHistory without it.
Switch(c, ld) ==
  IF c = selected THEN loading' = ld /\ UNCHANGED <<older, hasMore>>
  ELSE older' = {} /\ hasMore' = TRUE /\ loading' = FALSE

selectConversation(c) ==
  /\ signedIn
  /\ selected' = c /\ newest' = {} /\ Switch(c, loading)
  /\ Asks(Call("refresh", c, 0))
  /\ UNCHANGED <<eventLog, signedIn, bubbles, sending, sends, settled>>

\* useAutoRefresh: the timer, or the tab that comes back into view.
pollTimeline ==
  /\ signedIn /\ selected # NoThread
  /\ Asks(Call("refresh", selected, 0))
  /\ UNCHANGED <<viewVars, eventLog, signedIn, bubbles, sending, sends, settled>>

\* Mutant: a bubble goes when a message like it is echoed.
ReconciledByText(page, c) ==
  {b \in bubbles : b.conv = c /\ b.bound => \A e \in page : eventLog[e].msg = 0}

\* reconcileOptimistic
Reconciled(page, c) ==
  {b \in bubbles : b.conv = c /\ b.bound => \A e \in page : eventLog[e].msg # b.id}

\* events[0] once the console has turned the page round, to show the oldest first;
\* getFeedConversation had turned it already, so of a feed it is the newest.
Floor(c, page) == IF c \in FeedThreads THEN Greatest(page) ELSE Least(page)

\* refreshTimeline once its page is there. What falls below the page's floor is
\* kept when the render that asked had scrolled back.
TimelineLands(r, page) ==
  LET slidOut == IF r.older # {} /\ page # {} THEN {e \in r.newest : e < Floor(r.conv, page)} ELSE {}
  IN  /\ older' = older \cup slidOut
      /\ newest' = page
      /\ hasMore' = (hasMore /\ Cardinality(page) >= PageLimit)
      /\ bubbles' = Reconciled(page, r.conv)
      /\ settled' = settled \cup ({eventLog[e].msg : e \in page} \ {0})
      /\ UNCHANGED <<selected, loading>>

refreshLands(r, n) ==
  /\ r.kind = "refresh"
  /\ TimelineLands(r, Page(r.conv, n, n + 1))
  /\ requests' = requests \ {r}
  /\ UNCHANGED <<eventLog, signedIn, sending, sends>>

loadOlderTimeline ==
  /\ signedIn /\ selected # NoThread /\ ~loading /\ hasMore /\ older \cup newest # {}
  /\ loading' = TRUE
  /\ Asks(Call("older", selected, Least(older \cup newest)))
  /\ UNCHANGED <<eventLog, signedIn, selected, newest, older, hasMore, bubbles,
                 sending, sends, settled>>

olderLands(r, n) ==
  /\ r.kind = "older"
  /\ LET page == Page(r.conv, n, r.at)
     IN  /\ older' = older \cup (page \ (r.older \cup r.newest))
         /\ hasMore' = (hasMore /\ Cardinality(page) >= PageLimit)
  /\ loading' = FALSE
  /\ requests' = requests \ {r}
  /\ UNCHANGED <<eventLog, signedIn, selected, newest, bubbles, sending, sends, settled>>

-----------------------------------------------------------------------------
(* Sending *)

\* resolveOutgoingConversationId, for a room or (NoThread) for anybody else.
Outgoing(room) ==
  IF room # NoThread THEN room ELSE IF selected \in FeedThreads THEN NoThread ELSE selected

\* The conversation of a new bubble.
BubbleOf(c) == IF c = NoThread THEN Pending ELSE c

\* handleSend up to its request.
handleSend(room) ==
  /\ signedIn /\ ~sending /\ sends < MaxSends
  /\ sends' = sends + 1
  /\ bubbles' = bubbles \cup {[id |-> sends + 1, conv |-> BubbleOf(Outgoing(room)), bound |-> FALSE]}
  /\ sending' = TRUE
  /\ Asks(Call("post", Outgoing(room), sends + 1))
  /\ UNCHANGED <<viewVars, eventLog, signedIn, settled>>

\* POST /v1/operator/messages stores the message; c is its conversation, which the
\* relay chooses when the console named none.
relayStores(r, c) ==
  /\ r.kind = "post"
  /\ r.conv \in {c, NoThread} /\ c \notin FeedThreads
  /\ Recorded(c, r.at)
  /\ requests' = (requests \ {r}) \cup {[r EXCEPT !.kind = "stored", !.conv = c]}
  /\ UNCHANGED <<viewVars, signedIn, bubbles, sending, sends, settled>>

\* The answer: the bubble is bound to its message, the thread opened if the
\* message went elsewhere, and its timeline refreshed.
sendAnswered(r) ==
  /\ r.kind = "stored"
  /\ bubbles' = {IF b.id = r.at THEN [b EXCEPT !.conv = r.conv, !.bound = TRUE] ELSE b : b \in bubbles}
  /\ IF r.conv = r.view THEN UNCHANGED viewVars
     ELSE selected' = r.conv /\ Switch(r.conv, loading) /\ UNCHANGED newest
  /\ requests' = (requests \ {r}) \cup {[r EXCEPT !.kind = "echo", !.asOf = Len(eventLog)]}
  /\ UNCHANGED <<eventLog, signedIn, sending, sends, settled>>

echoLands(r, n) ==
  /\ r.kind = "echo"
  /\ TimelineLands(r, Page(r.conv, n, n + 1))
  /\ requests' = (requests \ {r}) \cup {[r EXCEPT !.kind = "overview", !.older = {}, !.newest = {}]}
  /\ UNCHANGED <<eventLog, signedIn, sending, sends>>

overviewLands(r) ==
  /\ r.kind = "overview"
  /\ sending' = FALSE
  /\ requests' = requests \ {r}
  /\ UNCHANGED <<viewVars, eventLog, signedIn, bubbles, sends, settled>>

-----------------------------------------------------------------------------
(* Failures *)

\* clearStoredSession on a 401, or the error is only shown. bs are the bubbles
\* left and ld is loadingHistory without it.
Ended(expired, bs, ld) ==
  LET gone == {b.id : b \in bubbles \ bs} IN
  IF expired
  THEN /\ signedIn' = FALSE /\ selected' = NoThread /\ newest' = {} /\ bubbles' = {}
       /\ Switch(NoThread, ld)
       /\ settled' = settled \cup gone \cup {b.id : b \in bs}
  ELSE /\ bubbles' = bs /\ settled' = settled \cup gone /\ loading' = ld
       /\ UNCHANGED <<signedIn, selected, newest, older, hasMore>>

\* A timeline request fails.
readFails(r, expired) ==
  /\ r.kind \in {"refresh", "older"}
  /\ Ended(expired, bubbles, loading /\ r.kind # "older")
  /\ requests' = requests \ {r}
  /\ UNCHANGED <<eventLog, sending, sends>>

\* handleSend fails, at its request or at the two reads that follow it: the
\* bubble goes and the text is put back, whether or not the relay has the message.
sendFails(r, expired) ==
  /\ r.kind \in {"post", "stored", "echo", "overview"}
  /\ Ended(expired, {b \in bubbles : b.id # r.at}, loading)
  /\ sending' = FALSE
  /\ requests' = requests \ {r}
  /\ UNCHANGED <<eventLog, sends>>

handleLogin ==
  /\ ~signedIn
  /\ signedIn' = TRUE
  /\ UNCHANGED <<viewVars, eventLog, bubbles, sending, requests, sends, settled>>

ThreadNext ==
  \/ \E c \in Threads : othersWrite(c) \/ selectConversation(c)
  \/ pollTimeline \/ loadOlderTimeline \/ handleLogin
  \/ \E room \in RoomThreads \cup {NoThread} : handleSend(room)
  \/ \E r \in requests :
       \/ \E n \in r.asOf..Len(eventLog) : refreshLands(r, n) \/ olderLands(r, n) \/ echoLands(r, n)
       \/ \E c \in Threads : relayStores(r, c)
       \/ sendAnswered(r) \/ overviewLands(r)
       \/ \E expired \in BOOLEAN : readFails(r, expired) \/ sendFails(r, expired)

-----------------------------------------------------------------------------
\* The bubbles among the items the view displays: those of the selected thread.
PendingItems == {b \in bubbles : b.conv = selected}

\* Message k is in conversation c: the relay stored it there, or was asked to.
SentTo(k, c) ==
  \/ \E e \in DOMAIN eventLog : eventLog[e].msg = k /\ eventLog[e].conv = c
  \/ \E r \in requests : r.kind = "post" /\ r.at = k /\ r.conv = c

Unanswered(k) == \E r \in requests : r.kind \in {"post", "stored"} /\ r.at = k

\* What the operator sent stays in sight: whatever polls land before, between
\* and after the steps of a send, whichever threads are opened meanwhile, and
\* whichever conversation the relay assigns, a message has a bubble of the one
\* conversation it was sent to, and is displayed whenever that is the thread
\* selected, until a page has echoed that very message, its text is back in the
\* composer, or the session has ended. One that was sent to no thread waits for
\* its answer in none: the view does not display it until then.
SentShown ==
  \A k \in (1..sends) \ settled :
    \E b \in bubbles :
      /\ b.id = k
      /\ \/ b.conv = Pending /\ Unanswered(k)
         \/ SentTo(k, b.conv) /\ (SentTo(k, selected) => b \in PendingItems)
=============================================================================
