------------------------------- MODULE Feeds --------------------------------
(***************************************************************************)
(* One RSS feed of packages/relay/src/db.ts: pollFeed, whose fetch is the  *)
(* relay's only await between two writes, the sweep that starts polls      *)
(* without waiting for earlier ones, and the operator's edits meanwhile.   *)
(*                                                                         *)
(* An item is its guid. A page is any part of what was ever published:     *)
(* feeds drop old items, parseFeed drops what it cannot read, and a page   *)
(* fetched early may be applied after a newer one.                         *)
(***************************************************************************)
EXTENDS RelayTime, FiniteSets

CONSTANTS
  Guids,         \* items the feed may publish
  Pollers,       \* polls in flight at once
  Readers,       \* agents that may subscribe
  PollInterval   \* poll_interval_minutes

VARIABLES
  feedState,   \* "none", "live" or "deleted"
  subs,        \* feed_subscribers
  polledAt,    \* last_polled_at, -1 when never
  seen,        \* feed_seen
  polls,       \* Pollers -> [fetching, seenBefore]; seenBefore (history) is what was seen at its start
  got          \* Guids -> how often it was delivered (rows of deliverFeedItem)

feedVars == <<feedState, subs, polledAt, seen, polls, got>>

NoPage == [fetching |-> FALSE, seenBefore |-> {}]

FeedInit ==
  /\ feedState = "none"
  /\ subs = {}
  /\ polledAt = -1
  /\ seen = {}
  /\ polls = [p \in Pollers |-> NoPage]
  /\ got = [g \in Guids |-> 0]

createFeed(readers) ==
  /\ feedState = "none"
  /\ feedState' = "live"
  /\ subs' = readers
  /\ UNCHANGED <<polledAt, seen, polls, got>>

\* Subscribers and seen items go with the feed.
deleteFeed ==
  /\ feedState = "live"
  /\ feedState' = "deleted"
  /\ subs' = {}
  /\ seen' = {}
  /\ UNCHANGED <<polledAt, polls, got>>

setFeedSubscribers(readers) ==
  /\ feedState = "live"
  /\ subs' = readers
  /\ UNCHANGED <<feedState, polledAt, seen, polls, got>>

feedsDueForPoll == polledAt = -1 \/ now - polledAt >= PollInterval

\* pollFeed up to its await, for the sweep or for the operator who asks for a
\* poll whether one is due or not. The stamp is written before the fetch, so a
\* failing feed is not hammered.
pollStarts(p, asked) ==
  /\ feedState = "live"
  /\ asked \/ feedsDueForPoll
  /\ ~polls[p].fetching
  /\ polledAt' = now
  /\ polls' = [polls EXCEPT ![p] = [fetching |-> TRUE, seenBefore |-> seen]]
  /\ UNCHANGED <<feedState, subs, seen, got>>

\* The fetch failed, was too big, redirected to a private address or empty.
pollFails(p) ==
  /\ polls[p].fetching
  /\ polls' = [polls EXCEPT ![p] = NoPage]
  /\ UNCHANGED <<feedState, subs, polledAt, seen, got>>

\* Mutant: the seen items are read before the fetch.
FreshBeforeFetch(p, page) == page \ polls[p].seenBefore

Fresh(p, page) == page \ seen

\* The rest of pollFeed, one transaction. The first page only seeds. Marking
\* an item of a deleted feed fails its foreign key and rolls everything back.
pollApplies(p, page) ==
  /\ polls[p].fetching
  /\ page # {}
  /\ polls' = [polls EXCEPT ![p] = NoPage]
  /\ IF feedState = "live"
     THEN /\ seen' = seen \cup page
          /\ got' = IF seen # {} /\ subs # {}
                    THEN [g \in Guids |-> got[g] + IF g \in Fresh(p, page) THEN 1 ELSE 0]
                    ELSE got
     ELSE UNCHANGED <<seen, got>>
  /\ UNCHANGED <<feedState, subs, polledAt>>

FeedNext ==
  \/ \E r \in SUBSET Readers : createFeed(r) \/ setFeedSubscribers(r)
  \/ deleteFeed
  \/ \E p \in Pollers :
       \/ \E asked \in BOOLEAN : pollStarts(p, asked)
       \/ pollFails(p)
       \/ \E page \in SUBSET Guids : pollApplies(p, page)

\* However polls overlap, arrive out of order, fail, or meet the feed's
\* deletion, an item reaches the subscribers at most once, and only after the
\* feed was seeded: something else is seen by then.
FeedItemOnce ==
  \A g \in Guids : got[g] <= 1 /\ (feedState = "live" /\ got[g] = 1 => g \in seen /\ seen # {g})
=============================================================================
