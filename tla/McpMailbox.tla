----------------------------- MODULE McpMailbox -----------------------------
(***************************************************************************)
(* The MCP connector's mailbox: the poll of packages/mcp-connector/src/    *)
(* agent.ts, the ring of store.ts, and the client that reads it through    *)
(* ekho_inbox (mcp.ts). The relay forgets what is acknowledged, so the     *)
(* ring holds the only copy until the client has confirmed it.             *)
(*                                                                         *)
(* Every write of a file may fail and throws; the process may stop between *)
(* any two steps and starts again on the file.                             *)
(*                                                                         *)
(* Abstracted: what a message says; signatures, to whether a message is    *)
(* genuine; the roster. The caps of 500 on remembered ids and nonces are   *)
(* not reached.                                                            *)
(***************************************************************************)
EXTENDS Sequences, FiniteSets, SequencesExt

CONSTANTS
  Mail,        \* messages the relay holds for this agent
  Genuine,     \* those that are admitted when they are verified first
  RingMax,     \* EKHO_MCP_QUEUE_MAX
  BatchMax,    \* messages of one poll
  ReadLimits,  \* limits the client may pass to ekho_inbox
  CursorCap,   \* CURSOR_CAP
  MaxCursors,  \* bound: reads by the client
  MaxOut       \* bound: messages the client sends

VARIABLES
  acked,    \* messages the relay has forgotten
  store,    \* the MessageStore in memory: [ring, seen, nonces, cursors]
  file,     \* queue.json
  dead,     \* .ekho-dead-letter.jsonl
  polled,   \* batch of the poll that is acknowledging, {} when there is none
  reads,    \* reads so far: the next cursor's number
  known,    \* cursors the client was told
  got       \* history: messages of the batches the client confirmed

mailVars == <<acked, store, file, dead, polled, reads, known, got>>

Out == "out"   \* an outbound message in the ring

ASSUME McpMailboxAssumption == IsFiniteSet(Mail) /\ Out \notin Mail

EmptyStore == [ring |-> <<>>, seen |-> {}, nonces |-> {}, cursors |-> <<>>]

MailInit ==
  /\ acked = {} /\ dead = {} /\ polled = {} /\ known = {} /\ got = {}
  /\ store = EmptyStore /\ file = EmptyStore
  /\ reads = 0

\* isUnread: an inbound message with no delivered_cursor.
isUnread(e) == e.id # Out /\ ~e.read
Unread(s) == {i \in DOMAIN s.ring : isUnread(s.ring[i])}
hasRoom == Cardinality(Unread(store)) < RingMax

Entries(ids) == SetToSeq({[id |-> m, read |-> FALSE] : m \in ids})

\* Mutant: past the bound the oldest entries go, read or not.
KeptAny(ring, added) ==
  LET excess == Len(ring) - RingMax IN {i \in DOMAIN ring : i > excess}

\* Past the bound the oldest go that are neither unread nor just added.
Kept(ring, added) ==
  LET loose  == {i \in DOMAIN ring : ~isUnread(ring[i]) /\ i <= Len(ring) - added}
      excess == Len(ring) - RingMax
  IN {i \in DOMAIN ring : i \notin loose \/ Cardinality({j \in loose : j < i}) >= excess}

\* MessageStore.add, in memory.
add(s, entries) ==
  LET ring == s.ring \o entries
      kept == Kept(ring, Len(entries))
  IN [s EXCEPT
        !.ring = [n \in 1..Cardinality(kept) |->
                    ring[CHOOSE i \in kept : Cardinality({j \in kept : j <= i}) = n]],
        !.seen = @ \cup ({entries[n].id : n \in DOMAIN entries} \ {Out})]

Accepted(B) == {m \in B \ store.seen : m \in Genuine /\ m \notin store.nonces}
Rejected(B) == B \ (store.seen \cup Accepted(B))

\* pollOnce up to the acknowledgement. writes says which of the three writes
\* work: the dead letters, the ring, the fleet view (the whole file again).
\* The nonces of accepted messages are burnt before any of them.
pollIngests(B, writes) ==
  LET burnt  == [store EXCEPT !.nonces = @ \cup Accepted(B)]
      stored == add(burnt, Entries(Accepted(B)))
      letters == Rejected(B) = {} \/ writes.dead
      ringOk  == Accepted(B) = {} \/ writes.ring
  IN
  /\ polled = {} /\ hasRoom
  /\ B # {} /\ B \cap acked = {} /\ Cardinality(B) <= BatchMax
  /\ dead' = IF letters THEN dead \cup Rejected(B) ELSE dead
  /\ store' = IF letters THEN stored ELSE burnt
  /\ file' = IF letters /\ ringOk /\ (writes.view \/ Accepted(B) # {}) THEN stored ELSE file
  /\ polled' = IF letters /\ ringOk /\ writes.view THEN B ELSE {}
  /\ UNCHANGED <<acked, reads, known, got>>

\* The acknowledgement of the whole batch is answered or lost.
pollAcks(arrives) ==
  /\ polled # {}
  /\ polled' = {}
  /\ acked' = IF arrives THEN acked \cup polled ELSE acked
  /\ UNCHANGED <<store, file, dead, reads, known, got>>

BatchOf(s, c) == UNION {s.cursors[i].batch : i \in {i \in DOMAIN s.cursors : s.cursors[i].n = c}}

\* confirm: the batch's messages count as read, if the cursor is still kept.
confirm(s, c) ==
  [s EXCEPT !.ring = [i \in DOMAIN @ |->
     IF @[i].id \in BatchOf(s, c) THEN [@[i] EXCEPT !.read = TRUE] ELSE @[i]]]

Newest(cursors) == SubSeq(cursors, 1 + (IF Len(cursors) > CursorCap THEN 1 ELSE 0), Len(cursors))

\* Confirm the batch handled last (0: none), then the oldest unread up to the
\* limit are the next one, under a cursor of its own.
takeUnread(limit, after) ==
  LET done  == confirm(store, after)
      taken == {i \in Unread(done) : Cardinality({j \in Unread(done) : j <= i}) <= limit}
      batch == {done.ring[i].id : i \in taken}
  IN [done EXCEPT !.cursors = Newest(Append(@, [n |-> reads + 1, batch |-> batch]))]

\* ekho_inbox; the write may fail and the answer may be lost.
readInbox(limit, after, written, arrives) ==
  /\ reads < MaxCursors
  /\ after \in known \cup {0}
  /\ store' = takeUnread(limit, after)
  /\ file' = IF written THEN store' ELSE file
  /\ reads' = reads + 1
  /\ known' = IF written /\ arrives THEN known \cup {reads + 1} ELSE known
  /\ got' = got \cup BatchOf(store, after)
  /\ UNCHANGED <<acked, dead, polled>>

\* send: the copy of an outbound message takes its place in the ring.
send(written) ==
  LET next == add(store, <<[id |-> Out, read |-> TRUE]>>) IN
  /\ Cardinality({i \in DOMAIN store.ring : store.ring[i].id = Out}) < MaxOut
  /\ store' = next
  /\ file' = IF written THEN next ELSE file
  /\ UNCHANGED <<acked, dead, polled, reads, known, got>>

\* The connector stops and starts again on its files.
restart ==
  /\ store' = file
  /\ polled' = {}
  /\ UNCHANGED <<acked, file, dead, reads, known, got>>

Works == [dead : BOOLEAN, ring : BOOLEAN, view : BOOLEAN]

MailNext ==
  \/ \E B \in SUBSET Mail, writes \in Works : pollIngests(B, writes)
  \/ \E arrives \in BOOLEAN : pollAcks(arrives)
  \/ \E limit \in ReadLimits, after \in known \cup {0}, written, arrives \in BOOLEAN :
       readInbox(limit, after, written, arrives)
  \/ \E written \in BOOLEAN : send(written)
  \/ restart

-----------------------------------------------------------------------------
\* An acknowledged message is never gone: it waits unread in the ring, on disk
\* as well as in memory, or it is a dead letter, or the client has confirmed
\* the batch it came in. Failed writes, lost acknowledgements, redeliveries,
\* a ring past its bound and restarts in between do not change that.
MailKept ==
  \A m \in acked \ (dead \cup got) : \A s \in {store, file} :
    \E i \in Unread(s) : s.ring[i].id = m

\* Store.ts: "an acked message always has a local copy until the client has
\* seen it", for every message that passed verification.
GenuineReaches == acked \cap dead \cap Genuine = {}
=============================================================================
