---------------------------- MODULE Attachments -----------------------------
(***************************************************************************)
(* Attachments of packages/relay/src/db.ts: the upload's file and row, the *)
(* binding of uploads by a message, the fleet quota, and the sweep that    *)
(* unlinks the file and then deletes the row. The relay may crash between  *)
(* the two writes of an upload and between the two of a removal.           *)
(*                                                                         *)
(* Every upload has size 1; names, media types and ownership by several    *)
(* uploaders are left out.                                                 *)
(***************************************************************************)
EXTENDS RelayTime, FiniteSets

CONSTANTS
  Uploads,     \* attachment ids
  UnboundTtl,  \* attachmentUnboundTtlSeconds
  FileRetention,  \* attachmentRetentionSeconds
  Quota        \* attachmentFleetQuotaBytes, in uploads

ASSUME AttachmentsAssumption ==
  /\ IsFiniteSet(Uploads)
  /\ {UnboundTtl, FileRetention, Quota} \subseteq Nat

VARIABLES
  att,     \* Uploads -> its row: [state, since]
  file,    \* uploads whose bytes are on disk
  boundBy, \* history: the instant of the last message that carries it, -1
  torn     \* history: rows whose file a crashed sweep had already unlinked

attVars == <<att, file, boundBy, torn>>

AttInit ==
  /\ att = [x \in Uploads |-> [state |-> "none", since |-> 0]]
  /\ file = {}
  /\ boundBy = [x \in Uploads |-> -1]
  /\ torn = {}

HasRow(x) == att[x].state \in {"unbound", "bound"}

getFleetAttachmentBytes == Cardinality({x \in Uploads : HasRow(x)})

\* The file is written before the row; a crash in between leaves bytes that
\* no row names.
createAttachment(x, crash) ==
  /\ att[x].state = "none"
  /\ getFleetAttachmentBytes + 1 <= Quota
  /\ file' = file \cup {x}
  /\ att' = [att EXCEPT ![x] = [state |-> IF crash THEN "lost" ELSE "unbound", since |-> now]]
  /\ UNCHANGED <<boundBy, torn>>

\* createMessage with attachments: every id must have a row of the sender's;
\* a second message may carry the same upload again.
bindAttachments(xs) ==
  /\ xs # {} /\ \A x \in xs : HasRow(x)
  /\ att' = [x \in Uploads |-> IF x \in xs THEN [state |-> "bound", since |-> now] ELSE att[x]]
  /\ boundBy' = [x \in Uploads |-> IF x \in xs THEN now ELSE boundBy[x]]
  /\ UNCHANGED <<file, torn>>

\* Mutant: a bound upload is collected like an abandoned one.
PastUnboundTtl(x) == HasRow(x) /\ att[x].since < now - UnboundTtl

PastLife(x) ==
  \/ att[x].state = "unbound" /\ att[x].since < now - UnboundTtl
  \/ att[x].state = "bound" /\ att[x].since < now - FileRetention

\* One sweep. stuck are the files that cannot be unlinked: their rows stay.
\* A crash stops the sweep after the unlink of crashAt, rows in done are gone.
sweepAttachments(stuck, done, crashAt) ==
  LET due == {x \in Uploads : PastLife(x)} IN
  /\ due # {}
  /\ stuck \cup done \cup crashAt \subseteq due
  /\ stuck \cap (done \cup crashAt) = {} /\ done \cap crashAt = {}
  /\ crashAt = {} => stuck \cup done = due
  /\ Cardinality(crashAt) <= 1
  /\ att' = [x \in Uploads |-> IF x \in done THEN [att[x] EXCEPT !.state = "gone"] ELSE att[x]]
  /\ file' = file \ (done \cup crashAt)
  /\ torn' = (torn \cup crashAt) \ done
  /\ UNCHANGED boundBy

AttNext ==
  \/ \E x \in Uploads, crash \in BOOLEAN : createAttachment(x, crash)
  \/ \E xs \in SUBSET Uploads : bindAttachments(xs)
  \/ \E stuck, done, crashAt \in SUBSET Uploads : sweepAttachments(stuck, done, crashAt)

\* What a message carries can be downloaded for the whole retention after the
\* last message that bound it, however old the upload was when it was bound
\* and whatever the sweep and unlink errors do; the one exception is an upload
\* whose file a sweep had unlinked when the relay crashed. And the rows never
\* exceed the quota.
BoundIsServed ==
  /\ \A x \in Uploads :
       boundBy[x] >= 0 /\ now <= boundBy[x] + FileRetention /\ x \notin torn
         => att[x].state = "bound" /\ x \in file
  /\ getFleetAttachmentBytes <= Quota
=============================================================================
