--------------------------- MODULE PluginRuntime ----------------------------
(***************************************************************************)
(* The runtime of the OpenClaw plugin: packages/openclaw-plugin/src/       *)
(* connection.ts, index.ts, runtime-registry.ts, credentials.ts and        *)
(* state-dir.ts. A host that reloads the plugin loads another copy of its  *)
(* modules into the same process and need not stop the old one, and may    *)
(* register the same copy again before it disposes the earlier             *)
(* registration. The copies share a registry (who beats and polls for the  *)
(* agent, who is enrolling) and the credential file.                       *)
(*                                                                         *)
(* Every copy has the same configuration, with an enrollment token. A step *)
(* is what a copy does between two awaits. Abstracted: the identity file,  *)
(* metrics, logging, and the loop itself (module AutoReply). The child of  *)
(* a turn is a process of its own, which EKHO_AUTOREPLY_DISABLE keeps from *)
(* starting a loop; the copies here are the gateway's.                     *)
(***************************************************************************)
EXTENDS Naturals, Sequences

CONSTANTS
  MaxCopies,   \* bound: copies the host loads, generations 1, 2, ...
  MaxEpochs,   \* bound: registrations of one copy
  MaxLost      \* bound: enrollment answers that do not arrive

ASSUME RuntimeAssumption == MaxCopies \in Nat /\ MaxEpochs \in Nat /\ MaxLost \in Nat

Copies == 1..MaxCopies
Epochs == 1..MaxEpochs

VARIABLES
  copy,     \* what each copy of connection.ts and index.ts keeps
  holder,   \* the registry: generation that holds the agent, 0 for none
  queue,    \* the registry: copies in runEnrolmentExclusive, first to run first
  stored,   \* the credential file: "absent", "ok" or "unusable"
  legacy,   \* the file in the pre-migration directory
  spent,    \* the relay has taken the enrollment token
  outside,  \* an enrollment by another process
  lostAnswers

runtimeVars == <<copy, holder, queue, stored, legacy, spent, outside, lostAnswers>>

\* phase: "off" before the host registers it, "idle" without a connection,
\* "queued", "asking", "granted", "refused" and "boot" while connecting, "up" with one.
\* by is the registration whose call began to connect, 0 for a tool's.
Unloaded == [phase |-> "off", epoch |-> 0, by |-> 0, retired |-> FALSE,
             retiredAtStart |-> FALSE, callers |-> {}, beats |-> FALSE, loop |-> 0,
             claimed |-> FALSE, draining |-> 0, rebinds |-> <<>>,
             disposed |-> {}, failed |-> "no"]

RuntimeInit ==
  /\ copy = [g \in Copies |-> Unloaded]
  /\ holder = 0 /\ queue = <<>> /\ spent = FALSE /\ lostAnswers = 0
  /\ outside = "idle"
  /\ stored \in {"absent", "ok", "unusable"}
  /\ legacy \in {"absent", "ok", "unusable"}

-----------------------------------------------------------------------------
(* Who produces for the agent *)

\* What shutdown does to a copy's own state.
Stopped(c) == [c EXCEPT !.retired = TRUE, !.beats = FALSE, !.loop = 0, !.claimed = FALSE]

\* Mutant: the copy that held the agent is left to the host to stop.
DisplaceUnstopped(cs, h, g) == [cs EXCEPT ![g].claimed = TRUE]

\* claimAgentRuntime: the copy that held the agent is stopped on the spot.
Displace(cs, h, g) ==
  [i \in Copies |-> IF i = g THEN [cs[g] EXCEPT !.claimed = TRUE]
                    ELSE IF i = h THEN Stopped(cs[i]) ELSE cs[i]]

\* claimRuntime: a newer generation that holds the agent refuses, and the copy
\* retires.
Claimed(r, g) ==
  LET c == r.copies[g]
      ask == ~c.retired /\ ~c.claimed
      granted == ~c.retired /\ (c.claimed \/ r.holder <= g)
  IN  [granted |-> granted,
       copies  |-> IF ask /\ granted THEN Displace(r.copies, r.holder, g)
                   ELSE IF ask THEN [r.copies EXCEPT ![g].retired = TRUE] ELSE r.copies,
       holder  |-> IF ask /\ granted THEN g ELSE r.holder]

maybeStartHeartbeat(r, g) ==
  LET claim == Claimed(r, g)
  IN  IF r.copies[g].beats \/ r.copies[g].phase # "up" THEN r
      ELSE [claim EXCEPT !.copies[g].beats = claim.granted]

\* e is the registration whose api the loop would use, 0 for a tool's call.
maybeStartAutoReply(r, g, e) ==
  LET claim == Claimed(r, g)
  IN  IF r.copies[g].loop # 0 \/ r.copies[g].phase # "up" \/ e = 0 THEN r
      ELSE [claim EXCEPT !.copies[g].loop = IF claim.granted THEN e ELSE 0]

Apply(r) == copy' = r.copies /\ holder' = r.holder

\* rebindAutoReply up to its drain; one that finds another draining waits for
\* that promise, behind the ones that do already.
Rebind(c, e) ==
  IF c.draining # 0 THEN [c EXCEPT !.rebinds = Append(@, e)]
  ELSE IF c.loop = e THEN c
  ELSE [c EXCEPT !.loop = 0, !.draining = e]

-----------------------------------------------------------------------------
(* Enrolling and connecting *)

\* migrateLegacyEkhoState: a usable legacy file is copied where none is.
Migrated == IF stored = "absent" /\ legacy = "ok" THEN "ok" ELSE stored

\* A legacy file that cannot be used ends the attempt before it enrolls.
MigrationRefuses == stored = "absent" /\ legacy = "unusable"

\* An attempt to connect throws: every caller that awaited it fails with it.
Fails(c, why) == [c EXCEPT !.phase = "idle", !.callers = {}, !.failed = why]

\* enrollOrLoad returned; a copy stopped meanwhile leaves the agent alone.
Loaded(c) == IF c.retired /\ ~c.retiredAtStart THEN Fails(c, "stopped")
             ELSE [c EXCEPT !.phase = "boot"]

\* ensureConnected, called by registration e of copy g or by a tool (e = 0).
EnsureConnected(cs, g, e) ==
  LET c == [cs[g] EXCEPT !.callers = @ \cup ({e} \ {0})]
      calling == [cs EXCEPT ![g] = c]
  IN  \/ /\ c.phase = "up"
         /\ Apply(maybeStartAutoReply(
              maybeStartHeartbeat([copies |-> calling, holder |-> holder], g), g, e))
         /\ UNCHANGED <<queue, stored>>
      \/ /\ c.phase \in {"queued", "asking", "granted", "refused", "boot"}
         /\ copy' = calling
         /\ UNCHANGED <<holder, queue, stored>>
      \/ /\ c.phase \in {"off", "idle"}
         /\ stored' = Migrated
         /\ IF MigrationRefuses
            THEN copy' = [cs EXCEPT ![g] = Fails(c, "unusable")] /\ UNCHANGED queue
            ELSE /\ copy' = [cs EXCEPT ![g] = [c EXCEPT !.phase = "queued", !.by = e,
                                                        !.retiredAtStart = c.retired]]
                 /\ queue' = Append(queue, g)
         /\ UNCHANGED holder

\* plugin.register: the host loads copies in order and may register one again.
register(g) ==
  /\ copy[g].epoch < MaxEpochs
  /\ \A h \in 1..(g - 1) : copy[h].epoch > 0
  /\ LET e == copy[g].epoch + 1
     IN  EnsureConnected([copy EXCEPT ![g].epoch = e, ![g].retired = FALSE,
                                      ![g].failed = "no"], g, e)
  /\ UNCHANGED <<legacy, spent, lostAnswers, outside>>

\* A tool connects when it must, without an api for the loop.
toolCall(g) ==
  /\ copy[g].epoch > 0
  /\ EnsureConnected(copy, g, 0)
  /\ UNCHANGED <<legacy, spent, lostAnswers, outside>>

\* runEnrolmentExclusive: the copies ahead have settled.
MyTurn(g) == Head(queue) = g

\* The first in the queue has settled: the next one runs.
LeaveQueue == Tail(queue)

\* enrollOrLoad: stored credentials are used, unusable ones are never replaced.
enrollOrLoad(g) ==
  /\ copy[g].phase = "queued" /\ MyTurn(g)
  /\ \/ /\ stored = "ok"
        /\ copy' = [copy EXCEPT ![g] = Loaded(@)] /\ queue' = LeaveQueue
     \/ /\ stored = "unusable"
        /\ copy' = [copy EXCEPT ![g] = Fails(@, "unusable")] /\ queue' = LeaveQueue
     \/ /\ stored = "absent"
        /\ copy' = [copy EXCEPT ![g].phase = "asking"] /\ UNCHANGED queue
  /\ UNCHANGED <<holder, stored, legacy, spent, lostAnswers, outside>>

\* The relay takes the token of POST /v1/enroll, once, or answers 400.
relayEnrolls(g) ==
  /\ copy[g].phase = "asking"
  /\ spent' = TRUE
  /\ IF spent
     THEN copy' = [copy EXCEPT ![g].phase = "refused"] /\ queue' = LeaveQueue
     ELSE copy' = [copy EXCEPT ![g].phase = "granted"] /\ UNCHANGED queue
  /\ UNCHANGED <<holder, stored, legacy, lostAnswers, outside>>

\* The credentials arrive and are saved.
enrollAnswered(g) ==
  /\ copy[g].phase = "granted"
  /\ stored' = "ok"
  /\ copy' = [copy EXCEPT ![g] = Loaded(@)]
  /\ queue' = LeaveQueue
  /\ UNCHANGED <<holder, legacy, spent, lostAnswers, outside>>

\* The request times out, before or after the relay took the token.
enrollLost(g) ==
  /\ copy[g].phase \in {"asking", "granted"} /\ lostAnswers < MaxLost
  /\ lostAnswers' = lostAnswers + 1
  /\ copy' = [copy EXCEPT ![g] = Fails(@, "lost")]
  /\ queue' = LeaveQueue
  /\ UNCHANGED <<holder, stored, legacy, spent, outside>>

\* enrollOrLoadOnce after ENROL_RECHECK_MS: credentials saved meanwhile serve.
recheck(g) ==
  /\ copy[g].phase = "refused"
  /\ copy' = [copy EXCEPT ![g] = IF stored = "ok" THEN Loaded(@) ELSE Fails(@, "refused")]
  /\ UNCHANGED <<holder, queue, stored, legacy, spent, lostAnswers, outside>>

\* The identity key is registered, or not: the connection is there either way.
connected(g) ==
  /\ copy[g].phase = "boot"
  /\ Apply(maybeStartAutoReply(maybeStartHeartbeat(
       [copies |-> [copy EXCEPT ![g].phase = "up"], holder |-> holder], g), g, copy[g].by))
  /\ UNCHANGED <<queue, stored, legacy, spent, lostAnswers, outside>>

-----------------------------------------------------------------------------
(* Registrations of one copy, and stopping *)

\* register's continuation: the loop is bound to the newest registration.
bindLoop(g, e) ==
  /\ copy[g].phase = "up" /\ e \in copy[g].callers
  /\ LET c == [copy[g] EXCEPT !.callers = @ \ {e}]
     IN  copy' = [copy EXCEPT ![g] = IF e = c.epoch THEN Rebind(c, e) ELSE c]
  /\ UNCHANGED <<holder, queue, stored, legacy, spent, lostAnswers, outside>>

\* The old loop has drained: the one that had to wait for it starts.
drained(g) ==
  /\ copy[g].draining # 0
  /\ Apply(maybeStartAutoReply(
       [copies |-> [copy EXCEPT ![g].draining = 0], holder |-> holder], g, copy[g].draining))
  /\ UNCHANGED <<queue, stored, legacy, spent, lostAnswers, outside>>

\* A request that waited for another one's drain starts over, the first one
\* first; one made since the drain ended did not wait, and is ahead of it.
rebindAgain(g) ==
  /\ copy[g].draining = 0 /\ copy[g].rebinds # <<>>
  /\ LET c == [copy[g] EXCEPT !.rebinds = Tail(@)]
     IN  copy' = [copy EXCEPT ![g] = Rebind(c, Head(copy[g].rebinds))]
  /\ UNCHANGED <<holder, queue, stored, legacy, spent, lostAnswers, outside>>

\* The unload hooks of registration e: the current one shuts the copy down, an
\* earlier one hands the loop over.
unload(g, e) ==
  /\ e \in (1..copy[g].epoch) \ copy[g].disposed
  /\ IF e = copy[g].epoch
     THEN /\ copy' = [copy EXCEPT ![g] = Stopped(@)]
          /\ holder' = IF holder = g THEN 0 ELSE holder
     ELSE /\ LET c == Rebind(copy[g], copy[g].epoch)
             IN  copy' = [copy EXCEPT ![g] = [c EXCEPT !.disposed = @ \cup {e}]]
          /\ UNCHANGED holder
  /\ UNCHANGED <<queue, stored, legacy, spent, lostAnswers, outside>>

\* Another process with the same files and token, which the registry does not
\* reach, enrolls: the relay takes the token, then the credentials are saved.
outsideEnrolls ==
  /\ outside = "idle" /\ stored = "absent" /\ legacy = "absent" /\ ~spent
  /\ outside' = "asking" /\ spent' = TRUE
  /\ UNCHANGED <<copy, holder, queue, stored, legacy, lostAnswers>>

outsideSaves ==
  /\ outside = "asking"
  /\ outside' = "saved" /\ stored' = "ok"
  /\ UNCHANGED <<copy, holder, queue, legacy, spent, lostAnswers>>

RuntimeNext ==
  \/ \E g \in Copies :
       \/ register(g) \/ toolCall(g) \/ enrollOrLoad(g) \/ relayEnrolls(g)
       \/ enrollAnswered(g) \/ enrollLost(g) \/ recheck(g) \/ connected(g) \/ drained(g)
       \/ rebindAgain(g)
       \/ \E e \in Epochs : bindLoop(g, e) \/ unload(g, e)
  \/ outsideEnrolls \/ outsideSaves

-----------------------------------------------------------------------------
\* At most one copy beats and polls for the agent, the one the registry names,
\* however reloads, re-registrations, hand-overs and stops interleave; and the
\* newest copy that is connected and wanted is that one.
SingleProducer ==
  \A g \in Copies :
    /\ copy[g].beats \/ copy[g].loop # 0 => holder = g
    /\ copy[g].phase = "up" /\ ~copy[g].retired => holder = g /\ copy[g].beats

\* Copies that race to enroll share the one agent the token buys: a refusal
\* stands only when the answer that carried the credentials was lost, or
\* another process holds them and has not saved them yet.
RefusedOnlyIfLost ==
  \A g \in Copies :
    copy[g].failed = "refused" => lostAnswers > 0 \/ outside # "idle"

\* The copies of the plugin behave as one: one producer, on the one agent the
\* token buys.
RuntimeSound == SingleProducer /\ RefusedOnlyIfLost

\* register says that it binds the loop to the newest registration: once nothing
\* is on its way, a connected copy that was not stopped polls through the api of
\* its newest registration, whose turns a disposed one could not start. (A copy
\* whose connection failed at registration gets no loop from a tool's call.)
LoopFollowsHost ==
  \A g \in Copies :
    LET c == copy[g]
    IN  (c.phase = "up" /\ ~c.retired /\ c.callers = {} /\ c.draining = 0 /\ c.rebinds = <<>>
           /\ c.failed = "no")
          => c.loop = c.epoch
=============================================================================
