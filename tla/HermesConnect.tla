--------------------------- MODULE HermesConnect ----------------------------
(***************************************************************************)
(* How a Hermes process connects: ekho_hermes/connection.py and            *)
(* credentials.py, called by the plugin's registration and by its tool     *)
(* handlers, which the host runs on threads of their own. The connection,  *)
(* the heartbeat thread and the auto-reply loop are module singletons      *)
(* behind one lock, the one-time enrollment token is spent by whoever      *)
(* uses it first, and credentials.json is what survives a restart.         *)
(*                                                                         *)
(* Abstracted: the identity file and its pins (TrustRoot), migration of    *)
(* the state directory, explicit credentials in the configuration.         *)
(***************************************************************************)
EXTENDS Naturals, FiniteSets

CONSTANTS
  Callers,     \* threads: the registration and the tool handlers
  Startup,     \* the registration, which also starts the auto-reply loop
  MaxStarts,   \* bound: times the host process starts
  MaxMishaps   \* bound: answers lost and files not written

ASSUME StartupAssumption == Startup \in Callers /\ "free" \notin Callers

VARIABLES
  at,        \* each caller: "out", "waiting", "inside", "asked", "enrolled", "connected" or "done"
  lock,      \* the caller that holds _lock, or "free"
  linked,    \* connections built by this process; _connection is the last
  beating,   \* heartbeat threads of this process
  looping,   \* auto-reply loops of this process
  creds,     \* credentials.json: a usable agent, or none
  token,     \* the enrollment token: "fresh" or "spent"
  starts,    \* starts of the process so far
  mishaps,   \* history: answers lost and files not written
  agents,    \* history: agents the token made
  refused    \* history: the relay refused an enrollment

connectVars == <<at, lock, linked, beating, looping, creds, token, starts, mishaps, agents, refused>>

ConnectInit ==
  /\ at = [c \in Callers |-> "out"] /\ lock = "free" /\ linked = 0
  /\ beating = 0 /\ looping = 0 /\ creds = FALSE /\ token = "fresh"
  /\ starts = 1 /\ mishaps = 0 /\ agents = 0 /\ refused = FALSE

Moves(c, p) == at' = [at EXCEPT ![c] = p]

\* ensure_connected: the unlocked look at _connection.
calls(c) ==
  /\ at[c] = "out"
  /\ Moves(c, IF linked > 0 THEN "connected" ELSE "waiting")
  /\ UNCHANGED <<lock, linked, beating, looping, creds, token, starts, mishaps, agents, refused>>

\* ... and the second look, under the lock.
AlreadyLinked == linked > 0

acquires(c) ==
  /\ at[c] = "waiting" /\ lock = "free"
  /\ IF AlreadyLinked
     THEN Moves(c, "connected") /\ UNCHANGED lock
     ELSE Moves(c, "inside") /\ lock' = c
  /\ UNCHANGED <<linked, beating, looping, creds, token, starts, mishaps, agents, refused>>

\* enroll_or_load: saved credentials, or the token is sent to the relay, which
\* spends it or refuses a spent one.
enrollsOrLoads(c) ==
  /\ at[c] = "inside"
  /\ \/ /\ creds
        /\ Moves(c, "enrolled") /\ UNCHANGED <<lock, token, agents, refused>>
     \/ /\ ~creds /\ token = "fresh"
        /\ Moves(c, "asked") /\ token' = "spent" /\ agents' = agents + 1
        /\ UNCHANGED <<lock, refused>>
     \/ /\ ~creds /\ token = "spent"
        /\ Moves(c, "done") /\ lock' = "free" /\ refused' = TRUE
        /\ UNCHANGED <<token, agents>>
  /\ UNCHANGED <<linked, beating, looping, creds, starts, mishaps>>

\* save_credentials once the answer is there.
enrolled(c) ==
  /\ at[c] = "asked"
  /\ Moves(c, "enrolled") /\ creds' = TRUE
  /\ UNCHANGED <<lock, linked, beating, looping, token, starts, mishaps, agents, refused>>

\* The answer is lost or the file cannot be written: the call raises, and the
\* lock is released with nothing connected.
enrollmentLost(c) ==
  /\ at[c] = "asked" /\ mishaps < MaxMishaps
  /\ mishaps' = mishaps + 1
  /\ Moves(c, "done") /\ lock' = "free"
  /\ UNCHANGED <<linked, beating, looping, creds, token, starts, agents, refused>>

\* The rest of ensure_connected: the heartbeat thread, once, and the singleton.
connects(c) ==
  /\ at[c] = "enrolled"
  /\ beating' = IF beating = 0 THEN 1 ELSE beating
  /\ linked' = linked + 1
  /\ Moves(c, "connected") /\ lock' = "free"
  /\ UNCHANGED <<looping, creds, token, starts, mishaps, agents, refused>>

\* The caller goes on with its connection; the registration starts the loop,
\* under the lock and once (start_autoreply_once).
proceeds(c) ==
  /\ at[c] = "connected" /\ (c = Startup => lock = "free")
  /\ looping' = IF c = Startup /\ looping = 0 THEN 1 ELSE looping
  /\ Moves(c, "done")
  /\ UNCHANGED <<lock, linked, beating, creds, token, starts, mishaps, agents, refused>>

\* The handler returns and may be called again; the registration runs once.
returns(c) ==
  /\ at[c] = "done" /\ c # Startup
  /\ Moves(c, "out")
  /\ UNCHANGED <<lock, linked, beating, looping, creds, token, starts, mishaps, agents, refused>>

\* The process ends, at any point, and the host starts it again.
restarts ==
  /\ starts < MaxStarts
  /\ starts' = starts + 1
  /\ mishaps' = mishaps + (IF \E c \in Callers : at[c] = "asked" THEN 1 ELSE 0)
  /\ at' = [c \in Callers |-> "out"] /\ lock' = "free" /\ linked' = 0
  /\ beating' = 0 /\ looping' = 0
  /\ UNCHANGED <<creds, token, agents, refused>>

ConnectNext ==
  \/ restarts
  \/ \E c \in Callers :
       calls(c) \/ acquires(c) \/ enrollsOrLoads(c) \/ enrolled(c) \/ enrollmentLost(c)
         \/ connects(c) \/ proceeds(c) \/ returns(c)

-----------------------------------------------------------------------------
\* Whatever threads call at once, and wherever the process is cut off, it runs
\* one heartbeat and at most one auto-reply loop, on one connection, and a
\* connection is refused only because an earlier answer was lost: threads of
\* one process never spend the token against each other.
HermesSingletons ==
  /\ linked <= 1 /\ beating = linked /\ looping <= linked
  /\ agents <= 1
  /\ refused => mishaps > 0
=============================================================================
