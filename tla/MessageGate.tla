---------------------------- MODULE MessageGate -----------------------------
(***************************************************************************)
(* The gate in front of every message an agent sends, over HTTP or over    *)
(* A2A (packages/relay/src/message-gate.ts): the sender's status, the      *)
(* fixed rate window, the fleet's policies, the extensions.                *)
(*                                                                         *)
(* The first three run in the request's own turn, on the status read when  *)
(* the request was authenticated. The extensions are awaited, and anything *)
(* may happen before the request goes on.                                  *)
(*                                                                         *)
(* Abstracted: policy conditions on message type and priority; the strikes *)
(* that turn refusals into a quarantine (module AgentControl counts them). *)
(***************************************************************************)
EXTENDS RelayTime, FiniteSets

CONSTANTS
  Senders,   \* agents of one fleet
  Sends,     \* requests, each made once
  Limit,     \* config.rateLimitMaxMessages
  Window,    \* config.rateLimitWindowSeconds
  Rules      \* policies an operator may write

ASSUME MessageGateAssumption ==
  /\ IsFiniteSet(Sends)
  /\ Limit \in Nat
  /\ Window \in Nat \ {0}

VARIABLES
  status,    \* agents.status, "held" for paused and quarantined
  counter,   \* rate_limit_counters: [sender, window start] -> message_count
  policies,  \* the enabled policies, a subset of Rules
  flight     \* Sends -> the request: [st, by, to, task, at]

senderVars == <<status, counter, policies>>

Nobody == "nobody"   \* recipient null: a group or broadcast message
Plain == -1          \* POST /v1/messages, which has nothing to do with tasks

WindowStarts == {t \in 0..MaxTime : t % Window = 0}
windowStart == now - (now % Window)

Idle == [st |-> "idle", by |-> Nobody, to |-> Nobody, task |-> Plain, at |-> -1]

GateInit ==
  /\ status = [a \in Senders |-> "healthy"]
  /\ counter = [a \in Senders |-> [w \in WindowStarts |-> 0]]
  /\ policies = {}
  /\ flight = [s \in Sends |-> Idle]

\* matchesPolicyConditions: a condition on a null recipient never matches.
Matches(p, by, to) ==
  /\ p.sender \in {"any", by}
  /\ p.recipient \in {"any", to} \ {Nobody}

\* evaluateMessagePolicies: of the policies for the fleet, the sender or the
\* recipient, the denying ones are tried first.
Denied(by, to) ==
  \E p \in policies : p.action = "deny" /\ p.scope \in {"fleet", by, to} /\ Matches(p, by, to)

UnderLimit(a) == counter[a][windowStart] < Limit

\* evaluateMessageGate up to the extensions, for a POST or for an A2A send
\* that names a task (0 when it names none). A refusal by a policy has used the rate.
gateEntered(s, a, to, task) ==
  LET passes == status[a] # "held" /\ UnderLimit(a) IN
  /\ flight[s].st = "idle"
  /\ flight' = [flight EXCEPT ![s] =
       [st   |-> IF passes /\ ~Denied(a, to) THEN "parked" ELSE "refused",
        by   |-> a, to |-> to, task |-> task,
        at   |-> IF passes THEN now ELSE -1]]
  /\ counter' = IF passes THEN [counter EXCEPT ![a][windowStart] = @ + 1] ELSE counter
  /\ status' \in {status} \cup
       (IF status[a] # "held" /\ ~UnderLimit(a) THEN {[status EXCEPT ![a] = "held"]} ELSE {})
  /\ UNCHANGED policies

\* An extension's onBeforeMessage throws.
extensionDenies(s) ==
  /\ flight[s].st = "parked"
  /\ flight' = [flight EXCEPT ![s].st = "refused"]
  /\ UNCHANGED senderVars

Resolve(s, outcome) == flight' = [flight EXCEPT ![s].st = outcome]

\* The rest of POST /v1/messages; createMessage may refuse.
postMessage(s, outcome) ==
  /\ flight[s].st = "parked" /\ flight[s].task = Plain
  /\ Resolve(s, outcome)
  /\ UNCHANGED senderVars

\* controlAgent, as the gate sees it.
controlSender(a) ==
  /\ status' = [status EXCEPT ![a] = IF @ = "held" THEN "healthy" ELSE "held"]
  /\ UNCHANGED <<counter, policies, flight>>

\* createPolicy, updatePolicy and deletePolicy
writePolicy(p) ==
  /\ policies' = IF p \in policies THEN policies \ {p} ELSE policies \cup {p}
  /\ UNCHANGED <<status, counter, flight>>

\* Mutant: counters are swept as soon as their window has begun.
SweepableAtOnce(w) == w < now

Sweepable(w) == w < now - 2 * Window

sweepStaleRateLimitCounters ==
  /\ counter' = [a \in Senders |->
       [w \in WindowStarts |-> IF Sweepable(w) THEN 0 ELSE counter[a][w]]]
  /\ UNCHANGED <<status, policies, flight>>

-----------------------------------------------------------------------------
\* Requests of a that were counted at the instants of T.
Counted(a, T) == {s \in Sends : flight[s].by = a /\ flight[s].at \in T}

\* Over both transports and around the counter sweep, an agent gets at most
\* the limit through in one window of the relay's clock, and at most twice
\* the limit in any span as long as a window, wherever it starts
\* (checkAndIncrementRateLimit, sweepStaleRateLimitCounters).
RateBounded ==
  \A a \in Senders :
    /\ \A w \in WindowStarts : Cardinality(Counted(a, w..(w + Window - 1))) <= Limit
    /\ \A t \in 0..MaxTime : Cardinality(Counted(a, t..(t + Window - 1))) <= 2 * Limit
=============================================================================
