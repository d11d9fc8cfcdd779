------------------------------ MODULE A2ATasks ------------------------------
(***************************************************************************)
(* Agent-to-agent tasks over the message gate: message/send and            *)
(* message/stream, tasks/get, tasks/list, tasks/cancel, tasks/resubscribe  *)
(* (packages/relay/src/a2a/).                                              *)
(*                                                                         *)
(* message/send awaits the gate and reads the task only afterwards; the    *)
(* checks, the append, createMessage and the link are then one turn of the *)
(* event loop, but not one transaction: createMessage can refuse after the *)
(* history was written.                                                    *)
(***************************************************************************)
EXTENDS MessageGate, Sequences

CONSTANTS
  Tasks,     \* ids createTask may draw
  Posters    \* bound: the senders that also use POST /v1/messages

ASSUME A2ATasksAssumption == Posters \subseteq Senders

VARIABLES
  task,     \* a2a_tasks: [state, parties, room, history]
  streams   \* listeners of the task event bus: sets of agents

a2aVars == <<senderVars, flight, task, streams>>

\* state "none" before the row exists; room: the context id is a room's.
NoTask == [state |-> "none", parties |-> {}, room |-> FALSE, history |-> <<>>]

A2AInit ==
  /\ GateInit
  /\ task = [t \in Tasks |-> NoTask]
  /\ streams = [t \in Tasks |-> {}]

\* getTaskForParticipant, taskParticipants
OnTask(a, t) == a \in task[t].parties

\* tasks/get and tasks/list: the tasks an agent is shown.
listTasks(a) == {t \in Tasks : OnTask(a, t)}

\* message/send or message/stream up to the gate's await. The recipient is
\* an agent of the fleet; the task is one of any number the sender may name.
sendBegins(s, a, to, t) ==
  /\ a # to
  /\ gateEntered(s, a, to, t)
  /\ UNCHANGED <<task, streams>>

\* Whether the parked send may add to task t.
MayAppend(s, t) ==
  /\ {flight[s].by, flight[s].to} \subseteq task[t].parties
  /\ task[t].state # "canceled"

\* Mutant: the state of the task is looked at before the gate is awaited.
sendContinuesUnchecked(s, t, stream) ==
  /\ flight[s].st = "parked" /\ flight[s].task = t
  /\ IF {flight[s].by, flight[s].to} \subseteq task[t].parties
     THEN task' = [task EXCEPT ![t].history = Append(@, s)] /\ Resolve(s, "stored")
     ELSE Resolve(s, "refused") /\ UNCHANGED task
  /\ UNCHANGED <<senderVars, streams>>

\* The task the send adds to, if it names one: the append comes first, and a
\* refusal by createMessage (the context is a room's id) leaves it there.
sendContinues(s, t, stream) ==
  /\ flight[s].st = "parked" /\ flight[s].task = t
  /\ IF MayAppend(s, t)
     THEN /\ task' = [task EXCEPT ![t].history = Append(@, s)]
          /\ Resolve(s, IF task[t].room THEN "refused" ELSE "stored")
          /\ streams' = IF stream /\ ~task[t].room
                        THEN [streams EXCEPT ![t] = @ \cup {flight[s].by}] ELSE streams
     ELSE Resolve(s, "refused") /\ UNCHANGED <<task, streams>>
  /\ UNCHANGED senderVars

\* A send that names no task creates one, under a context id of its own
\* choice or a fresh one.
createTask(s, t, room, stream) ==
  /\ flight[s].st = "parked" /\ flight[s].task = 0
  /\ task[t].state = "none"
  /\ task' = [task EXCEPT ![t] =
       [state |-> "submitted", parties |-> {flight[s].by, flight[s].to},
        room |-> room, history |-> <<s>>]]
  /\ Resolve(s, IF room THEN "refused" ELSE "stored")
  /\ streams' = IF stream /\ ~room THEN [streams EXCEPT ![t] = {flight[s].by}] ELSE streams
  /\ UNCHANGED senderVars

\* Nothing publishes on the event bus: the listeners stay.
tasksCancel(a, t) ==
  /\ OnTask(a, t)
  /\ task[t].state # "canceled"
  /\ task' = [task EXCEPT ![t].state = "canceled"]
  /\ UNCHANGED <<senderVars, flight, streams>>

\* tasks/resubscribe, on a task in any state.
openSseStream(a, t) ==
  /\ t \in listTasks(a)
  /\ streams' = [streams EXCEPT ![t] = @ \cup {a}]
  /\ UNCHANGED <<senderVars, flight, task>>

\* The client hangs up.
closeStream(a, t) ==
  /\ a \in streams[t]
  /\ streams' = [streams EXCEPT ![t] = @ \ {a}]
  /\ UNCHANGED <<senderVars, flight, task>>

\* Requests are told apart by their number only.
NextSend(s) == flight[s].st = "idle" /\ \A r \in Sends : r < s => flight[r].st # "idle"

GateStep ==
  /\ \/ \E s \in Sends, a \in Posters, to \in Senders \cup {Nobody} :
          NextSend(s) /\ gateEntered(s, a, to, Plain)
     \/ \E s \in Sends : extensionDenies(s)
     \/ \E s \in Sends, outcome \in {"stored", "refused"} : postMessage(s, outcome)
     \/ sweepStaleRateLimitCounters
  /\ UNCHANGED <<task, streams>>

OperatorStep ==
  /\ (\E a \in Posters : controlSender(a)) \/ \E p \in Rules : writePolicy(p)
  /\ UNCHANGED <<task, streams>>

TaskStep ==
  \/ \E s \in Sends, a, to \in Senders, t \in Tasks \cup {0} :
       NextSend(s) /\ sendBegins(s, a, to, t)
  \/ \E s \in Sends, t \in Tasks, stream \in BOOLEAN :
       \/ sendContinues(s, t, stream)
       \/ \E isRoom \in BOOLEAN : createTask(s, t, isRoom, stream)
  \/ \E a \in Senders, t \in Tasks : tasksCancel(a, t)

StreamStep ==
  \E a \in Senders, t \in Tasks : openSseStream(a, t) \/ closeStream(a, t)

-----------------------------------------------------------------------------
\* A canceled task never changes again, although a send may have passed the
\* gate before the cancel and wake up after it (messageSend reads the task
\* after its await).
ClosedTaskFrozen ==
  [][\A t \in Tasks : task[t].state = "canceled" => task'[t] = task[t]]_a2aVars

=============================================================================
