------------------------------ MODULE McpWake -------------------------------
(***************************************************************************)
(* The wake webhook of the MCP connector (packages/mcp-connector/src/      *)
(* webhook.ts): messages that arrive are collected until a debounce timer  *)
(* fires, the flush tries its POST a few times with pauses in between, and *)
(* a breaker drops wakes after flushes that failed in a row.               *)
(*                                                                         *)
(* The timer is free again as soon as it fires, so flushes overlap: each   *)
(* pauses and awaits on its own while newer ones start.                    *)
(***************************************************************************)
EXTENDS Naturals, FiniteSets

CONSTANTS
  Arrivals,          \* messages onNewMessages reports
  MaxAttempts,       \* maxAttempts
  BreakerThreshold   \* breakerThreshold

VARIABLES
  ahead,       \* messages that have not arrived yet
  waiting,     \* pending
  timerArmed,  \* the flag
  timer,       \* a timer is set with the event loop
  flushes,     \* flushNow calls under way: [batch, attempt]
  failures,    \* consecutiveFailures
  open,        \* the breaker is open
  woken,       \* messages a POST that succeeded has announced
  lost         \* messages given up: attempts exhausted or breaker open

wakeVars == <<ahead, waiting, timerArmed, timer, flushes, failures, open, woken, lost>>

WakeInit ==
  /\ ahead = Arrivals /\ waiting = {} /\ timerArmed = FALSE /\ timer = FALSE
  /\ flushes = {} /\ failures = 0 /\ open = FALSE /\ woken = {} /\ lost = {}

notify(batch) ==
  /\ batch # {} /\ batch \subseteq ahead
  /\ ahead' = ahead \ batch
  /\ waiting' = waiting \cup batch
  /\ timerArmed' = TRUE
  /\ timer' = (timer \/ ~timerArmed)
  /\ UNCHANGED <<flushes, failures, open, woken, lost>>

\* Mutant: the flag is left for the flush to clear.
TimerStaysArmed == TRUE

TimerFreed == FALSE

\* The debounce timer fires: flushNow up to its first await.
timerFires ==
  /\ timer
  /\ timer' = FALSE
  /\ waiting' = {}
  /\ IF open THEN lost' = lost \cup waiting /\ UNCHANGED flushes
             ELSE flushes' = flushes \cup {[batch |-> waiting, attempt |-> 1]} /\ UNCHANGED lost
  /\ timerArmed' = TimerFreed
  /\ UNCHANGED <<ahead, failures, open, woken>>

\* The POST of one attempt is answered.
attemptSucceeds(f) ==
  /\ f \in flushes
  /\ flushes' = flushes \ {f}
  /\ woken' = woken \cup f.batch
  /\ failures' = 0
  /\ UNCHANGED <<ahead, waiting, timerArmed, timer, open, lost>>

\* ... or not: another attempt after a pause, or the flush is given up.
attemptFails(f) ==
  /\ f \in flushes
  /\ IF f.attempt < MaxAttempts
     THEN /\ flushes' = (flushes \ {f}) \cup {[f EXCEPT !.attempt = @ + 1]}
          /\ UNCHANGED <<failures, open, lost>>
     ELSE /\ flushes' = flushes \ {f}
          /\ lost' = lost \cup f.batch
          /\ open' = (open \/ failures + 1 >= BreakerThreshold)
          /\ failures' = IF failures + 1 >= BreakerThreshold THEN 0 ELSE failures + 1
  /\ UNCHANGED <<ahead, waiting, timerArmed, timer, woken>>

\* breakerOpenMs has passed.
breakerCloses ==
  /\ open
  /\ open' = FALSE
  /\ UNCHANGED <<ahead, waiting, timerArmed, timer, flushes, failures, woken, lost>>

WakeNext ==
  \/ \E batch \in SUBSET ahead : notify(batch)
  \/ timerFires
  \/ \E f \in flushes : attemptSucceeds(f) \/ attemptFails(f)
  \/ breakerCloses

-----------------------------------------------------------------------------
\* No message waits without a timer, whatever overlaps: a wake collected while
\* an earlier flush is still trying, or dropped by the breaker, is not left
\* behind for good (notify relies on the flag, the event loop on the timer).
WakeArmed == waiting # {} => timer
=============================================================================
