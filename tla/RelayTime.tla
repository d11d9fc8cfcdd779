----------------------------- MODULE RelayTime ------------------------------
(* The relay host's clock, shared by the services that compare instants.   *)
EXTENDS Integers

CONSTANT MaxTime   \* bound: the last instant of the clock

VARIABLE now

NoTime == -1   \* an instant that is not set (NULL)

Tick == now < MaxTime /\ now' = now + 1
=============================================================================
