-------------------------- MODULE MC_AgentControl ---------------------------
(* One agent, two missed heartbeats to quarantine, two strikes to          *)
(* quarantine, a resume that is served for less than the liveness window.  *)
EXTENDS AgentControl
=============================================================================
