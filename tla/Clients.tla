------------------------------ MODULE Clients -------------------------------
(***************************************************************************)
(* The clients of the relay: the MCP connector's mailbox, OAuth server and *)
(* wake-up webhook, the OpenClaw plugin's copies and inbox cache, the      *)
(* Hermes plugin's loop and start-up, and the operator console's thread    *)
(* view. They are processes of their own and meet only on the relay, so a  *)
(* behaviour exercises one of them: the variable part says which, and the  *)
(* state space is the sum of theirs and not the product.                   *)
(***************************************************************************)
EXTENDS McpMailbox, McpOAuth, McpWake, PluginRuntime, InboxCache, HermesLoop, HermesConnect,
        ConsoleThread

VARIABLE part

Parts == {"mailbox", "oauth", "wake", "runtime", "cache", "hermes", "connect", "console"}

clientVars == <<part, mailVars, oauthVars, wakeVars, runtimeVars, cacheVars, hermesVars,
                connectVars, threadVars>>

ClientsInit ==
  /\ part \in Parts
  /\ MailInit /\ OAuthInit /\ WakeInit /\ RuntimeInit /\ CacheInit /\ HermesInit /\ ConnectInit
  /\ ThreadInit
  /\ part = "runtime" \/ (stored = "absent" /\ legacy = "absent")
  /\ part = "cache" \/ mode = CHOOSE m \in Modes : TRUE
  /\ part = "cache" \/ traffic = CHOOSE t \in Mailings : TRUE
  /\ part = "hermes" \/ hrequire = CHOOSE r \in Requires : TRUE

ClientStep ==
  \/ part = "mailbox" /\ MailNext
  \/ part = "oauth" /\ OAuthNext
  \/ part = "wake" /\ WakeNext
  \/ part = "runtime" /\ RuntimeNext
  \/ part = "cache" /\ CacheNext
  \/ part = "hermes" /\ HermesNext
  \/ part = "connect" /\ ConnectNext
  \/ part = "console" /\ ThreadNext

\* The clients that this behaviour does not exercise.
OthersStand ==
  /\ IF part = "mailbox" THEN TRUE ELSE UNCHANGED mailVars
  /\ IF part = "oauth" THEN TRUE ELSE UNCHANGED oauthVars
  /\ IF part = "wake" THEN TRUE ELSE UNCHANGED wakeVars
  /\ IF part = "runtime" THEN TRUE ELSE UNCHANGED runtimeVars
  /\ IF part = "cache" THEN TRUE ELSE UNCHANGED cacheVars
  /\ IF part = "hermes" THEN TRUE ELSE UNCHANGED hermesVars
  /\ IF part = "connect" THEN TRUE ELSE UNCHANGED connectVars
  /\ IF part = "console" THEN TRUE ELSE UNCHANGED threadVars

ClientsNext == ClientStep /\ OthersStand /\ UNCHANGED part

ClientsSpec == ClientsInit /\ [][ClientsNext]_clientVars

-----------------------------------------------------------------------------
\* The Hermes plugin's promises: every message its loop chose has exactly one
\* fate, and one more only for a turn that broke after its child ran; none is
\* also dead-lettered as refused unless its acknowledgement failed; and however
\* many threads connect the process has one connection, one heartbeat, one loop.
HermesSound == HermesOneFate /\ HermesOneVerdict /\ HermesSingletons
=============================================================================
