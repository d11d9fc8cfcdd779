--------------------------- MODULE OperatorKeyIds ---------------------------
(* What the relay's table and an agent's pins name alike.                  *)
CONSTANTS
  Keys,   \* operator key ids
  None    \* no key: SQL NULL in an endorsed_by column, no admission record
=============================================================================
