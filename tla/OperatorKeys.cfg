SPECIFICATION OperatorTrustSpec
CONSTANTS
  Keys = {k1, k2, k3}
  AgentKeys = {i1, i2}
  None = None
  MaxGrants = 2
  LegacyDead = {k1, k2, k3}
  MaxAt = 2
  MaxSigned = 3
CONSTRAINT Scope
SYMMETRY Symmetry
INVARIANTS KeysSound GrantsExclusive ConsoleAgrees TrustSound
PROPERTIES AuthorityMoves RootNeverLost TrustMovesBySignature
