SPECIFICATION WalkSpec
CONSTANTS
  Keys = {k1, k2, k3}
  AgentKeys = {i1, i2}
  None = None
  MaxGrants = 1
  LegacyDead = {}
INVARIANT WalkCorrect
PROPERTY WalkEnds
