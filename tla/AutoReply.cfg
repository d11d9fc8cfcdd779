CONSTANTS
  Messages <- MCMessages
  Settings <- MCSettings
  Convs = {"a", "b"}
  LocalBudget = 0
  RequireSigned = FALSE
  RateMax = 1
  RefreshMax = 1
  PerConvCap = 1
  ConvCap = 1
  RetryTtl = 1
  Scopes <- MCScopes
  Gens = {0, 1}
  Dormant = {0}
SPECIFICATION Spec
INVARIANTS
  FatesAccounted
  NoStaleVerdict
  PeerTurnsLatched
  NothingLeaks
PROPERTIES
  StoppedStartsNothing
  HeldSettles
CHECK_DEADLOCK FALSE
