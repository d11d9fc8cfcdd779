SPECIFICATION MCSpec
CONSTANTS
  m1 = m1
  m2 = m2
  a = a
  Agents = {a, b, op}
  Operator = op
  Msgs = {m1, m2}
  Ttls = {3, 6}
  MaxRetries = 2
  DeliveryTimeout = 0
  BackoffSteps = 2
  Backoff <- MCBackoff
  InboxLimit = 1
  MaxTime = 6
INVARIANTS StatusAgrees RowsSound
PROPERTIES AckIsFinal HandoutsRight EverySettles ImplementsLedger
