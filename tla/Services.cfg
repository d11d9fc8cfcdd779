SPECIFICATION ServicesSpec
CONSTANTS
  a = a
  MaxTime = 8
  Horizon <- MCHorizon
  Fleet = {a, b, c}
  Op = op
  Threads = {t}
  Rooms = {room1}
  FloorTtl = 2
  MaxSent = 2
  Proposals = {p1, p2}
  Guids = {g1, g2, g3}
  Pollers = {1, 2}
  Readers = {a}
  PollInterval = 1
  Uploads = {u1, u2}
  UnboundTtl = 1
  FileRetention = 2
  Quota = 2
  Senders = {a, b, c}
  Posters = {a}
  Sends = {1, 2, 3}
  Limit = 1
  Window = 2
  Rules <- MCRules
  Tasks = {1}
  Accounts = {acct1, acct2}
  Addresses = {ip}
  MaxFailures = 2
  LoginWindow = 2
  MaxBuckets = 2
  SessionTtl = 1
  Tokens = {t1, t2}
  TokenTtl = 2
  MaxTries = 4
  Turns = {1, 2, 3}
  TurnWindow = 1
  TurnMax = 3
  FailRun = 2
  StaleAfter = 1
  MaxBeats = 2
  HeartbeatTimeout = 1
  LivenessThreshold = 2
  ResumeTtl = 1
  StrikeThreshold = 2
  StrikeWindow = 2
  MaxControls = 3
  MaxStrikes = 2
  Requests = {r}
  Envelopes = {e}
  Skew = 2
  Retention = 4
  PastSkew = 3
  FutureSkew = 1
SYMMETRY Interchangeable
INVARIANTS
  ReadWithinAudience
  FloorExclusive
  RanAsApproved
  FeedItemOnce
  BoundIsServed
  RateBounded
  GuessesBounded
  AlarmIsTrue
  ControlSound
  NoReplay
PROPERTIES
  ClosedTaskFrozen
  ResumeGrace
CHECK_DEADLOCK FALSE
