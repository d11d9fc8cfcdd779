SPECIFICATION ClientsSpec
CONSTANTS
  Mail = {m1}
  Genuine = {m1}
  RingMax = 1
  BatchMax = 2
  ReadLimits = {1, 2}
  CursorCap = 1
  MaxCursors = 2
  MaxOut = 1
  OClients = {c1}
  Grants = {1}
  MaxClients = 1
  MaxTokens = 2
  MaxPairs = 1
  Arrivals = {1}
  MaxAttempts = 2
  BreakerThreshold = 2
  MaxCopies = 1
  MaxEpochs = 3
  MaxLost = 0
  Mailings <- MCMailings
  OpKeys = {"k1", "k2"}
  FirstPins = {"k2"}
  Modes = {"warn"}
  Unsigned = "u"
  RingCap = 1
  HMsgs <- MCHMsgs
  HBudgets = {1}
  PerConv = 1
  StashCap = 1
  Requires = {TRUE}
  Callers = {"reg"}
  Startup = "reg"
  MaxStarts = 2
  MaxMishaps = 1
  Threads = {"a", "b"}
  RoomThreads = {"a"}
  FeedThreads = {"b"}
  NoThread = "none"
  Pending = "pending"
  PageLimit = 1
  MaxEvents = 1
  MaxSends = 1
  MaxCalls = 1
INVARIANT LoopFollowsHost
CHECK_DEADLOCK FALSE
