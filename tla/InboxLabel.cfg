SPECIFICATION ClientsSpec
CONSTANTS
  Mail = {m1, m2, m3}
  Genuine = {m1, m2}
  RingMax = 1
  BatchMax = 2
  ReadLimits = {1, 2}
  CursorCap = 1
  MaxCursors = 2
  MaxOut = 1
  OClients = {c1, c2}
  Grants = {1, 2}
  MaxClients = 1
  MaxTokens = 3
  MaxPairs = 2
  Arrivals = {1, 2, 3}
  MaxAttempts = 2
  BreakerThreshold = 2
  MaxCopies = 2
  MaxEpochs = 2
  MaxLost = 1
  Mailings <- MCMailings
  OpKeys = {"k1", "k2"}
  FirstPins = {"k2"}
  Modes = {"require", "warn"}
  Unsigned = "u"
  RingCap = 1
  HMsgs <- MCHMsgs
  HBudgets = {0, 1}
  PerConv = 1
  StashCap = 1
  Requires = {TRUE}
  Callers = {"reg", "t1", "t2"}
  Startup = "reg"
  MaxStarts = 2
  MaxMishaps = 1
  Threads = {"a", "b"}
  RoomThreads = {"a"}
  FeedThreads = {"b"}
  NoThread = "none"
  Pending = "pending"
  PageLimit = 1
  MaxEvents = 3
  MaxSends = 2
  MaxCalls = 2
INVARIANT RejectedWokeNoTurn
CHECK_DEADLOCK FALSE
