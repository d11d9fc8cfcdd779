SPECIFICATION ControlFairSpec
CONSTANTS
  HeartbeatTimeout = 1
  LivenessThreshold = 2
  ResumeTtl = 2
  StrikeThreshold = 2
  StrikeWindow = 2
  MaxControls = 2
  MaxStrikes = 2
  MaxTime = 3
PROPERTY RestoredAgentRuns
