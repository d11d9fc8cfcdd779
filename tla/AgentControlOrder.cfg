SPECIFICATION ControlSpec
CONSTANTS
  HeartbeatTimeout = 2
  LivenessThreshold = 2
  ResumeTtl = 2
  StrikeThreshold = 2
  StrikeWindow = 2
  MaxControls = 3
  MaxStrikes = 2
  MaxTime = 5
INVARIANT ControlsApplied
