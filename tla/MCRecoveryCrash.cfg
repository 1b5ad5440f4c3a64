CONSTANTS
  r1 = r1
  r2 = r2
  w1 = w1
  w2 = w2
  Jobs = {j1, j2}
  Fingerprints = {f1}
  Subscribers = {k1}
  JobTTL = 1
  TerminalTTL = 1
  MaxQueued = 1
  TimePasses = FALSE
  Null = Null
  Runners = {r1}
  Workers = {w1}
  RunnerOf <- OneWorker
  Program <- DevelopmentProgram
  MaxFaults = 2
  RecoveryMayFail = TRUE
SPECIFICATION Spec
INVARIANT InterruptedJobIsKept
CHECK_DEADLOCK FALSE
