CONSTANTS
  r1 = r1
  r2 = r2
  w1 = w1
  w2 = w2
  Jobs = {j1, j2, j3}
  Fingerprints = {f1, f2}
  Subscribers = {k1, k2}
  JobTTL = 2
  TerminalTTL = 1
  MaxQueued = 1
  TimePasses = TRUE
  Null = Null
  Runners = {r1}
  Workers = {w1}
  RunnerOf <- OneWorker
  Program <- DevelopmentProgram
  MaxFaults = 1
  RecoveryMayFail = FALSE
SPECIFICATION Spec
SYMMETRY Symmetry
INVARIANT QueueBounded
PROPERTY ImplementsLifecycle
CHECK_DEADLOCK FALSE
