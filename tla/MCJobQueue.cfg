CONSTANTS
  r1 = r1
  r2 = r2
  w1 = w1
  w2 = w2
  Jobs = {j1, j2}
  Fingerprints = {f1, f2}
  Subscribers = {k1}
  JobTTL = 1
  TerminalTTL = 1
  MaxQueued = 1
  TimePasses = FALSE
  Null = Null
  Runners = {r1}
  Workers = {w1, w2}
  RunnerOf <- OneRunner
  Program <- ResolutionProgram
  MaxFaults = 2
  RecoveryMayFail = FALSE
SPECIFICATION Spec
SYMMETRY Symmetry
INVARIANT TypeOK
INVARIANT OneWorkerPerJob
INVARIANT NothingStrandedWhileRunning
INVARIANT ExecutorViewAgrees
PROPERTY StatesFollowGraph
CHECK_DEADLOCK FALSE
