CONSTANTS
  Jobs = {j1, j2}
  Fingerprints = {f1}
  Subscribers = {k1, k2}
  JobTTL = 3
  TerminalTTL = 2
  MaxQueued = 1
  TimePasses = TRUE
  Null = Null
SPECIFICATION StoreSpec
CONSTRAINT ListBound
INVARIANT StoreTypeOK
INVARIANT OneLiveJobPerFingerprint
INVARIANT CoalesceKeyGuardsJob
INVARIANT LiveJobHasSubscriber
INVARIANT SubscriptionsAgree
INVARIANT CancelFlagAgrees
PROPERTY TerminalIsFinal
