CONSTANTS
  d1 = d1
  d2 = d2
  u1 = u1
  Admins = {a1}
  Folders = {d1, d2, d3}
  Urls = {u1, u2}
  EnvFolders <- MCEnvFolders
  EnvUrls <- MCEnvUrls
  MaxSources = 3
  Adapters = {x1}
  NewAdapter = x2
  NoTask = NoTask
  MaxRequests = 3
SPECIFICATION Spec
INVARIANT AutoSetupUpdatesSource
CHECK_DEADLOCK FALSE
