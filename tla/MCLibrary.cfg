CONSTANTS
  None = None
  Roots <- MCRoots
  Dirs <- MCDirs
  TitleIn <- MCTitleIn
  YearIn <- MCYearIn
  DirFor <- MCDirFor
  Titles <- MCTitles
  Years <- MCYears
  FoundFolders <- MCFound
  RawNames <- MCRawNames
  Contents = {"c1", "c2", "c3"}
  InitialFiles <- MCInitialFiles
  TmdbTitles = {"alpha", "beta"}
  TmdbYear <- MCTmdbYear
  MaxItems = 5
  MaxRows = 7
  MaxRequests = 3
  MaxChanges = 1
SPECIFICATION Spec
INVARIANT TypeOK
INVARIANT ScanReflectsDisk
INVARIANT YearsStayApart
INVARIANT FailedRenameRestoresDisk
INVARIANT RenamedRowsExist
CHECK_DEADLOCK FALSE
