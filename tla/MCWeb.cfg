\* The public side of the legacy application, part by part.
SPECIFICATION Spec
CONSTANTS
  p1 = p1
  p2 = p2
  p3 = p3
  film = film
  other = other
  show = show
  ActiveParts = {"search", "find", "setup", "resolve"}
  Pages = {p1, p2, p3}
  MoviePage = "movie"
  Kind <- mc_Kind
  QualityOf <- mc_QualityOf
  Priority <- mc_Priority
  Unlabelled = "none"
  MaxRoots = 2
  MaxActions = 2
  MaxDepth = 1
  MaxNodes = 4
  Urls = {"u1", "u2", "cdn"}
  Delivered = {"cdn"}
  NoPage = "nowhere"
  MaxChase = 2
  MaxPageLinks = 2
  MaxSamples = 2
  MaxCards = 2
  MaxProven = 1
  Links = {"f", "q", "q2", "g", "x"}
  HostOf <- mc_HostOf
  NoLink = "none"
  MaxFrames = 4
  Candidates = {film, other, show}
  Series = {show}
  SeasonOf <- mc_SeasonOf
  Listings <- mc_Listings
  Requests <- mc_Requests
  Targets <- mc_Targets
  MaxDirect = 1
  MaxFinds = 2
  Threads = {"t1", "t2"}
  Sites <- mc_Sites
  Customs = {"catalog"}
  Adapters <- mc_Adapters
  RowsOf <- mc_RowsOf
  Libraries <- mc_Libraries
  Timeout = 1
  Backoff = 2
  IndexTTL = 1
  IndexBackoff = 1
INVARIANTS
  TypeOK
  TileIsFirstSource
  IndexIsRecent
  BranchesAccounted
  LinksNameTheirSource
  AnswersFitTheRequest
  SetupProvesDelivery
PROPERTIES
  ResolvedIsUsable
  RequestsEnd
CHECK_DEADLOCK FALSE
