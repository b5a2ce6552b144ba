\* Pages of two rows, chunks of one, a window of two origins; blocks of at most
\* four items in pages of two; two log scans of three containers; four scopes in
\* pages of one or two, changed twice; a local
\* index of at most fourteen entries with two changes while it is read; two
\* requests for one object.
SPECIFICATION ViewsSpec
CONSTANTS
  Lists <- MCLists
  Cluster <- MCCluster
  Limit = 2
  Chunk = 1
  Fanout = 2
  MaxUpsets = 3
  Now = 60
  TopRanks = 1
  PageSize = 2
  MaxItems = 4
  MaxPages = 2
  MaxRestarts = 4
  MaxNodes = 2
  MaxDiagnosed = 1
  Requests = {q1, q2}
  Generations = {1, 2}
  ScopeOf <- MCScopeOf
  MaxPods = 2
  MaxContainers = 2
  Workers = 2
  ScanLines = 4
  ContainerLines = 3
  Buffer = 2
  MaxMatches = 4
  LogWindow = 15
  MaxBreaks = 1
  MaxShown = 9
  Clusters <- MCClusters
  FaultSets <- MCFaultSets
  Queries <- MCQueries
  ScopeTables <- MCScopeTables
  ScopeNames = {1, 2, 4, 6}
  Instants = {210}
  Catalog <- MCCatalog
  ListQueries <- MCListQueries
  MaxScopeChanges = 2
  ClusterObjects <- MCClusterObjects
  LaterObjects <- MCLaterObjects
  LoadedKeys <- MCLoadedKeys
  Selections = {{1}, {1, 2}}
  Inquiries <- MCInquiries
  MaxChain = 3
  MaxIndexUpsets = 2
  MaximumDiffLines = 8
  MaximumInputLines = 6
  Askers = {a1, a2}
  Asked <- MCAsked
  LiveDocument <- MCLiveDocument
  Baselines <- MCBaselines
  ReadAttempts = 2
  MaxSelections = 2
  MaxDetailUpsets = 1
SYMMETRY ViewSymmetry
CHECK_DEADLOCK FALSE
INVARIANTS
  
  ScansAccounted
  PagesTile
  WalkShowsAll
  

  
