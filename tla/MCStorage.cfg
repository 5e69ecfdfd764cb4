SPECIFICATION StorageSpec
CONSTANTS
  request1 = request1
  request2 = request2
  Requests <- MCRequests
  Ids = {1, 2, 3}
  Times = {1, 2, 3}
  Limits = {0, 1}
  PageLimits = {2}
  Stamps = "ms"
  MaxFaults = 2
  Colls = {"c1", "c2"}
  Reqs = {"q1", "q2"}
  Envs = {"n1", "n2"}
  Names = {"a", "b"}
  Versions = {1, 2}
  Workspaces <- MCWorkspaces
  Backups <- MCBackups
  Faults = {"write", "move", "removal", "crash"}
  MaxRestoreFaults = 3
  MaxRestores = 2
  Bodies = {"b1", "b2", "b3"}
  MaxChunks = 3
  Threshold = 1
  MaxKept = 2
  Documents = {old, new}
  Missing = Missing
  Torn = Torn
  Collections = {"c1", "c2"}
  Absent = Absent
  Jars = {"j1", "j2"}
  Blank = ""
  Labels = {"", "ex", "a", "p", "q"}
  Values = {"all", "own", "none", "safe", "edited"}
  Urls <- MCUrls
  Responses <- MCResponses
  Unset = Unset
  MaxTime = 2
  MaxJarWrites = 3
CHECK_DEADLOCK FALSE
INVARIANTS
  StorageTypeOK
  EntryKeepsItsResponse
  NothingIsLeftBehind
  PagingGetsThrough
  OriginalsSurvive
  RestoresAreExact
  FailedRestoreRollsBack
  BodiesAreAccounted
  LaunchesLoseNothing
  RequestsCarryWhatIsDue
PROPERTIES
  TrimSparesTheNewest
  RepeatsAreTies
  FileIsDurable
