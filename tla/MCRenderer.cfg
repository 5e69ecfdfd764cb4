SPECIFICATION RendererSpec
CONSTANTS
  slot1 = slot1
  slot2 = slot2
  request1 = request1
  request2 = request2
  Ids = {1, 2, 3}
  Limits = {0, 1, 2}
  Slots <- MCSlots
  MaxEdits = 3
  Coll = {1, 2}
  Req <- MCRequests
  MaxVersion = 3
  MaxCommands = 5
  MaxFailures = 1
  MaxCrashes = 1
  Places = {1, 2}
  MaxWrites = 2
  MaxVisits = 2
  MaxCalls = 3
  Elsewhere = 0
  Sessions = {"a", "b"}
  MaxSockets = 2
  MaxNavigations = 1
  Nobody = "none"
  Folders = {"outer", "inner"}
  Runnables = {"p", "q"}
  Trees <- MCTrees
  MaxRuns = 2
  MaxMoves = 1
  Top = "top"
  Gone = "gone"
  Blank = Blank
  Requests = {"a", "b"}
  Scripted = {"b"}
  OAuthed = {"b"}
  SendTypes = {"interval"}
  MaxSends = 2
  MaxReloads = 1
  None = "none"
SYMMETRY MCSymmetry
CHECK_DEADLOCK FALSE
INVARIANTS
  RendererTypeOK
  NewestRunKept
  DeletedRunStaysDeleted
  UndisturbedMemoryMatchesDisk
  DiskCatchesUp
  RequestsStayHome
  DeletionsAreTheUsers
  UncrossedEnvironmentsAgree
  RegistryMatchesHub
  FolderRunsAreSound
  StopIsFinal
  ButtonTellsTheTruth
  IntervalWaitsForItsSend
  NoButtonIsStuck
