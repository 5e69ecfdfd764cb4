SPECIFICATION RestoreSpec
CONSTANTS
  Colls = {"c1", "c2"}
  Reqs = {"q1", "q2"}
  Envs = {"n1", "n2"}
  Names = {"a", "b"}
  Versions = {1, 2}
  Workspaces <- MCWorkspaces
  Backups <- MCBackups
  Faults = {"move"}
  MaxRestoreFaults = 1
  MaxRestores = 1
CHECK_DEADLOCK FALSE
INVARIANT FailureRollsBack
