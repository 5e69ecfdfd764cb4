SPECIFICATION MigrationSpec
CONSTANTS
  Collections = {c1, c2}
  Absent = Absent
CHECK_DEADLOCK FALSE
INVARIANT LegacyReachesEveryCollection
