SPECIFICATION EnvSpec
CONSTANTS
  Places = {"a", "b"}
  MaxWrites = 2
  MaxVisits = 2
  MaxCalls = 3
  Elsewhere = "none"
CHECK_DEADLOCK FALSE
INVARIANT EnvironmentsStayHome
