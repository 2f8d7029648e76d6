SPECIFICATION Spec
CONSTANTS
  Lists = {"home", "lang"}
  Visits = {"visit"}
  Warm = "warm"
  MinConn = 1
  MaxConn = 2
INVARIANT IncidentNotMasked
