SPECIFICATION SessionSpec
CONSTANTS
  Procs = {p1, p2}
  NumShards = 2
  Retries = 1
  MaxSessions = 3
  MaxCrashes = 1
INVARIANTS SessionIsWhole ClientsFitTheirSession
PROPERTIES InitsEnd
CHECK_DEADLOCK FALSE
