SPECIFICATION KeyValueSpec
CONSTANTS
  Partitions = {p}
  Partition = p
  MaxIndexes = 2
  Fields = {f}
  Tasks = {}
  Keys = {k1, k2}
  PreAlloc = 1
  Slots = {c1, c2}
  Deployments <- TwoKeysOrMoreWrites
  Patient = TRUE
INVARIANTS HeldIsPossible ReadsArePossible DraftsStayHidden
VIEW View
SYMMETRY Symmetry
CHECK_DEADLOCK FALSE
