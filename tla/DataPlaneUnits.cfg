SPECIFICATION Spec
CONSTANTS
  Partitions = {p}
  MaxIndexes = 2
  Fields = {f}
  Tasks = {t}
  Keys = {k}
  PreAlloc = 1
  Calls = {c1, c2}
  Deployments <- TwoSmallUnitsOrRetries
  MaxBatch = 2
  ClearBusy = FALSE
INVARIANTS   SpaceIsOwned 
SYMMETRY Symmetry
VIEW View
