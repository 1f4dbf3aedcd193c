SPECIFICATION BackendSpec
CONSTANTS
  Calls = {c1, c2}
  Workers = {w1, w2}
  Fields = {1, 2}
  Indexes = {1, 2}
  Sizes = {0, 1, 6}
  Asked <- FourCellsOrOne
  BufferSize = 4
  Align = 2
  BatchLimit = 2
  MaxRetries = 1
  MaxPuts = 2
  Deployments <- AllAlikeOrYuanrong
  NoCaller = NoCaller
  NoShape = NoShape
  NoFields = NoFields
  NoDtype = NoDtype
INVARIANTS  StagingFits ClearedIsGone
SYMMETRY Symmetry
CHECK_DEADLOCK FALSE
