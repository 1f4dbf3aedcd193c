SPECIFICATION PSpec
CONSTANTS
  MaxIndexes = 2
  Keys = {a, b}
  Sizes = {1, 2}
  Bounds <- MoreDataOrCalls
  MaxRestarts = 1
  Quiet = TRUE
INVARIANTS HeldIsStored PublishedIsComplete LoadedAsDumped
PROPERTY LoadsFindTheLast
SYMMETRY Symmetry
CHECK_DEADLOCK FALSE
