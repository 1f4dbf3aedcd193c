SPECIFICATION Spec
CONSTANTS
  Partitions = {p, q}
  MaxIndexes = 2
  MaxBatch = 2
  Fields = {f, g}
  Tasks = {t}
  Keys = {k1, k2}
  PreAlloc = 1
  Careless = FALSE
INVARIANTS IndexesAreOwned 
PROPERTIES NoRedelivery ImplementsOwnership
SYMMETRY Symmetry
