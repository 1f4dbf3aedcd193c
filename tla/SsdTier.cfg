SPECIFICATION HybridSpec
CONSTANTS
  Fields = {f, g}
  Indexes = {i}
  Values = {s, b}
  Large = {b}
  Names = {n}
  Size = 1
  MaxBatch = 2
  MaxFaults = 1
  DumpOffloaded = FALSE
INVARIANTS FilesAreAccountedFor
 
SYMMETRY Symmetry
