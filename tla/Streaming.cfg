SPECIFICATION Spec
CONSTANTS
  Readers = {r1, r2}
  Nobody = Nobody
  N = 4
  DpSize = 2
  Samplings <- AllSamplers
  Modes = {TRUE, FALSE}
  Length <- Lengths
  Lockstep = TRUE
  WholePrompts = TRUE
  SharedFinite = FALSE
  EagerClears = FALSE
  MaxLife = 1
INVARIANTS SameGroupSameData NoSampleTwice GivenIsReady  BatchesAreFair
PROPERTIES CatchesUp
CHECK_DEADLOCK FALSE
