SPECIFICATION Spec
CONSTANTS
  Readers = {r1, r2}
  Nobody = Nobody
  N = 6
  DpSize = 2
  Samplings <- OneEach
  Modes = {TRUE}
  Length <- Lengths
  MaxLife = 0
  Lockstep = FALSE
  WholePrompts = TRUE
  SharedFinite = FALSE
  EagerClears = FALSE
INVARIANTS NoSampleTwice
CHECK_DEADLOCK FALSE
