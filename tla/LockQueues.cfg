CONSTANTS
  t1 = t1
  t2 = t2
  t3 = t3
  a = a
  b = b
  Tokens = {t1, t2, t3}
  Names = {a, b}
  Nobody = Nobody
  NumShards = 1
  ShardOf <- OneShard
  Wants <- Overlapping
  LeaseTime <- AllShort
  MaxLease = 1
  AbandonedAfter = 0
  Renewers = {}
  Quitters = {t2}
SPECIFICATION FairSpec
INVARIANTS WaitersAreServed
PROPERTIES NoBarging DepartedHoldNothing
CHECK_DEADLOCK FALSE
