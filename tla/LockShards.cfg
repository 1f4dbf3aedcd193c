CONSTANTS
  t1 = t1
  t2 = t2
  t3 = t3
  a = a
  b = b
  Tokens = {t1, t2}
  Names = {a, b}
  Nobody = Nobody
  NumShards = 2
  ShardOf <- TwoShards
  Wants <- BothWantBoth
  LeaseTime <- LongAndShort
  MaxLease = 2
  AbandonedAfter = 0
  Renewers = {t1}
  Quitters = {t1, t2}
SPECIFICATION Spec
INVARIANTS MutualExclusion DeadlineIsCovered NoWaitRing TimerCovers
CHECK_DEADLOCK FALSE
