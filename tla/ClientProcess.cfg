SPECIFICATION Spec
CONSTANTS
  a1 = a1
  a2 = a2
  t = t
  appLoop = appLoop
  clientLoop = clientLoop
  rpc = rpc
  unit = unit
  Nobody = Nobody
  Callers = {a1, a2, t}
  WaitsOn <- Waits
  OwnerOf <- Owner
  Blocks <- Named
  Requests <- Used
  Fragile = {appLoop}
  Pools = {rpc, unit}
  MaxSize = 1
  Budget = 2
  Timed = {unit}
INVARIANTS KeysAreOwnedOnce RepliesAreOwn SocketsStayBounded
CHECK_DEADLOCK FALSE
PROPERTIES EveryoneGetsThrough
