SPECIFICATION Spec
CONSTANTS
  a = a
  b = b
  Clients <- Pair
  Peers <- LateJoin
  Fragile <- Nobody
  MaxCrashes = 0
INVARIANTS
  CollectsAll
CHECK_DEADLOCK FALSE
