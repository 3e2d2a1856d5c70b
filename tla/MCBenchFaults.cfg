SPECIFICATION Spec
CONSTANTS
  a = a
  b = b
  Clients <- JustB
  Peers <- Alone
  Fragile <- JustB
  MaxCrashes = 1
CHECK_DEADLOCK FALSE
INVARIANTS BenchInv NothingAhead
PROPERTY FollowsSchedule
