SPECIFICATION FairSpec
CONSTANTS
  NCases = 2
  NProcs = 2
  Setups <- TwoSetups
CHECK_DEADLOCK FALSE
INVARIANTS WorkInv  KilledOrListed ResultsSettled
PROPERTY StopCompletes
