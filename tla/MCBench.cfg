SPECIFICATION FairSpec
CONSTANTS
  a = a
  b = b
  Clients <- Pair
  Peers <- TwoCases
  Fragile <- Nobody
  MaxCrashes = 0
CHECK_DEADLOCK FALSE
INVARIANTS ResultsFiledUnderTheirCase RunsUndisturbed CollectsAll NeverDies
PROPERTY Finishes
