SPECIFICATION FairSpec
CONSTANTS
  PauseTicks = 2
  Ahead = 1
  Behind = 1
  Second = 2
  Periods <- TwoPeriods
  Keep = 3
  ResetAt = 2
  MaxGap = 1
  MaxLate = 1
CHECK_DEADLOCK FALSE
INVARIANT DetectorTypeOK
PROPERTIES PausesNearPeak PausesOnce Resumes
