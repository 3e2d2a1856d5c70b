SPECIFICATION FairSpec
CONSTANTS
  PipeCap = 1
  MaxRows = 2
  MaxCands = 2
CHECK_DEADLOCK FALSE
INVARIANTS CrashInv CandidatesKept DiesOnlyWithItsChild
 
