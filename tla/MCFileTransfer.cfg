SPECIFICATION FairSpec
CONSTANTS
  recv = recv
  send = send
  Clients <- Both
  Receivers <- OneFile
  Cases = 2
  MaxChunks = 3
  MaxCrashes = 1
CHECK_DEADLOCK FALSE
INVARIANTS TransferInv CalmFiles
PROPERTY EveryFileArrives
