SPECIFICATION FairSignalSpec
CONSTANTS
  Peers <- TwoPeers
  Offerer = "a"
  Former <- Bystander
  GuardsCandidates = TRUE
  MaxCands = 2
CHECK_DEADLOCK FALSE
INVARIANT SignalInv
PROPERTY EveryCandidateArrives
