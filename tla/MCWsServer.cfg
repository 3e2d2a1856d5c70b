SPECIFICATION FairSpec
CONSTANTS
  a = a
  b = b
  Conns <- TwoConns
  Cap = 1
  MaxCalls <- OneEach
CHECK_DEADLOCK FALSE
INVARIANT WsInv
PROPERTIES ListenerReturns DeadlockIsForGood BrokenIsForgotten
