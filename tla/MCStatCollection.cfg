SPECIFICATION FairSpec
CONSTANTS
  t1 = t1
  t2 = t2
  r1 = r1
  Tickers <- TwoTickers
  Readers <- OneReader
  Cap = 2
  MaxRows = 3
CHECK_DEADLOCK FALSE
INVARIANTS FileIsComplete RowsInv
PROPERTY StopReturns
