CONSTANTS
  Articles = {a, b}
  StockIDs = {x}
  Budget = 3
  MaxCost = 2
  MaxEntries = 4
  MaxSends = 2
SPECIFICATION UpsertSpec
INVARIANTS FailedIsSafeToResend DroppedStocksAreReported RequestsFit
CHECK_DEADLOCK FALSE
