CONSTANTS
  Articles = {a, b}
  StockIDs = {x}
  Budget = 3
  MaxCost = 2
  MaxEntries = 2
  MaxSends = 2
SPECIFICATION UpsertSpec
INVARIANT DroppedListingsAreReported
CHECK_DEADLOCK FALSE
