SPECIFICATION FairSpec
CONSTANTS
  m1 = m1  m2 = m2  m3 = m3
  Markets <- MCMarkets
  Orders <- MCOrders
  Pool = "pool"
  NoPartner = "nobody"
  Batches <- MCBatches
  BatchSize = 2
  MaxRuns = 4
  MaxUpsets = 3
INVARIANTS TypeOK HeldBackUntouched LedgerIsTrue 
 
CHECK_DEADLOCK FALSE
