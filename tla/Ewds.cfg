SPECIFICATION FairSpec
CONSTANTS
  q1 = q1  q2 = q2  m1 = m1  m2 = m2
  Queries <- MCQueries
  Markets <- MCMarkets
  Settling <- Settling1
  Amount = 2
  MaxPolls = 2
  MaxNow = 1
  MaxUpsets = 1
INVARIANTS TypeOK OwnOrders EmptyMeansUntraded NotOverlooked
PROPERTIES QueriesEnd
CHECK_DEADLOCK FALSE
