SPECIFICATION PlanSpec
CONSTANTS
  p1 = p1  p2 = p2
  NumBids = 2
  NumOffers = 2
  Buyers <- MCActors
  Sellers <- MCActors
  Nobody = nobody
  Orders <- MCOrders
  Markets <- MCMarkets
  Pool = pool
  NoPartner = nobody
  Amounts <- MCAmounts
  Prices <- MCPrices
  GreenRate = 10
  GreyRate = 15
  LevyCap = 2
  KUpper = 20
  KLower = 8
  Scales = {1, 2, 3}
  Limits <- MCLimits
INVARIANTS SharesTraded PartnersFirst DirectByConsent PoolSettles WholeMarketsSettle PassedIsExecuted RoundingIsBounded
SYMMETRY MCSymmetry
CHECK_DEADLOCK FALSE
