SPECIFICATION Spec
CONSTANTS
  c1 = c1  c2 = c2  all = all
  Histories <- MCHistories
  CommunityOf <- MCCommunityOf
  Communities = {c1, c2}
  Everyone = all
  KUpper = 28
  KLower = 8
  Highest = 8
  CoarseSteps = 2
  FineSteps = 4
  Bids <- MCBids
  Offers <- MCOffers
  Facilities <- MCFacilities
  Pool = "pool"
  Reports = {1, 2, 3}
  Truths = {0, 1, 2, 3}
INVARIANTS EnergyConserved SearchKeepsBest TruthfulPayNothing 
CHECK_DEADLOCK FALSE
