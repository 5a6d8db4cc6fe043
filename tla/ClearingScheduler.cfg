SPECIFICATION FairSpec
CONSTANTS
  m1 = m1  m2 = m2  m3 = m3  t1 = t1  k1 = k1  k2 = k2  c1 = c1
  admin = admin  node = node
  oneSided = oneSided  dust = dust  low = low  high = high
  Markets <- MCMarkets
  Books <- AllBooks
  OneSided <- MCOneSided
  Dust <- MCDust
  Scheduler = scheduler
  Triggers <- Nothing
  HasAnchor = FALSE
  MaxProcessed = 2
  Attempts = 2
  UpsetKinds <- NoRestart
  MaxUpsets = 3
  None = none
  Keys <- MCKeys
  KeyOf <- TwoKeys
  Communities <- MCCommunities
  CommunityOf <- MCCommunityOf
  Price <- MCPrice
  Accounts <- MCAccounts
  Admin = admin
  NodeAccount = node
  MaxPrice = 2
INVARIANTS ReportedOnce
PROPERTIES ClosedMarketsHandled
CHECK_DEADLOCK FALSE
