SPECIFICATION FairSpec
CONSTANTS
  m1 = m1  m2 = m2  m3 = m3  t1 = t1  k1 = k1  k2 = k2  c1 = c1
  admin = admin  node = node
  oneSided = oneSided  dust = dust  low = low  high = high
  Markets <- OneMarket
  Books <- TwoPrices
  OneSided <- Nothing
  Dust <- Nothing
  Scheduler = scheduler
  Triggers <- OneTrigger
  HasAnchor = TRUE
  MaxProcessed = 2
  Attempts = 2
  UpsetKinds <- AnchorUpsets
  MaxUpsets = 3
  None = none
  Keys <- MCKeys
  KeyOf <- TwoKeys
  Communities <- MCCommunities
  CommunityOf <- MCCommunityOf
  Price <- MCPrice
  Accounts <- MCAccounts
  Admin = admin
  NodeAccount = node
  MaxPrice = 1
INVARIANTS AnchoredBeforeTraded SuccessesRecorded
PROPERTIES AuditTrailImmutable TriggersAnswered
CHECK_DEADLOCK FALSE
