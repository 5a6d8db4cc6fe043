SPECIFICATION Spec
CONSTANTS
  m1 = m1  m2 = m2  m3 = m3  t1 = t1  k1 = k1  k2 = k2  c1 = c1
  admin = admin  node = node
  oneSided = oneSided  dust = dust  low = low  high = high
  Markets <- ThreeMarkets
  Books <- TwoPrices
  OneSided <- Nothing
  Dust <- Nothing
  Scheduler = scheduler
  Triggers <- Nothing
  HasAnchor = TRUE
  MaxProcessed = 2
  Attempts = 2
  UpsetKinds <- SequentialUpsets
  MaxUpsets = 2
  None = none
  Keys <- MCKeys
  KeyOf <- TwoKeysAndNone
  Communities <- MCCommunities
  CommunityOf <- MCCommunityOf
  Price <- MCPrice
  Accounts <- MCAccounts
  Admin = admin
  NodeAccount = node
  MaxPrice = 2
INVARIANTS TradedOnce AnchoredBeforeTraded AnchorAgreesWithTrades
PROPERTIES ImplementsLedger
CHECK_DEADLOCK FALSE
