SPECIFICATION FairSpec
CONSTANTS
  bid = bid  offer = offer  other = other  m1 = m1  m2 = m2
  Orders <- MCOrders
  Markets <- MCMarkets
  AmmMarkets <- MCAmmMarkets
  Setups <- MCSetups
  Opening <- MCOpening
  Closing <- MCClosing
  Slot <- MCSlot
  SlotSec = 2
  Lookback = 5
  MaxNow = 6
  MaxUpsets = 2
  NoMarket = "none"
INVARIANTS TypeOK  SettledAsOneBook 
PROPERTY ClosedMarketsCleared
CHECK_DEADLOCK FALSE
