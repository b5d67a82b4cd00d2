SPECIFICATION MCSpec
CONSTANTS
  None = None
  topper = topper
  area = area
  balloons = balloons
  kg = kg
  h1 = h1
  h2 = h2
  Rows <- TheRows
  Cost <- TheCosts
  Sizes = {kg}
  Times <- TheTimes
  Handlers = {h1, h2}
  Counted = topper
  Requests <- TheRequests
  Offers <- TheOffers
  Limits <- SomeLimits
  Shelf <- SomeShelf
  OptionPrices = {150, 200}
  OptionTimes = 20
  MaxOrders = 2
  MaxEdits = 2
SYMMETRY Swap
INVARIANTS
  
  CapIsKept
  CountIsNeverAhead
  NoUnitIsLost
  CouponsTouchOnlyCakes
CHECK_DEADLOCK FALSE
