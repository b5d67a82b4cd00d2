\* Two handlers that always go on.
SPECIFICATION FairSpec
CONSTANTS
  None = None
  o1 = o1
  w1 = w1
  w2 = w2
  t1 = t1
  t2 = t2
  b1 = b1
  b2 = b2
  r1 = r1
  r2 = r2
  Orders <- TheOrder
  Workers <- TwoWorkers
  Bakers = {b1}
  Riders = {r1}
  Txns = {t1, t2}
  OrderOf <- ForTheOrder
  LegacyOrders = {}
  MaxShots = 0
  Requests <- PayingRequests
  Patches <- PayingPatches
  AdminPayments = {}
  MayCrash = FALSE
\* A closed order with nothing left to ask is the end.
CHECK_DEADLOCK FALSE
PROPERTIES
  SettledIsReleased
  RequestsAreAnswered
