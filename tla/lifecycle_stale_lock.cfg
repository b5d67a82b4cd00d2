\* Two handlers at once.
SPECIFICATION Spec
CONSTANTS
  None = None
  o1 = o1
  w1 = w1
  w2 = w2
  t1 = t1
  t2 = t2
  b1 = b1
  b2 = b2
  r1 = r1
  r2 = r2
  Orders <- TheOrder
  Workers <- TwoWorkers
  Bakers = {b1}
  Riders = {r1}
  Txns = {t1}
  OrderOf <- ForTheOrder
  LegacyOrders <- TheOrder
  MaxShots = 1
  Requests <- TransitionRequests
  Patches <- TransitionPatches
  AdminPayments = {"PAID"}
  MayCrash = FALSE
PROPERTY
  StatusFollowsTable
