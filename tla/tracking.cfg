\* Who reports a delivery, who watches it, and what an admin sees of it.
SPECIFICATION MCSpec
CONSTANTS
  None = None
  o1 = o1
  r1 = r1
  r2 = r2
  s1 = s1
  d1 = d1
  c1 = c1
  w1 = w1
  w2 = w2
  Orders <- OneDelivery
  Riders <- TwoRiders
  Workers <- TwoWorkers
  Socks <- OneSock
  Desks = {d1}
  Watchers = {c1}
  COMPLETED_MEMORY = 2
  MaxPending = 2
  RedisMayFail = TRUE
SYMMETRY Alike
INVARIANTS
  TypeOK
  OnlyTheCarrierReports
  NobodyLeftWatching
  OverIsOffTheMap
