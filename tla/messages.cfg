SPECIFICATION MCSpec
CONSTANTS
  None = None
  customer = customer
  admin = admin
  s1 = s1
  s2 = s2
  t1 = t1
  t2 = t2
  Customer = customer
  Baker = admin
  Rider = admin
  Admins = {admin}
  Senders = {s1, s2}
  Notices <- SomeNotices
  MAX_ATTEMPTS = 2
  MaxRows = 2
  MaxSpare = 1
  Messages <- ThreeMessages
  Threads = {t1, t2}
  MaxCopies = 2
  Patient = TRUE
  MaxMissed = 1
SYMMETRY Swap
INVARIANTS
  OutboxTypeOK
  TwiceHasACause
  AttemptsAreBounded
  RefusedIsNeverSent
  InboxTypeOK
  HandledOnce
  LastWordCounts
PROPERTIES
  SettledIsFinal
  ConsentIsInformed
CHECK_DEADLOCK FALSE
