SPECIFICATION MCSpec
CONSTANTS
  None = None
  cake = cake
  buns = buns
  t1 = t1
  t2 = t2
  MIN_LEAD_HOURS = 5
  SlotHours = {10, 18}
  MAX_DAYS_AHEAD = 1
  Products = {cake, buns}
  WithOptions = {cake}
  PerKg = {}
  Flavoured = {cake}
  Categories = {cakes, breads}
  CategoryOf <- Sections
  Groups = {menu}
  GroupOf <- OneGroup
  cakes = cakes
  breads = breads
  menu = menu
  vanilla = vanilla
  plain = plain
  gomti = gomti
  Flavours = {vanilla}
  Sponges = {plain}
  SpongeOf <- OneSponge
  Zones = {gomti}
  Threads <- BothThreads
  Moments = {8, 14}
SYMMETRY Swap
INVARIANTS
  ChatTypeOK
  SomewhereSometime
PROPERTIES
  PlacedIsWhole
CHECK_DEADLOCK FALSE
