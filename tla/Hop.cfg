SPECIFICATION FairHopSpec
CONSTANTS
  Users = {u1}
  Products = {p1, p2, p3}
  Requests = {r1, r2}
  u1 = u1
  p1 = p1
  p2 = p2
  p3 = p3
  r1 = r1
  r2 = r2
  Carts <- ClickCarts
  Price <- TwoAndFour
  Unit = 2
  OpeningBalance <- EightEach
  OpeningWallet <- EightEach
  OpeningStock <- OneEach
  BatchSize = 1
  MaxRestarts = 0
  Faults = {"crash", "stop", "push", "redis"}
  Absent = Absent
  Latest = Latest
  Free = Free
  Baskets <- ClickBaskets
  OnWire <- CutIds
  FirstClick <- DoubleClick
INVARIANTS HopTypeOK
PROPERTIES ImplementsCheckout CallsEnd LocksEnd SettledBehindCursor ShutdownEnds
CHECK_DEADLOCK FALSE
