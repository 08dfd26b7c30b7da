SPECIFICATION HopSpec
CONSTANTS
  Users = {u1}
  Products = {p1, p2, p3}
  Requests = {r1, r2}
  u1 = u1
  p1 = p1
  p2 = p2
  p3 = p3
  r1 = r1
  r2 = r2
  Carts <- SingleCarts
  Price <- TwoAndFour
  Unit = 2
  OpeningBalance <- EightEach
  OpeningWallet <- EightEach
  OpeningStock <- TwoEach
  BatchSize = 1
  MaxRestarts = 0
  Faults = {}
  Absent = Absent
  Latest = Latest
  Free = Free
  Baskets <- SingleCarts
  OnWire <- CutIds
  FirstClick <- DoubleClick
INVARIANTS ChargedOnce
