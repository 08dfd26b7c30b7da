SPECIFICATION RestartSpec
CONSTANTS
  Users = {u1}
  Products = {p1, p2}
  Requests = {r1}
  u1 = u1
  u2 = u2
  p1 = p1
  p2 = p2
  p3 = p3
  r1 = r1
  r2 = r2
  r3 = r3
  Carts <- SingleCarts
  Price <- WholePrices
  Unit = 2
  OpeningBalance <- FourAndTwo
  OpeningWallet <- FourAndTwo
  OpeningStock <- TwoEach
  BatchSize = 2
  MaxRestarts = 1
  Faults = {"stop"}
  Absent = Absent
  Latest = Latest
  Free = Free
PROPERTIES RestartPicksUp
CHECK_DEADLOCK FALSE
