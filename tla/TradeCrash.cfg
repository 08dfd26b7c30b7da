SPECIFICATION Spec
CONSTANTS
  Users = {u1, u2}
  Products = {p1, p2}
  Requests = {r1, r2}
  u1 = u1
  u2 = u2
  p1 = p1
  p2 = p2
  p3 = p3
  r1 = r1
  r2 = r2
  r3 = r3
  Carts <- PickupCarts
  Price <- WholePrices
  Unit = 2
  OpeningBalance <- FourAndTwo
  OpeningWallet <- FourAndTwo
  OpeningStock <- TwoEach
  BatchSize = 2
  MaxRestarts = 1
  Faults = {"crash", "stop", "push", "db", "redis"}
  Absent = Absent
  Latest = Latest
  Free = Free
SYMMETRY RequestSymmetry
INVARIANTS TypeOK Inductive CommittedInOrder NeverBoth DeletedAreHandled StockCovered WalletCovered OneOrderPerUser
PROPERTIES CursorSkipsNothing
CHECK_DEADLOCK FALSE
