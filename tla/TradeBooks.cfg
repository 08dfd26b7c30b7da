SPECIFICATION Spec
CONSTANTS
  Users = {u1, u2}
  Products = {p1, p2, p3}
  Requests = {r1, r2}
  u1 = u1
  u2 = u2
  p1 = p1
  p2 = p2
  p3 = p3
  r1 = r1
  r2 = r2
  r3 = r3
  Carts <- MostlyBadCarts
  Price <- OddPrices
  Unit = 2
  OpeningBalance <- NoRowYet
  OpeningWallet <- OddWallet
  OpeningStock <- TwoEach
  BatchSize = 2
  MaxRestarts = 0
  Faults = {"commit", "partial", "expiry", "db", "rerun", "resend"}
  Absent = Absent
  Latest = Latest
  Free = Free
SYMMETRY RequestSymmetry
INVARIANTS DbNonNegative
PROPERTIES ReleaseOnlyOwn ImplementsLedger
