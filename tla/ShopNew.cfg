SPECIFICATION ShopSpec
CONSTANTS
  Users = {u1, u2}
  Products = {p1}
  Requests = {r1}
  Visits = {v1, v2}
  u1 = u1
  u2 = u2
  p1 = p1
  r1 = r1
  v1 = v1
  v2 = v2
  Carts <- OneItem
  Price <- PriceOfTwo
  Unit = 2
  NewBalance = 4
  OpeningBalance <- NoRows
  OpeningWallet <- NoRows
  OpeningStock <- OneInStock
  Username <- Namesakes
  Asks <- MqAndPlain
  BatchSize = 2
  MaxRestarts = 1
  Faults = {"push", "db", "stop", "snapshot"}
  Absent = Absent
  Latest = Latest
  Free = Free
SYMMETRY VisitSymmetry
INVARIANTS ShopTypeOK NothingUnvouched ReservationsKept
PROPERTIES RowsKept MemberTasksKept
CHECK_DEADLOCK FALSE
