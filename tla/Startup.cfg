SPECIFICATION Spec
CONSTANTS
  t1 = t1
  t2 = t2
  apple = apple
  banana = banana
  Tenants <- TwoTenants
  Products <- TwoProducts
  FullStock = 1
  Faults = {"crash", "db", "redis", "conn"}
  MaxFaults = 3
  Public = Public
  Absent = Absent
INVARIANTS TypeOK RecordsAreTrue ServingIsComplete
PROPERTIES StocksKept CountersWarm ComesToServe
CHECK_DEADLOCK FALSE
