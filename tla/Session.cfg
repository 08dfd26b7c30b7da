SPECIFICATION Spec
CONSTANTS
  Users = {u1}
  Logins = {l1, l2}
  Renewals = {r1}
  Checks = {c1, c2}
  Faults = {"db", "redis", "lapse"}
  Absent = Absent
SYMMETRY Interchangeable
INVARIANTS TypeOK NewestNotKicked OldIsOut OldKeyIsOut RecordIsWhole
CHECK_DEADLOCK FALSE
