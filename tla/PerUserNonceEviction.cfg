SPECIFICATION Spec
CONSTANTS
  Accounts = {alice}
  MaxU64 = 3
  TTL = 2
  MaxLedger = 5
  MaxIssued = 4
  Absent = Absent
INVARIANTS
  MonotonicWhileTouched
CHECK_DEADLOCK FALSE
