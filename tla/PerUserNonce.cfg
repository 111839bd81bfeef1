SPECIFICATION Spec
CONSTANTS
  Accounts = {alice, bob}
  MaxU64 = 3
  TTL = 2
  MaxLedger = 5
  MaxIssued = 4
  Absent = Absent
INVARIANTS
  NoRepeatWhileEntryLives
PROPERTIES
  EachAccountOwnCounter
CHECK_DEADLOCK FALSE
