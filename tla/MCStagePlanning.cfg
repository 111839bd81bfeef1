SPECIFICATION Batches
CONSTANTS
  Absent = Absent
  Users = {alice, bob}
  Places = 3
  Patterns = {"01-sharded-counter", "02-per-user-balance", "03-lazy-fee-accrual", "04-temporary-nonce", "06-event-log"}
  MaxBatch = 4
INVARIANTS
  NaiveIsSerial
  OptimizedTakesBusiestHome
  NoNewConflicts
CHECK_DEADLOCK FALSE
