SPECIFICATION Batches
CONSTANTS
  Absent = Absent
  Users = {alice, bob}
  Places = 3
  Patterns = {"05-batched-admin-writes"}
  MaxBatch = 4
INVARIANTS
  NoNewConflicts
CHECK_DEADLOCK FALSE
