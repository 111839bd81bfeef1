SPECIFICATION Spec
CONSTANTS
  Accounts = {alice, bob}
  FEE_PER_OP = 5
  MaxU64 = 3
  MaxI128 = 25
  Absent = Absent
INVARIANTS
  TypeOK
  Conservation
PROPERTIES
  NaiveSpec
