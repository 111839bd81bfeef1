SPECIFICATION LedgerSpec
CONSTANTS
  Txs = {t1, t2, t3, t4}
  Accounts = {alice, bob}
  FEE_PER_OP = 5
  MaxU64 = 2
  MaxI128 = 10
  Absent = Absent
SYMMETRY Symmetry
INVARIANTS
  FeesMatchReceipts
PROPERTIES
  PoolNeverShrinks
  ActsAsEagerPool
CHECK_DEADLOCK FALSE
