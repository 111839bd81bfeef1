SPECIFICATION Spec
CONSTANTS
  Txs = {t1, t2, t3}
  FIELDS = 2
  SettingValues = {1, 2}
  FeeValues = {0, 1}
  RestValues = {0, 1}
  MaxU64 = 2
  Accounts = {alice, bob}
  Amounts <- SomeAmounts
  MaxI128 = 2
  Absent = Absent
SYMMETRY Symmetry
INVARIANTS
  BalancesMatchReceipts
  NoOverdraft
  NoncesGloballyUnique
  NoTornConfig
  ReadersSeeWholeConfigs
PROPERTIES
  ActsAsOneMap
CHECK_DEADLOCK FALSE
