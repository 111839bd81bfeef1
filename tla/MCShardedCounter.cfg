SPECIFICATION Spec
CONSTANTS
  Txs = {t1, t2, t3, t4}
  SHARDS = 2
  MaxU64 = 2
  Absent = Absent
SYMMETRY TxSymmetry
INVARIANTS
  TypeOK
  CountsEveryIncrement
  IncrementsOfAShardDistinct
PROPERTIES
  SerialSpec
  TotalIsExact
  ActsAsOneCounter
CHECK_DEADLOCK FALSE
