SPECIFICATION FairLedgerSpec
CONSTANTS
  Txs = {t1, t2, t3}
  SEGMENTS = 2
  Messages = {m1, m2}
  MaxU64 = 2
  CallNames = {"append", "total_len"}
  Absent = Absent
INVARIANTS
  LogIsWhatWasAppended
PROPERTIES
  EntriesAreFinal
  TurnedDownByRivalOnly
  SegmentsAreLogs
  SerialSpec
  EveryCallAnswered
CHECK_DEADLOCK FALSE
