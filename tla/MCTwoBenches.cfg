SPECIFICATION TwoSpec
CONSTANTS
  Entries = {0, 1, 2, 3}
  NNNames = {1, 2, 3}
  None = None
  BENCH_BEGIN = BENCH_BEGIN
  BENCH_END = BENCH_END
  Newline = Newline
  Fragment = Fragment
  T1 = T1
  T2 = T2
  OldBody = OldBody
  Texts = {T1, T2}
  Garbled = Garbled
  Unknown = Unknown
  Commits = {1}
  Measured <- SomeMeasured
  Mishaps <- NoStart
  Times = {1}
  Trees <- OnePattern
  Listings <- AllListed
  FirstFiles <- OneFile
  MaxCuts = 0
INVARIANTS
  RestIsKept
