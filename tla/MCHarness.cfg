SPECIFICATION FairSpec
CONSTANTS
  Entries = {0, 1, 2, 3}
  NNNames = {1, 2, 3}
  None = None
  BENCH_BEGIN = BENCH_BEGIN
  BENCH_END = BENCH_END
  Newline = Newline
  Fragment = Fragment
  T1 = T1
  T2 = T2
  OldBody = OldBody
  Texts = {T1, T2}
  Garbled = Garbled
  Unknown = Unknown
  Commits = {1, 2}
  Measured <- SomeMeasured
  Mishaps <- BadExit
  Times = {1}
  Trees <- SomeTrees
  Listings <- SomeListings
  FirstFiles <- SomeFiles
  MaxCuts = 1
INVARIANTS
  TypeOK
  KeepsTheRest
  BlocksStayWhole
  OwnNumbers
  RowsAreTrue
  AllAgrees
  BenchReportIsTrue
  IdempotentUncut
  HealsInTwo
PROPERTIES
  ImplementsUpdates
  EveryRunEnds
