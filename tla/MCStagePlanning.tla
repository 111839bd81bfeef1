---------------------------- MODULE MCStagePlanning --------------------------
(***************************************************************************)
(* Batches of the same operations against the two variants of a pattern,   *)
(* growing one operation at a time, and the stages each variant needs.     *)
(***************************************************************************)
EXTENDS SorobanHost, StagePlanning, FiniteSetsExt

CONSTANTS
  Users,      \* the addresses calls name
  Places,     \* shards, segments or settings
  Patterns,   \* the patterns looked at
  MaxBatch    \* bound: operations in a batch

ASSUME PlanningAssumption ==
  /\ Places \in Nat
  /\ Patterns \subseteq
       {"01-sharded-counter", "02-per-user-balance", "03-lazy-fee-accrual",
        "04-temporary-nonce", "05-batched-admin-writes", "06-event-log"}

VARIABLES
  pattern,   \* the pattern whose variants are compared
  batch      \* the operations so far: sequence of operations of that pattern

NC == INSTANCE NaiveCounter      WITH store <- batch, MaxU64 <- 1
SC == INSTANCE ShardedCounter    WITH store <- batch, MaxU64 <- 1, SHARDS <- Places
NB == INSTANCE NaiveBalance      WITH store <- batch, Accounts <- Users, Amounts <- {1}, MaxI128 <- 1
PB == INSTANCE PerUserBalance    WITH store <- batch, Accounts <- Users, Amounts <- {1}, MaxI128 <- 1
NF == INSTANCE NaiveFee          WITH store <- batch, Accounts <- Users, FEE_PER_OP <- 5,
                                      MaxU64 <- 1, MaxI128 <- 1
LF == INSTANCE LazyFee           WITH store <- batch, Accounts <- Users, FEE_PER_OP <- 5,
                                      MaxU64 <- 1, MaxI128 <- 1
NN == INSTANCE NaiveNonce        WITH store <- batch, MaxU64 <- 1
PN == INSTANCE PerUserNonce      WITH store <- batch, created <- batch, ledger <- batch,
                                      issued <- batch, Accounts <- Users, MaxU64 <- 1,
                                      TTL <- 1, MaxLedger <- 0, MaxIssued <- 0
NA == INSTANCE NaiveAdmin        WITH store <- batch, FIELDS <- Places, SettingValues <- {1}
BA == INSTANCE BatchedAdmin      WITH store <- batch, FeeValues <- {0}, RestValues <- {0}
NL == INSTANCE NaiveEventLog     WITH store <- batch, Messages <- {1}, MaxU64 <- 1
SL == INSTANCE SegmentedEventLog WITH store <- batch, Messages <- {1}, MaxU64 <- 1,
                                      SEGMENTS <- Places

------------------------------------------------------------------------------
\* One operation, as a call to either variant; home is what the optimized
\* variant spreads the hot operations over: a shard, an account, a segment.
Hot(home, nf, of)  == [hot |-> TRUE, home |-> home, naive |-> nf, optimized |-> of]
Cold(nf, of)       == [hot |-> FALSE, home |-> Absent, naive |-> nf, optimized |-> of]

Fresh(keys) == [k \in keys |-> Absent]

CounterOps ==
  {Hot(s, NC!Footprint([fn |-> "increment"], Fresh(NC!Keys)),
          SC!Footprint([fn |-> "increment", shard |-> s], Fresh(SC!Keys))) : s \in 0..(Places - 1)}
  \cup {Cold(NC!Footprint([fn |-> "total"], Fresh(NC!Keys)),
             SC!Footprint([fn |-> "total"], Fresh(SC!Keys)))}

BalanceOps ==
  LET both(c) == <<NB!Footprint(c, Fresh(NB!Keys)), PB!Footprint(c, Fresh(PB!Keys))>>
  IN  {Hot(c.to, both(c)[1], both(c)[2]) : c \in {c \in PB!Calls : c.fn = "deposit"}}
      \cup {Cold(both(c)[1], both(c)[2]) : c \in {c \in PB!Calls : c.fn # "deposit"}}

FeeOps ==
  LET both(c) == <<NF!Footprint(c, Fresh(NF!Keys)), LF!Footprint(c, Fresh(LF!Keys))>>
  IN  {Hot(c.who, both(c)[1], both(c)[2]) : c \in {c \in NF!Calls : c.fn = "operate"}}
      \cup {Cold(both(c)[1], both(c)[2]) : c \in {c \in NF!Calls : c.fn # "operate"}}

NonceOps ==
  {Hot(a, NN!Footprint([fn |-> "next"], Fresh(NN!Keys)),
          PN!Footprint([fn |-> "next", who |-> a], Fresh(PN!Keys))) : a \in Users}
  \cup {Cold(NN!Footprint([fn |-> "current"], Fresh(NN!Keys)),
             PN!Footprint([fn |-> "current", who |-> a], Fresh(PN!Keys))) : a \in Users}

LogOps ==
  {Hot(s, NL!Footprint([fn |-> "append"], Fresh(NL!Keys)),
          SL!Footprint([fn |-> "append", segment |-> s], Fresh(SL!Keys))) : s \in 0..(Places - 1)}
  \cup {Cold(NL!Footprint([fn |-> "entry_count"], Fresh(NL!Keys)),
             SL!Footprint([fn |-> "total_len"], Fresh(SL!Keys)))}

\* Reading field i: get_setting(i), or the struct the field is in.
AdminOps ==
  {Cold(NA!Footprint([fn |-> "set_config", values |-> [i \in 1..n |-> 1]], Fresh(NA!Keys)),
        BA!Footprint([fn |-> "set_config"], Fresh(BA!Keys))) : n \in 1..Places}
  \cup {Cold(NA!Footprint([fn |-> "get_setting", index |-> i], Fresh(NA!Keys)),
             BA!Footprint([fn |-> "get_config"], Fresh(BA!Keys))) : i \in 0..(Places - 1)}

OpsOf(p) ==
  CASE p = "01-sharded-counter"      -> CounterOps
    [] p = "02-per-user-balance"     -> BalanceOps
    [] p = "03-lazy-fee-accrual"     -> FeeOps
    [] p = "04-temporary-nonce"      -> NonceOps
    [] p = "05-batched-admin-writes" -> AdminOps
    [] p = "06-event-log"            -> LogOps

------------------------------------------------------------------------------
StartBatch == pattern \in Patterns /\ batch = <<>>

AddOp(op) ==
  /\ Len(batch) < MaxBatch
  /\ batch' = Append(batch, op)
  /\ UNCHANGED pattern

GrowBatch == \E op \in OpsOf(pattern) : AddOp(op)

Batches == StartBatch /\ [][GrowBatch]_<<pattern, batch>>

------------------------------------------------------------------------------
NaiveBatch     == [i \in DOMAIN batch |-> batch[i].naive]
OptimizedBatch == [i \in DOMAIN batch |-> batch[i].optimized]

AllHot == \A i \in DOMAIN batch : batch[i].hot

\* The operations of the batch that have op's home.
Load(home) == Cardinality({i \in DOMAIN batch : batch[i].home = home})

\* "~M stages (fully serial)", each BENCH.md: on the naive variant a batch of
\* hot operations runs one per stage.
NaiveIsSerial == AllHot => StagesOf(NaiveBatch) = Len(batch)

\* "Stage count drops to the max number of ... by any single account": on the
\* optimized variant it takes as many stages as its busiest home has
\* operations, however the others are spread.
OptimizedTakesBusiestHome ==
  AllHot /\ batch # <<>> =>
    StagesOf(OptimizedBatch) = Max({Load(batch[i].home) : i \in DOMAIN batch})

\* "True, unavoidable data dependency": whatever the batch, readers included,
\* two operations conflict on the optimized variant only if they do on the
\* naive one.
NoNewConflicts == Edges(OptimizedBatch) \subseteq Edges(NaiveBatch)
==============================================================================
