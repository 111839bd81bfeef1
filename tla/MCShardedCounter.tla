--------------------------- MODULE MCShardedCounter --------------------------
(***************************************************************************)
(* Pattern 01, optimized, on the staged ledger.                            *)
(***************************************************************************)
EXTENDS Integers, FiniteSets, TLC

CONSTANTS Txs, SHARDS, MaxU64, Absent

ASSUME CounterAssumption ==
  /\ IsFiniteSet(Txs)
  /\ SHARDS \in Nat /\ MaxU64 \in Nat
  /\ Absent \notin Int

VARIABLES store, phase, call, footprint, view, receipt

C == INSTANCE ShardedCounter

LedgerKeys        == C!Keys
LedgerValues(k)   == C!Values(k)
LedgerCalls       == C!Calls
Run(c, st)        == C!Invoke(c, st)
FootprintOf(c, s) == C!Footprint(c, s)

INSTANCE StagedLedger

Receipts == [call : LedgerCalls, status : {"ok", "err", "trap"},
             value : Int \cup {Absent, "ShardOutOfRange"}]

\* No transaction that has a receipt looks as if it had none.
ASSUME ReceiptAssumption == Absent \notin Receipts

TxSymmetry == Permutations(Txs)

------------------------------------------------------------------------------
Done(fn) == {t \in Txs : receipt[t] # Absent /\ receipt[t].call.fn = fn}
DoneOk(fn) == {t \in Done(fn) : receipt[t].status = "ok"}

\* The shards add up to the increments whose submitters were told "ok".
CountsEveryIncrement == C!ShardSum(store) = Cardinality(DoneOk("increment"))

\* Two increments of one shard are never told the same new value.
IncrementsOfAShardDistinct ==
  \A t, u \in DoneOk("increment") :
    /\ t # u
    /\ receipt[t].call.shard = receipt[u].call.shard
    => receipt[t].value # receipt[u].value

\* A total() that commits says what the receipts so far say.
TotalCountsAll ==
  \A t \in Txs :
    receipt[t] = Absent /\ t \in Done("total")' =>
      LET n == Cardinality(DoneOk("increment"))
      IN  IF n <= MaxU64
          THEN receipt'[t].status = "ok" /\ receipt'[t].value = n
          ELSE receipt'[t].status = "trap"

\* total() reads SHARDS entries one by one, and still counts exactly the
\* increments committed when it commits: none half way, none missed; if that
\* is more than fits, it traps instead of wrapping.
TotalIsExact == [][TotalCountsAll]_vars

\* Increments of different shards, run side by side, still make one counter.
ActsAsOneCounter == C!NaiveSpec
==============================================================================
