------------------------------ MODULE MCLazyFee ------------------------------
(***************************************************************************)
(* Pattern 03, optimized, on the staged ledger.                            *)
(***************************************************************************)
EXTENDS LazyFee, TLC

CONSTANT Txs

ASSUME TxsAssumption == IsFiniteSet(Txs)

VARIABLES phase, call, footprint, view, receipt

LedgerKeys        == Keys
LedgerValues(k)   == Values(k)
LedgerCalls       == Calls
Run(c, st)        == Invoke(c, st)
FootprintOf(c, s) == Footprint(c, s)

L == INSTANCE StagedLedger

LedgerSpec == L!Spec

Receipts == [call : Calls, status : {"ok", "err", "trap"}, value : Int \cup {Absent}]

\* No transaction that has a receipt looks as if it had none.
ASSUME ReceiptAssumption == Absent \notin Receipts

Symmetry == Permutations(Txs) \cup Permutations(Accounts)

------------------------------------------------------------------------------
OperationsOf(a) ==
  {t \in Txs : /\ receipt[t] # Absent
               /\ receipt[t].call.fn = "operate" /\ receipt[t].call.who = a
               /\ receipt[t].status = "ok"}

\* Sweeps of one account run while others operate.  Whatever the order, each
\* account is charged for exactly the operations it signed and was told "ok"
\* for, and each of those fees is in one of the two places fees can be.
FeesMatchReceipts ==
  /\ \A a \in Accounts :
       Ops[a] = Cardinality({t \in OperationsOf(a) : receipt[t].call.signed})
  /\ Pool + SumOver(Fees, Accounts) =
       FEE_PER_OP * Cardinality(UNION {OperationsOf(a) : a \in Accounts})

\* A call that commits, and reports the pool's total, reports no less than
\* every one that did before.
PoolReportsGrow ==
  \A t, u \in Txs :
    LET poolFns == {"sweep", "fee_pool"}
    IN  /\ receipt[t] # Absent /\ receipt[t].call.fn \in poolFns
        /\ receipt[t].status = "ok"
        /\ receipt[u] = Absent /\ receipt'[u] # Absent
        /\ receipt'[u].call.fn \in poolFns /\ receipt'[u].status = "ok"
        => receipt'[u].value >= receipt[t].value

\* What a sweep reports as the pool's new total is never less than what an
\* earlier sweep or fee_pool() reported.
PoolNeverShrinks == [][PoolReportsGrow]_(L!vars)

\* Concurrent operations and sweeps together still are the naive contract.
ActsAsEagerPool == NaiveSpec
==============================================================================
