------------------------------ MODULE MCDeployment ----------------------------
(***************************************************************************)
(* Four contracts deployed side by side on one staged ledger: both         *)
(* variants of pattern 05, the naive one of pattern 04 and the optimized   *)
(* one of pattern 02.  Transactions of a stage may call different ones.    *)
(***************************************************************************)
EXTENDS Sums, Sequences, TLC

CONSTANTS
  Txs, Absent, FIELDS, SettingValues, FeeValues, RestValues, MaxU64,
  Accounts, Amounts, MaxI128

ASSUME DeploymentAssumption ==
  /\ IsFiniteSet(Txs)
  /\ FIELDS \in Nat /\ MaxU64 \in Nat /\ MaxI128 \in Nat
  /\ Amounts \subseteq Int
  /\ Absent \notin Int \cup SettingValues \cup [fee_bps : FeeValues, rest : RestValues]

VARIABLES store, phase, call, footprint, view, receipt

NA == INSTANCE NaiveAdmin
BA == INSTANCE BatchedAdmin
NN == INSTANCE NaiveNonce
PB == INSTANCE PerUserBalance

Contracts == {"NaiveAdmin", "BatchedAdmin", "NaiveNonce", "PerUserBalance"}

CallsOf(o) == CASE o = "NaiveAdmin"     -> NA!Calls
                [] o = "BatchedAdmin"   -> BA!Calls
                [] o = "NaiveNonce"     -> NN!Calls
                [] o = "PerUserBalance" -> PB!Calls

KeysOf(o) == CASE o = "NaiveAdmin"     -> NA!Keys
               [] o = "BatchedAdmin"   -> BA!Keys
               [] o = "NaiveNonce"     -> NN!Keys
               [] o = "PerUserBalance" -> PB!Keys

InvokeOf(o, c, st) == CASE o = "NaiveAdmin"     -> NA!Invoke(c, st)
                        [] o = "BatchedAdmin"   -> BA!Invoke(c, st)
                        [] o = "NaiveNonce"     -> NN!Invoke(c, st)
                        [] o = "PerUserBalance" -> PB!Invoke(c, st)

\* A contract gets to see its own entries only, and replaces no others.
Own(o, st)     == [k \in KeysOf(o) |-> st[k]]
Back(own, st)  == [k \in DOMAIN st |-> IF k \in DOMAIN own THEN own[k] ELSE st[k]]

LedgerKeys        == UNION {KeysOf(o) : o \in Contracts}
LedgerCalls       == UNION {[contract : {o}, inner : CallsOf(o)] : o \in Contracts}
LedgerValues(k)   == IF k \in NA!Keys THEN NA!Values(k)
                     ELSE IF k \in BA!Keys THEN BA!Values(k)
                     ELSE IF k \in NN!Keys THEN NN!Values(k) ELSE PB!Values(k)
Run(c, st)        == LET out == InvokeOf(c.contract, c.inner, Own(c.contract, st))
                     IN  [status |-> out.status, value |-> out.value,
                          store |-> Back(out.store, st)]
FootprintOf(c, s) == CASE c.contract = "NaiveAdmin"     -> NA!Footprint(c.inner, Own(c.contract, s))
                       [] c.contract = "BatchedAdmin"   -> BA!Footprint(c.inner, Own(c.contract, s))
                       [] c.contract = "NaiveNonce"     -> NN!Footprint(c.inner, Own(c.contract, s))
                       [] c.contract = "PerUserBalance" -> PB!Footprint(c.inner, Own(c.contract, s))

INSTANCE StagedLedger

Receipts == [call : LedgerCalls, status : {"ok", "trap"},
             value : Int \cup {Absent} \cup SettingValues \cup FeeValues
                       \cup BA!Config \cup {BA!DefaultConfig}]

\* Neither a receipt nor a map of balances looks as if it were not there.
ASSUME AbsentIsNothing == Absent \notin Receipts /\ Absent \notin PB!Naive!Maps

SomeAmounts == {-1, 2}

Symmetry == Permutations(Txs) \cup Permutations(Accounts)

------------------------------------------------------------------------------
Done(o, fn) ==
  {t \in Txs : /\ receipt[t] # Absent
               /\ receipt[t].call.contract = o /\ receipt[t].call.inner.fn = fn}

Handed == {t \in Done("NaiveNonce", "next") : receipt[t].status = "ok"}

\* What the global bottleneck is paid for: whoever asks, in whatever stage,
\* no two callers are handed the same nonce, and none is skipped.
NoncesGloballyUnique ==
  /\ \A t, u \in Handed : t # u => receipt[t].value # receipt[u].value
  /\ {receipt[t].value : t \in Handed} = 1..Cardinality(Handed)

ValuesOf(t) == receipt[t].call.inner.values

\* Configurations written setting by setting never end up torn: some call's
\* settings are all there, and what lies past their end is what a longer
\* configuration left, or nothing.
NoTornConfig ==
  LET writes == Done("NaiveAdmin", "set_config")
  IN  /\ (\E t \in writes : ValuesOf(t) # <<>>) =>
           \E t \in writes :
             /\ ValuesOf(t) # <<>>
             /\ \A i \in DOMAIN ValuesOf(t) : store[NA!Setting(i - 1)] = ValuesOf(t)[i]
      /\ \A i \in NA!Fields :
           LET writers == {t \in writes : i < Len(ValuesOf(t))}
           IN  IF writers = {} THEN store[NA!Setting(i)] = Absent
               ELSE \E t \in writers : store[NA!Setting(i)] = ValuesOf(t)[i + 1]

\* The configurations there have been: the default, and what calls replaced it by.
Configs ==
  {BA!DefaultConfig}
    \cup {receipt[t].call.inner.config : t \in Done("BatchedAdmin", "set_config")}

\* A configuration is replaced whole: every reader, of the struct or of one
\* field, is told something of a single configuration some call set, or of
\* the default one before any call did; and that is what the ledger holds.
ReadersSeeWholeConfigs ==
  /\ \A t \in Done("BatchedAdmin", "get_config") : receipt[t].value \in Configs
  /\ \A t \in Done("BatchedAdmin", "fee_bps") :
       \E config \in Configs : receipt[t].value = config.fee_bps
  /\ Done("BatchedAdmin", "set_config") # {} =>
       \E t \in Done("BatchedAdmin", "set_config") :
         store[BA!ConfigKey] = receipt[t].call.inner.config

Moved(fn) == {t \in Done("PerUserBalance", fn) : receipt[t].status = "ok"}

AmountOf(T) == NetSum([t \in T |-> receipt[t].call.inner.amount], T)

\* Every account holds what was deposited to it and transferred to it, less
\* what was transferred from it, by exactly the calls reported as "ok":
\* concurrent transfers that share no endpoint lose and invent nothing.
BalancesMatchReceipts ==
  \A a \in Accounts :
    PB!read(a, store) =
        AmountOf({t \in Moved("deposit") : receipt[t].call.inner.to = a})
      + AmountOf({t \in Moved("transfer") : receipt[t].call.inner.to = a})
      - AmountOf({t \in Moved("transfer") : receipt[t].call.inner.from = a})

\* No account is overdrawn by spending: a balance is below zero only if a
\* call that carried a negative amount credited that account.
NoOverdraft ==
  \A a \in Accounts :
    PB!read(a, store) < 0 =>
      \E t \in Moved("deposit") \cup Moved("transfer") :
        receipt[t].call.inner.to = a /\ receipt[t].call.inner.amount < 0

\* What the ledger and its receipts say of one contract.
ReceiptsOf(o) ==
  [t \in Txs |-> IF receipt[t] # Absent /\ receipt[t].call.contract = o
                 THEN [receipt[t] EXCEPT !.call = @.inner] ELSE Absent]

\* Separate entries, transactions side by side, other contracts in the same
\* stages: every map of balances and every receipt is one the naive contract
\* gives when it runs the same calls one by one.
OneMap ==
  INSTANCE SerialLedger WITH
    store <- PB!BalanceMap, receipt <- ReceiptsOf("PerUserBalance"),
    LedgerCalls <- PB!Naive!Calls, LedgerKeys <- PB!Naive!Keys, Run <- PB!Naive!Invoke

ActsAsOneMap ==   \* OneMap!Spec, with the steps of other contracts tried first
  OneMap!Init /\ [][UNCHANGED OneMap!vars \/ OneMap!Next]_<<store, receipt>>
==============================================================================
