------------------------- MODULE ShardedCounterProofs ------------------------
(***************************************************************************)
(* The sharded counter on the staged ledger, for every number of shards,   *)
(* transactions and every width of a shard.                                *)
(***************************************************************************)
EXTENDS MCShardedCounter, SumsProofs

P == INSTANCE StagedLedgerProofs

\* What a store of this contract is.
LEMMA StoresAre ==
  P!Stores = [C!Keys -> (0..MaxU64) \cup {Absent}]
<1>1. ASSUME NEW st \in P!Stores PROVE st \in [C!Keys -> (0..MaxU64) \cup {Absent}]
  BY DEF P!Stores, LedgerKeys, LedgerValues, C!Values
<1>2. ASSUME NEW st \in [C!Keys -> (0..MaxU64) \cup {Absent}] PROVE st \in P!Stores
  BY DEF P!Stores, LedgerKeys, LedgerValues, C!Values
<1> QED BY <1>1, <1>2

\* A shard's entry is one of the keys exactly when the shard exists.
LEMMA ShardKeys ==
  /\ \A i \in Nat : C!Shard(i) \in C!Keys <=> i \in C!Shards
  /\ \A i, j \in Nat : C!Shard(i) = C!Shard(j) => i = j
  /\ \A k \in C!Keys : \E i \in C!Shards : k = C!Shard(i)
BY CounterAssumption DEF C!Keys, C!Shard, C!Shards

\* What an increment does to a store.
LEMMA IncrementRuns ==
  ASSUME NEW c, c.fn = "increment", c.shard \in C!Shards, NEW st \in P!Stores
  PROVE  LET new == C!ShardValue(st, c.shard) + 1
         IN  /\ C!ShardValue(st, c.shard) \in 0..MaxU64
             /\ Run(c, st) = IF new <= MaxU64
                             THEN C!Ok([st EXCEPT ![C!Shard(c.shard)] = new], new)
                             ELSE C!Trap(st)
             /\ Run(c, st).store \in P!Stores
<1> DEFINE new == C!ShardValue(st, c.shard) + 1
<1>1. C!Shard(c.shard) \in C!Keys /\ st \in [C!Keys -> (0..MaxU64) \cup {Absent}]
  BY ShardKeys, StoresAre, CounterAssumption DEF C!Shards
<1>2. C!ShardValue(st, c.shard) \in 0..MaxU64
  BY <1>1, CounterAssumption DEF C!ShardValue, C!UnwrapOr
<1>3. Run(c, st) = IF new <= MaxU64 THEN C!Ok([st EXCEPT ![C!Shard(c.shard)] = new], new)
                                    ELSE C!Trap(st)
  BY CounterAssumption DEF Run, C!Invoke, C!increment, C!Require, C!Put, C!Shards
<1>4. [st EXCEPT ![C!Shard(c.shard)] = new] \in P!Stores \/ ~(new <= MaxU64)
  BY <1>1, <1>2, StoresAre, CounterAssumption
<1> QED BY <1>2, <1>3, <1>4 DEF C!Ok, C!Trap

\* The other calls, and increments of a shard there is not, write nothing.
LEMMA ReadOnlyRuns ==
  ASSUME NEW c \in LedgerCalls, c.fn = "increment" => c.shard \notin C!Shards, NEW st
  PROVE  Run(c, st).store = st
<1>1. CASE c.fn = "increment" 
  <2>1. c.shard >= SHARDS
    BY <1>1, CounterAssumption DEF LedgerCalls, C!Calls, C!Shards
  <2> QED BY <1>1, <2>1 DEF Run, C!Invoke, C!increment, C!Err
<1>2. CASE c.fn = "shard_total"
  BY <1>2 DEF Run, C!Invoke, C!shard_total, C!Err, C!Ok
<1>3. CASE c.fn = "total"
  BY <1>3 DEF Run, C!Invoke, C!total, C!Require, C!Trap, C!Ok
<1>4. CASE c.fn = "shards"
  BY <1>4 DEF Run, C!Invoke, C!shards, C!Ok
<1> QED BY <1>1, <1>2, <1>3, <1>4 DEF LedgerCalls, C!Calls

\* An increment of shard i needs the entry of shard i and no other.
LEMMA SoundIncrement ==
  ASSUME NEW c, c.fn = "increment", c.shard \in C!Shards, NEW st \in P!Stores,
         NEW f, f = [reads |-> {C!Shard(c.shard)}, writes |-> {C!Shard(c.shard)}]
  PROVE  P!SoundOn(c, f, st)
<1> DEFINE v == P!Visible(st, f)
           k == C!Shard(c.shard)
<1>1. k \in C!Keys /\ f \in P!Footprints /\ st \in [C!Keys -> (0..MaxU64) \cup {Absent}]
  BY ShardKeys, CounterAssumption, StoresAre DEF C!Shards, P!Footprints, LedgerKeys
<1>2. v \in P!Stores /\ v[k] = st[k]
  BY <1>1, StoresAre DEF P!Visible, P!Touched, LedgerKeys
<1>3. C!ShardValue(v, c.shard) = C!ShardValue(st, c.shard)
  BY <1>2 DEF C!ShardValue, C!UnwrapOr
<1> HIDE DEF v
<1>4. /\ Run(c, v).store \in P!Stores /\ Run(c, st).store \in P!Stores
      /\ Run(c, v).status = Run(c, st).status /\ Run(c, v).value = Run(c, st).value
      /\ Run(c, v).store[k] = Run(c, st).store[k]
      /\ \A j \in C!Keys \ {k} : Run(c, st).store[j] = st[j]
  <2> DEFINE new == C!ShardValue(st, c.shard) + 1
  <2>1. /\ Run(c, v) = IF new <= MaxU64 THEN C!Ok([v EXCEPT ![k] = new], new) ELSE C!Trap(v)
        /\ Run(c, st) = IF new <= MaxU64 THEN C!Ok([st EXCEPT ![k] = new], new) ELSE C!Trap(st)
        /\ Run(c, v).store \in P!Stores /\ Run(c, st).store \in P!Stores
    BY <1>2, <1>3, IncrementRuns
  <2>2. v \in [C!Keys -> (0..MaxU64) \cup {Absent}]
    BY <1>2, StoresAre
  <2> HIDE DEF new, k
  <2> QED BY <1>1, <1>2, <2>1, <2>2 DEF C!Ok, C!Trap
<1>5. f.writes = {k} /\ st \in P!Stores
  OBVIOUS
<1>6. /\ \A j \in f.writes : Run(c, v).store[j] = Run(c, st).store[j]
      /\ \A j \in LedgerKeys \ f.writes : Run(c, st).store[j] = st[j]
  BY <1>4, <1>5 DEF LedgerKeys
<1> HIDE DEF k
<1> QED BY <1>1, <1>4, <1>5, <1>6, P!SoundWhen DEF v

\* Every call's footprint is sound: the entries the doc comments of the entry
\* points name are all a call can tell apart or change.
LEMMA FootprintsSound == P!LedgerAssumption
<1>1. ASSUME NEW c \in LedgerCalls, NEW s \in P!Stores, NEW st \in P!Stores
      PROVE  P!SoundOn(c, FootprintOf(c, s), st)
  <2> DEFINE f == FootprintOf(c, s)
             v == P!Visible(st, f)
  <2>1. f = C!Footprint(c, s) /\ f = [reads |-> C!ReadKeys(c), writes |-> IF c.fn = "increment" THEN C!ReadKeys(c) ELSE {}]
    BY DEF FootprintOf, C!Footprint
  <2>2. c.fn \in {"increment", "shard_total"} => 
         /\ c.shard \in 0..SHARDS
         /\ C!ReadKeys(c) = IF c.shard \in C!Shards THEN {C!Shard(c.shard)} ELSE {}
    BY ShardKeys, CounterAssumption DEF LedgerCalls, C!Calls, C!ReadKeys
  <2>3. CASE c.fn = "increment" /\ c.shard \in C!Shards
    BY <2>1, <2>2, <2>3, SoundIncrement
  <2>4. CASE ~(c.fn = "increment" /\ c.shard \in C!Shards)
    <3>1. f.writes = {} /\ f \in P!Footprints
      <4>1. C!ReadKeys(c) \subseteq C!Keys
        BY DEF LedgerCalls, C!Calls, C!ReadKeys
      <4> QED BY <2>1, <2>2, <2>4, <4>1 DEF P!Footprints, LedgerKeys
    <3>2. Run(c, v).store = v /\ Run(c, st).store = st
      BY <2>4, ReadOnlyRuns
    <3>3. st \in [C!Keys -> (0..MaxU64) \cup {Absent}] /\ v \in P!Stores
      BY StoresAre DEF P!Visible, LedgerKeys
    <3>4. Run(c, v).status = Run(c, st).status /\ Run(c, v).value = Run(c, st).value
      <4>1. CASE c.fn = "increment"
        <5>1. c.shard >= SHARDS
          BY <2>2, <2>4, <4>1, CounterAssumption DEF C!Shards
        <5> QED BY <4>1, <5>1 DEF Run, C!Invoke, C!increment, C!Err
      <4>2. CASE c.fn = "shard_total" /\ c.shard \in C!Shards
        <5>1. v[C!Shard(c.shard)] = st[C!Shard(c.shard)]
          BY <2>1, <2>2, <4>2, ShardKeys, CounterAssumption DEF P!Visible, P!Touched, LedgerKeys, C!Shards
        <5> QED BY <4>2, <5>1, CounterAssumption DEF Run, C!Invoke, C!shard_total, C!Ok, C!ShardValue, C!UnwrapOr, C!Shards
      <4>3. CASE c.fn = "shard_total" /\ c.shard \notin C!Shards
        <5>1. c.shard >= SHARDS
          BY <2>2, <4>3, CounterAssumption DEF C!Shards
        <5> QED BY <4>3, <5>1 DEF Run, C!Invoke, C!shard_total, C!Err
      <4>4. CASE c.fn = "total"
        <5>1. v = st
          <6>1. f.reads = C!Keys
            BY <4>4, <2>1 DEF C!ReadKeys
          <6> QED BY <6>1, <3>3 DEF P!Visible, P!Touched, LedgerKeys
        <5> QED BY <5>1
      <4>5. CASE c.fn = "shards"
        BY <4>5 DEF Run, C!Invoke, C!shards, C!Ok
      <4> QED BY <4>1, <4>2, <4>3, <4>4, <4>5, <2>4 DEF LedgerCalls, C!Calls
    <3>5. /\ \A k \in f.writes : Run(c, v).store[k] = Run(c, st).store[k]
          /\ \A k \in LedgerKeys \ f.writes : Run(c, st).store[k] = st[k]
      BY <3>1, <3>2
    <3>6. f \in P!Footprints /\ Run(c, v).store \in P!Stores /\ Run(c, st).store \in P!Stores
      BY <3>1, <3>2, <3>3
    <3> HIDE DEF f
    <3> QED BY <3>4, <3>5, <3>6, P!SoundWhen DEF f
  <2> QED BY <2>3, <2>4
<1>2. \A k \in LedgerKeys : Absent \in LedgerValues(k)
  BY DEF LedgerValues, C!Values
<1> QED BY <1>1, <1>2 DEF P!LedgerAssumption, P!FootprintSound
------------------------------------------------------------------------------
\* The terms of the sum.
ValuesOf(st) == [i \in C!Shards |-> C!ShardValue(st, i)]

\* shard_total reads a number, and total adds the SHARDS of them up.
LEMMA SumIs ==
  ASSUME NEW st \in P!Stores
  PROVE  /\ IsFiniteSet(C!Shards)
         /\ ValuesOf(st) \in [C!Shards -> 0..MaxU64]
         /\ ValuesOf(st) \in [C!Shards -> Nat]
         /\ C!ShardSum(st) = SumOver(ValuesOf(st), C!Shards)
         /\ C!ShardSum(st) \in Nat
<1> USE CounterAssumption
<1>1. IsFiniteSet(C!Shards)
  BY FS_Interval DEF C!Shards
<1>2. \A i \in C!Shards : C!ShardValue(st, i) \in 0..MaxU64
  BY StoresAre, ShardKeys DEF C!ShardValue, C!UnwrapOr, C!Shards
<1>3. ValuesOf(st) \in [C!Shards -> 0..MaxU64] /\ ValuesOf(st) \in [C!Shards -> Nat]
  BY <1>2 DEF ValuesOf
<1>4. C!ShardSum(st) = SumOver(ValuesOf(st), C!Shards)
  <2>1. \A f, S : C!Tally(f, S) = Tally(f, S)
    BY DEF C!Tally, Tally
  <2>2. \A S : C!Cardinality(S) = Cardinality(S)
    BY DEF C!Cardinality, Cardinality
  <2>3. \A f, S : C!SumOver(f, S) = SumOver(f, S)
    BY <2>1, <2>2 DEF C!SumOver, SumOver
  <2> QED BY <2>3 DEF C!ShardSum, ValuesOf
<1>5. C!Shards \in SUBSET C!Shards
  OBVIOUS
<1> QED BY <1>1, <1>3, <1>4, <1>5, SumOverType

\* Every outcome is a store and a receipt.
LEMMA RunTyped ==
  ASSUME NEW c \in LedgerCalls, NEW st \in P!Stores
  PROVE  /\ Run(c, st).store \in P!Stores
         /\ Serial!ReceiptOf(c, Run(c, st)) \in Receipts
         /\ Serial!ReceiptOf(c, Run(c, st)) # Absent
<1> USE CounterAssumption
<1>1. Run(c, st).store \in P!Stores
  BY ReadOnlyRuns, IncrementRuns
<1>2. Run(c, st).status \in {"ok", "err", "trap"} /\ Run(c, st).value \in Int \cup {Absent, "ShardOutOfRange"}
  <2>1. CASE c.fn \in {"increment", "shard_total"}
    <3>1. CASE c.shard >= SHARDS
      BY <2>1, <3>1 DEF Run, C!Invoke, C!increment, C!shard_total, C!Err
    <3>2. CASE ~(c.shard >= SHARDS)
      <4>1. c.shard \in C!Shards
        BY <2>1, <3>2 DEF LedgerCalls, C!Calls, C!Shards
      <4>2. C!ShardValue(st, c.shard) \in 0..MaxU64
        BY <4>1, SumIs DEF ValuesOf
      <4> QED BY <2>1, <3>2, <4>2 DEF Run, C!Invoke, C!increment, C!shard_total, C!Require, C!Ok, C!Trap
    <3> QED BY <3>1, <3>2
  <2>2. CASE c.fn = "total"
    BY <2>2, SumIs DEF Run, C!Invoke, C!total, C!Require, C!Ok, C!Trap
  <2>3. CASE c.fn = "shards"
    BY <2>3 DEF Run, C!Invoke, C!shards, C!Ok
  <2> QED BY <2>1, <2>2, <2>3 DEF LedgerCalls, C!Calls
<1>3. Serial!ReceiptOf(c, Run(c, st)) \in Receipts
  BY <1>2 DEF Serial!ReceiptOf, Receipts
<1> QED BY <1>1, <1>3, ReceiptAssumption

\* An increment that goes through adds one to the sum.
LEMMA IncrementSums ==
  ASSUME NEW c, c.fn = "increment", c.shard \in C!Shards, NEW st \in P!Stores,
         Run(c, st).status = "ok"
  PROVE  /\ C!ShardSum(Run(c, st).store) = C!ShardSum(st) + 1
         /\ Run(c, st).value = C!ShardValue(st, c.shard) + 1
         /\ C!ShardValue(Run(c, st).store, c.shard) = C!ShardValue(st, c.shard) + 1
         /\ \A i \in C!Shards \ {c.shard} :
              C!ShardValue(Run(c, st).store, i) = C!ShardValue(st, i)
         /\ Run(c, st).store \in P!Stores
<1> DEFINE new == C!ShardValue(st, c.shard) + 1
           after == Run(c, st).store
<1>1. /\ C!ShardValue(st, c.shard) \in 0..MaxU64
      /\ after = [st EXCEPT ![C!Shard(c.shard)] = new]
      /\ Run(c, st).value = new
      /\ after \in P!Stores
  BY IncrementRuns DEF C!Ok, C!Trap
<1>2. st \in [C!Keys -> (0..MaxU64) \cup {Absent}] /\ C!Shard(c.shard) \in C!Keys
  BY StoresAre, ShardKeys, CounterAssumption DEF C!Shards
<1>3. new # Absent /\ after[C!Shard(c.shard)] = new
  BY <1>1, <1>2, CounterAssumption
<1>4. C!ShardValue(after, c.shard) = new
  BY <1>3 DEF C!ShardValue, C!UnwrapOr
<1>5. ASSUME NEW i \in C!Shards \ {c.shard} PROVE C!ShardValue(after, i) = C!ShardValue(st, i)
  BY <1>1, <1>2, ShardKeys, CounterAssumption DEF C!ShardValue, C!UnwrapOr, C!Shards
<1> HIDE DEF after
<1>6. ValuesOf(after) \in [C!Shards -> Nat] /\ ValuesOf(st) \in [C!Shards -> Nat]
  BY <1>1, SumIs
<1>7. /\ ValuesOf(after)[c.shard] = new /\ ValuesOf(st)[c.shard] = C!ShardValue(st, c.shard)
      /\ \A x \in C!Shards \ {c.shard} : ValuesOf(after)[x] = ValuesOf(st)[x]
  BY <1>4, <1>5 DEF ValuesOf
<1>8. SumOver(ValuesOf(after), C!Shards) + C!ShardValue(st, c.shard)
        = SumOver(ValuesOf(st), C!Shards) + new
  <2> HIDE DEF new
  <2>1. IsFiniteSet(C!Shards)
    BY SumIs
  <2> QED BY <1>6, <1>7, <2>1, SumOverUpdate
<1>9. /\ C!ShardSum(after) \in Nat /\ C!ShardSum(st) \in Nat
      /\ C!ShardSum(after) = SumOver(ValuesOf(after), C!Shards)
      /\ C!ShardSum(st) = SumOver(ValuesOf(st), C!Shards)
  BY <1>1, SumIs
<1>10. C!ShardSum(after) = C!ShardSum(st) + 1
  BY <1>1, <1>8, <1>9
<1> QED BY <1>1, <1>4, <1>5, <1>10 DEF after

------------------------------------------------------------------------------
\* What every serial step preserves.  That two increments of a shard differ
\* needs the bound: each was told at most what the shard holds now, and the
\* next one is told more than that.
ToldAtMostHeld ==
  \A t \in DoneOk("increment") :
    /\ receipt[t].call.shard \in C!Shards
    /\ receipt[t].value \in 1..C!ShardValue(store, receipt[t].call.shard)

IInv ==
  /\ store \in P!Stores
  /\ receipt \in [Txs -> Receipts \cup {Absent}]
  /\ ToldAtMostHeld
  /\ IncrementsOfAShardDistinct
  /\ CountsEveryIncrement

LEMMA InitIInv == Serial!Init => IInv
<1> SUFFICES ASSUME Serial!Init PROVE IInv
  OBVIOUS
<1>1. store \in P!Stores /\ \A i \in C!Shards : C!ShardValue(store, i) = 0
  BY StoresAre, ShardKeys, CounterAssumption
     DEF Serial!Init, LedgerKeys, C!ShardValue, C!UnwrapOr, C!Shards
<1>2. DoneOk("increment") = {} /\ receipt \in [Txs -> Receipts \cup {Absent}]
  BY DEF Serial!Init, DoneOk, Done
<1>3. C!ShardSum(store) = 0
  <2>1. \A i \in C!Shards : ValuesOf(store)[i] = 0
    BY <1>1 DEF ValuesOf
  <2> QED BY <1>1, <2>1, SumIs, SumOverZero
<1>4. CountsEveryIncrement
  BY <1>2, <1>3, FS_EmptySet DEF CountsEveryIncrement
<1> QED BY <1>1, <1>2, <1>4 DEF IInv, ToldAtMostHeld, IncrementsOfAShardDistinct

\* What one execution does to the receipts.
LEMMA ExecuteReceipts ==
  ASSUME IInv, NEW t \in Txs, NEW c \in LedgerCalls, Serial!Execute(t, c)
  PROVE  LET out == Run(c, store)
         IN  /\ receipt[t] = Absent /\ receipt'[t] # Absent
             /\ receipt'[t].call = c /\ receipt'[t].status = out.status
             /\ receipt'[t].value = out.value
             /\ store' = out.store
             /\ receipt' \in [Txs -> Receipts \cup {Absent}]
             /\ \A u \in Txs \ {t} : receipt'[u] = receipt[u]
             /\ IF c.fn = "increment" /\ out.status = "ok"
                THEN DoneOk("increment")' = DoneOk("increment") \cup {t}
                ELSE DoneOk("increment")' = DoneOk("increment")
             /\ t \notin DoneOk("increment")
<1> DEFINE out == Run(c, store)
           r   == Serial!ReceiptOf(c, out)
<1>1. /\ r \in Receipts /\ r # Absent
      /\ r.call = c /\ r.status = out.status /\ r.value = out.value
  BY RunTyped DEF IInv, Serial!ReceiptOf
<1>2. receipt[t] = Absent /\ receipt' = [receipt EXCEPT ![t] = r] /\ store' = out.store
  BY DEF Serial!Execute
<1>3. receipt \in [Txs -> Receipts \cup {Absent}]
  BY DEF IInv
<1> HIDE DEF r, out
<1>4. /\ receipt'[t] = r /\ \A u \in Txs \ {t} : receipt'[u] = receipt[u]
      /\ receipt' \in [Txs -> Receipts \cup {Absent}]
  BY <1>1, <1>2, <1>3
<1>5. t \notin DoneOk("increment")
  BY <1>2 DEF DoneOk, Done
<1>6. \A u \in Txs : u \in DoneOk("increment")' <=>
        \/ u \in DoneOk("increment")
        \/ u = t /\ c.fn = "increment" /\ out.status = "ok"
  BY <1>1, <1>4, <1>5 DEF DoneOk, Done
<1>7. DoneOk("increment")' \subseteq Txs /\ DoneOk("increment") \subseteq Txs
  BY DEF DoneOk, Done
<1>8. IF c.fn = "increment" /\ out.status = "ok"
      THEN DoneOk("increment")' = DoneOk("increment") \cup {t}
      ELSE DoneOk("increment")' = DoneOk("increment")
  <2> DEFINE D == DoneOk("increment")
             E == DoneOk("increment")'
  <2> HIDE DEF D, E
  <2> QED BY <1>6, <1>7 DEF D, E
<1> QED BY <1>1, <1>2, <1>4, <1>5, <1>8 DEF out

LEMMA NextIInv == IInv /\ [Serial!Next]_(Serial!vars) => IInv'
<1> SUFFICES ASSUME IInv, [Serial!Next]_(Serial!vars) PROVE IInv'
  OBVIOUS
<1>1. ASSUME NEW t \in Txs, NEW c \in LedgerCalls, Serial!Execute(t, c) PROVE IInv'
  <2> DEFINE out == Run(c, store)
             D   == DoneOk("increment")
  <2>1. /\ store \in P!Stores /\ receipt[t] = Absent
        /\ receipt'[t].call = c /\ receipt'[t].value = out.value
        /\ store' = out.store
        /\ receipt' \in [Txs -> Receipts \cup {Absent}]
        /\ \A u \in Txs \ {t} : receipt'[u] = receipt[u]
        /\ t \notin D /\ D \subseteq Txs
    BY <1>1, ExecuteReceipts DEF IInv, DoneOk, Done
  <2>2. CASE c.fn = "increment" /\ out.status = "ok"
    <3>1. D' = D \cup {t}
      BY <1>1, <2>2, ExecuteReceipts
    <3>2. c.shard \in C!Shards
      BY <2>2, CounterAssumption DEF LedgerCalls, C!Calls, C!Shards, Run, C!Invoke, C!increment, C!Err
    <3>3. /\ C!ShardSum(store') = C!ShardSum(store) + 1
          /\ out.value = C!ShardValue(store, c.shard) + 1
          /\ C!ShardValue(store', c.shard) = C!ShardValue(store, c.shard) + 1
          /\ \A i \in C!Shards \ {c.shard} : C!ShardValue(store', i) = C!ShardValue(store, i)
          /\ store' \in P!Stores
      BY <2>1, <2>2, <3>2, IncrementSums
    <3>4. \A i \in C!Shards : C!ShardValue(store, i) \in 0..MaxU64
      BY <2>1, SumIs DEF ValuesOf
    <3>5. ASSUME NEW u \in D'
          PROVE  /\ receipt'[u].call.shard \in C!Shards
                 /\ receipt'[u].value \in 1..C!ShardValue(store', receipt'[u].call.shard)
      <4>1. CASE u = t
        BY <2>1, <3>2, <3>3, <3>4, <4>1, CounterAssumption
      <4>2. CASE u # t
        <5>1. receipt'[u] = receipt[u] /\ u \in D
          BY <2>1, <3>1, <4>2
        <5>2. receipt[u].call.shard \in C!Shards /\ receipt[u].value \in 1..C!ShardValue(store, receipt[u].call.shard)
          BY <5>1 DEF IInv, ToldAtMostHeld
        <5> QED BY <5>1, <5>2, <3>2, <3>3, <3>4, CounterAssumption
      <4> QED BY <4>1, <4>2
    <3>6. ToldAtMostHeld'
      BY <3>5 DEF ToldAtMostHeld
    <3>7. IncrementsOfAShardDistinct'
      <4> SUFFICES ASSUME NEW u \in D', NEW w \in D', u # w,
                          receipt'[u].call.shard = receipt'[w].call.shard
                   PROVE  receipt'[u].value # receipt'[w].value
        BY DEF IncrementsOfAShardDistinct
      <4>1. \A x \in D : /\ receipt'[x] = receipt[x]
                          /\ receipt[x].value \in 1..C!ShardValue(store, receipt[x].call.shard)
        BY <2>1 DEF IInv, ToldAtMostHeld
      <4>2. CASE u \in D /\ w \in D
        BY <4>1, <4>2 DEF IInv, IncrementsOfAShardDistinct
      <4>3. CASE u = t /\ w \in D
        BY <2>1, <3>2, <3>3, <3>4, <4>1, <4>3, CounterAssumption
      <4>4. CASE u \in D /\ w = t
        BY <2>1, <3>2, <3>3, <3>4, <4>1, <4>4, CounterAssumption
      <4> QED BY <3>1, <4>2, <4>3, <4>4
    <3>8. CountsEveryIncrement'
      <4>1. IsFiniteSet(D)
        BY <2>1, CounterAssumption, FS_Subset
      <4>2. Cardinality(D \cup {t}) = Cardinality(D) + 1
        BY <2>1, <4>1, FS_AddElement
      <4>3. C!ShardSum(store) = Cardinality(D)
        BY DEF IInv, CountsEveryIncrement
      <4> HIDE DEF D
      <4>4. C!ShardSum(store') = Cardinality(D')
        BY <3>1, <3>3, <4>2, <4>3
      <4> QED BY <4>4 DEF CountsEveryIncrement, D
    <3> QED BY <2>1, <3>3, <3>6, <3>7, <3>8 DEF IInv
  <2>3. CASE ~(c.fn = "increment" /\ out.status = "ok")
    <3>1. D' = D
      BY <1>1, <2>3, ExecuteReceipts
    <3>2. store' = store
      <4>1. CASE c.fn = "increment" /\ c.shard \in C!Shards
        BY <2>1, <2>3, <4>1, IncrementRuns DEF C!Ok, C!Trap
      <4>2. CASE ~(c.fn = "increment" /\ c.shard \in C!Shards)
        BY <2>1, <4>2, ReadOnlyRuns
      <4> QED BY <4>1, <4>2
    <3>3. \A u \in D : receipt'[u] = receipt[u]
      BY <2>1
    <3> HIDE DEF D
    <3>4. ToldAtMostHeld' /\ IncrementsOfAShardDistinct'
      BY <3>1, <3>2, <3>3 DEF D, IInv, ToldAtMostHeld, IncrementsOfAShardDistinct
    <3>5. CountsEveryIncrement'
      BY <3>1, <3>2 DEF D, IInv, CountsEveryIncrement
    <3> QED BY <2>1, <3>2, <3>4, <3>5 DEF IInv
  <2> QED BY <2>2, <2>3
<1>2. CASE UNCHANGED Serial!vars
  BY <1>2 DEF Serial!vars, IInv, ToldAtMostHeld, IncrementsOfAShardDistinct, CountsEveryIncrement, DoneOk, Done
<1> QED BY <1>1, <1>2 DEF Serial!Next

------------------------------------------------------------------------------
\* total() run on the store says what the receipts add up to.
LEMMA StepTotal == IInv /\ [Serial!Next]_(Serial!vars) => [TotalCountsAll]_vars
<1> SUFFICES ASSUME IInv, [Serial!Next]_(Serial!vars), NEW t \in Txs,
                    receipt[t] = Absent, t \in Done("total")'
             PROVE  LET n == Cardinality(DoneOk("increment"))
                    IN  IF n <= MaxU64
                        THEN receipt'[t].status = "ok" /\ receipt'[t].value = n
                        ELSE receipt'[t].status = "trap"
  BY DEF TotalCountsAll
<1>1. receipt'[t] # Absent /\ receipt'[t].call.fn = "total"
  BY DEF Done
<1>2. PICK u \in Txs, c \in LedgerCalls : Serial!Execute(u, c)
  BY <1>1 DEF Serial!Next, Serial!vars
<1>3. u = t
  BY <1>1, <1>2, ExecuteReceipts
<1>4. c.fn = "total" /\ receipt'[t].status = Run(c, store).status /\ receipt'[t].value = Run(c, store).value
  BY <1>1, <1>2, <1>3, ExecuteReceipts
<1>5. C!ShardSum(store) = Cardinality(DoneOk("increment"))
  BY DEF IInv, CountsEveryIncrement
<1> QED BY <1>4, <1>5 DEF Run, C!Invoke, C!total, C!Require, C!Ok, C!Trap

------------------------------------------------------------------------------
\* The single counter holds the sum, and its type has room for one more
\* whenever a shard's has.
LEMMA SingleCounterReads ==
  ASSUME IInv
  PROVE  C!Naive!UnwrapOr(C!SingleCounter, C!Naive!Counter, 0) = C!ShardSum(store)
<1>1. C!ShardSum(store) \in Nat
  BY SumIs DEF IInv
<1>2. CASE \A s \in C!Keys : store[s] = Absent
  <2>1. \A i \in C!Shards : ValuesOf(store)[i] = 0
    BY <1>2, ShardKeys, CounterAssumption DEF ValuesOf, C!ShardValue, C!UnwrapOr, C!Shards
  <2>2. C!ShardSum(store) = 0
    BY <2>1, SumIs, SumOverZero DEF IInv
  <2> QED BY <1>2, <2>2 DEF C!Naive!UnwrapOr, C!SingleCounter, C!Naive!Counter
<1>3. CASE ~ \A s \in C!Keys : store[s] = Absent
  BY <1>1, <1>3, CounterAssumption DEF C!Naive!UnwrapOr, C!SingleCounter, C!Naive!Counter
<1> QED BY <1>2, <1>3

\* SHARDS full shards are the most there can be.
LEMMA SumBounded ==
  ASSUME NEW st \in P!Stores
  PROVE  C!ShardSum(st) <= SHARDS * MaxU64
<1>1. IsFiniteSet(C!Shards) /\ Cardinality(C!Shards) = SHARDS
  BY FS_Interval, CounterAssumption DEF C!Shards
<1>2. SumOver(ValuesOf(st), C!Shards) <= MaxU64 * Cardinality(C!Shards)
  BY SumIs, SumOverBound, CounterAssumption
<1> QED BY <1>1, <1>2, SumIs, CounterAssumption

\* A serial step is one naive increment, or does not show in the sum.
LEMMA StepIsNaive == IInv /\ [Serial!Next]_(Serial!vars) => [C!Naive!Next]_(C!SingleCounter)
<1> SUFFICES ASSUME IInv, [Serial!Next]_(Serial!vars)
             PROVE  [C!Naive!Next]_(C!SingleCounter)
  OBVIOUS
<1>1. CASE store' = store
  BY <1>1 DEF C!SingleCounter
<1>2. ASSUME NEW t \in Txs, NEW c \in LedgerCalls, Serial!Execute(t, c), store' # store
      PROVE  C!Naive!Next
  <2> DEFINE n == C!ShardSum(store)
  <2>1. store \in P!Stores /\ store' = Run(c, store).store
    BY <1>2 DEF IInv, Serial!Execute
  <2>2. c.fn = "increment" /\ c.shard \in C!Shards
    BY <1>2, <2>1, ReadOnlyRuns
  <2>3. Run(c, store).status = "ok"
    BY <1>2, <2>1, <2>2, IncrementRuns DEF C!Ok, C!Trap
  <2>4. C!ShardSum(store') = n + 1 /\ store' \in P!Stores
    BY <2>1, <2>2, <2>3, IncrementSums
  <2>5. n \in Nat /\ n + 1 <= SHARDS * MaxU64
    BY <2>1, <2>4, SumIs, SumBounded
  <2>6. ~ \A s \in C!Keys : store'[s] = Absent
    <3>1. C!ShardValue(store', c.shard) = C!ShardValue(store, c.shard) + 1
      BY <2>1, <2>2, <2>3, IncrementSums
    <3>2. C!ShardValue(store, c.shard) \in Nat
      BY <2>1, <2>2, SumIs DEF ValuesOf
    <3>3. C!Shard(c.shard) \in C!Keys
      BY <2>2, ShardKeys, CounterAssumption DEF C!Shards
    <3> QED BY <3>1, <3>2, <3>3 DEF C!ShardValue, C!UnwrapOr
  <2>7. C!SingleCounter' = [k \in {C!Naive!Counter} |-> n + 1]
    BY <2>4, <2>6 DEF C!SingleCounter, C!Naive!Counter
  <2>8. C!SingleCounter = [k \in {C!Naive!Counter} |-> C!SingleCounter[k]]
    BY DEF C!SingleCounter, C!Naive!Counter
  <2>9. C!Naive!UnwrapOr(C!SingleCounter, C!Naive!Counter, 0) = n
    BY SingleCounterReads
  <2> HIDE DEF n
  <2>10. C!Naive!increment(C!SingleCounter).store = C!Naive!Put(C!SingleCounter, C!Naive!Counter, n + 1)
    BY <2>5, <2>9 DEF C!Naive!increment, C!Naive!Require, C!Naive!Ok
  <2>11. C!Naive!Put(C!SingleCounter, C!Naive!Counter, n + 1) = C!SingleCounter'
    BY <2>7, <2>8 DEF C!Naive!Put
  <2> QED BY <2>10, <2>11 DEF C!Naive!Next, C!Naive!Increment
<1> QED BY <1>1, <1>2 DEF Serial!Next, Serial!vars

LEMMA InitIsNaive == Serial!Init => C!Naive!Init
BY DEF Serial!Init, LedgerKeys, C!Naive!Init, C!SingleCounter, C!Naive!Keys, C!Naive!Counter

------------------------------------------------------------------------------
\* The module's ledger is the one StagedLedgerProofs is about.
LEMMA SameLedger == Spec => P!Spec
<1>1. Init => P!Init
  BY DEF Init, P!Init, EmptyStore, P!EmptyStore, NoKeys, P!NoKeys
<1>2. [Next]_vars => [P!Next]_P!vars
  BY Zenon DEF vars, P!vars, Next, P!Next, Submit, P!Submit, Resubmit, P!Resubmit,
     OpenStage, P!OpenStage, Load, P!Load, Commit, P!Commit, Reject, P!Reject,
     InStage, P!InStage, Conflict, P!Conflict, Touched, P!Touched, Visible, P!Visible,
     Covers, P!Covers, WriteBack, P!WriteBack, ReceiptOf, P!ReceiptOf,
     EmptyStore, P!EmptyStore, NoKeys, P!NoKeys
<1> QED BY <1>1, <1>2, PTL DEF Spec, P!Spec

\* ... and so is the serial ledger it implements.
LEMMA SameSerial == P!SerialSpec => SerialSpec
<1>1. P!Serial!Init => Serial!Init
  BY DEF Serial!Init, P!Serial!Init
<1>2. [P!Serial!Next]_(P!Serial!vars) => [Serial!Next]_(Serial!vars)
  BY Zenon DEF Serial!vars, P!Serial!vars, Serial!Next, P!Serial!Next,
     Serial!Execute, P!Serial!Execute, Serial!ReceiptOf, P!Serial!ReceiptOf
<1> QED BY <1>1, <1>2, PTL DEF SerialSpec, P!SerialSpec, Serial!Spec, P!Serial!Spec

\* Staged or serial, the counter's receipts and shards are the same.
THEOREM CounterIsSerial == Spec => SerialSpec
BY FootprintsSound, SameLedger, SameSerial, P!StagedIsSerial

\* Shards, receipts, copies and footprints are what they should be.
THEOREM TypeCorrect == Spec => []TypeOK
<1>1. P!TypeOK => TypeOK
  BY DEF P!TypeOK, TypeOK, P!Stores, Stores, P!Phases, Phases, P!Footprints, Footprints
<1> QED BY <1>1, FootprintsSound, SameLedger, P!TypeCorrect, PTL

\* The invariant of the receipts, of every staged run.
THEOREM Invariant == Spec => []IInv
BY CounterIsSerial, InitIInv, NextIInv, PTL DEF SerialSpec, Serial!Spec

\* No increment that was told "ok" is lost and none is counted twice.
THEOREM IncrementsCounted == Spec => []CountsEveryIncrement
BY Invariant, PTL DEF IInv

\* Two increments of one shard never are told the same value.
THEOREM IncrementsDistinct == Spec => []IncrementsOfAShardDistinct
BY Invariant, PTL DEF IInv

\* total() never answers with a half-way sum, and never wraps.
THEOREM TotalsExact == Spec => TotalIsExact
BY CounterIsSerial, Invariant, StepTotal, PTL DEF SerialSpec, Serial!Spec, TotalIsExact

\* Sharding is invisible: the staged sharded counter implements the naive one.
THEOREM ShardsAreOneCounter == Spec => ActsAsOneCounter
BY CounterIsSerial, Invariant, InitIsNaive, StepIsNaive, PTL
   DEF SerialSpec, Serial!Spec, ActsAsOneCounter, C!NaiveSpec, C!Naive!Spec

\* No increment, and no read, is ever stopped for a footprint out of date: a
\* shard is found from the call alone.
THEOREM NobodyTurnedDown == Spec => []P!NoneRejected
<1>1. P!FixedFootprints
  BY DEF P!FixedFootprints, FootprintOf, C!Footprint
<1> QED BY <1>1, FootprintsSound, SameLedger, P!NobodyTurnedDown
==============================================================================
