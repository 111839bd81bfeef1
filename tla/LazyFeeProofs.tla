----------------------------- MODULE LazyFeeProofs ---------------------------
(***************************************************************************)
(* No fee is lost: swept and accrued fees are the fees of all operations,  *)
(* for any set of accounts, any fee and any integer widths; and what the   *)
(* lazy contract does to its entries the naive one does to its pool.       *)
(***************************************************************************)
EXTENDS MCLazyFee, SumsProofs

P == INSTANCE StagedLedgerProofs

\* The keys are told apart by their first component.
LEMMA KeysDiffer ==
  ASSUME NEW a \in Accounts
  PROVE  /\ OpCount(a) \in Keys /\ AccruedFee(a) \in Keys /\ FeePool \in Keys
         /\ OpCount(a) # FeePool /\ AccruedFee(a) # FeePool
         /\ \A b \in Accounts : /\ OpCount(a) # AccruedFee(b)
                                /\ OpCount(a) = OpCount(b) => a = b
                                /\ AccruedFee(a) = AccruedFee(b) => a = b
BY DEF OpCount, AccruedFee, FeePool, Keys

\* Reads default to zero, so what they give is a natural number in range.
LEMMA ReadsTyped ==
  ASSUME TypeOK
  PROVE  /\ Pool \in Nat
         /\ Fees \in [Accounts -> Nat]
         /\ Ops \in [Accounts -> Nat]
<1> USE FeeAssumption, AbsentAssumption
<1>1. Pool \in Nat
  BY DEF TypeOK, WellTyped, Pool, UnwrapOr, Values, Keys
<1>2. \A a \in Accounts : UnwrapOr(store, AccruedFee(a), 0) \in Nat
  BY KeysDiffer DEF TypeOK, WellTyped, UnwrapOr, Values
<1>3. \A a \in Accounts : UnwrapOr(store, OpCount(a), 0) \in Nat
  BY KeysDiffer DEF TypeOK, WellTyped, UnwrapOr, Values
<1> QED BY <1>1, <1>2, <1>3 DEF Fees, Ops

\* A key holds its own kind of value.
LEMMA ValuesOf ==
  /\ Values(FeePool) = (0..MaxI128) \cup {Absent}
  /\ \A a \in Accounts : /\ Values(OpCount(a)) = (0..MaxU64) \cup {Absent}
                         /\ Values(AccruedFee(a)) = (0..MaxI128) \cup {Absent}
BY KeysDiffer DEF Values

------------------------------------------------------------------------------
LEMMA InitType == Init => TypeOK
BY DEF Init, TypeOK, WellTyped, Values

\* A write of a value of the key's kind keeps every entry of its kind.
LEMMA PutTyped ==
  ASSUME NEW st, WellTyped(st), NEW key \in Keys, NEW v \in Values(key)
  PROVE  /\ WellTyped(Put(st, key, v))
         /\ Put(st, key, v)[key] = v
         /\ \A k \in Keys \ {key} : Put(st, key, v)[k] = st[k]
BY DEF Put, WellTyped

\* What an operation does that goes through.
LEMMA OperateEffect ==
  ASSUME TypeOK, NEW who \in Accounts, NEW signed \in BOOLEAN, Operate(who, signed)
  PROVE  \/ store' = store
         \/ /\ TypeOK' /\ signed
            /\ store'[OpCount(who)] = Ops[who] + 1
            /\ store'[AccruedFee(who)] = Fees[who] + FEE_PER_OP
            /\ \A k \in Keys \ {OpCount(who), AccruedFee(who)} : store'[k] = store[k]
<1> DEFINE count == Ops[who] + 1
           total == Fees[who] + FEE_PER_OP
           mid   == Put(store, OpCount(who), count)
           end   == Put(mid, AccruedFee(who), total)
           goes  == signed /\ count <= MaxU64 /\ total <= MaxI128
<1>1. /\ count = UnwrapOr(store, OpCount(who), 0) + 1
      /\ total = UnwrapOr(store, AccruedFee(who), 0) + FEE_PER_OP
  BY DEF Ops, Fees
<1>2. store' = IF goes THEN end ELSE store
  BY <1>1 DEF Operate, operate, Require, Ok, Trap
<1>3. ASSUME goes PROVE count \in Values(OpCount(who)) /\ total \in Values(AccruedFee(who))
  BY <1>3, ReadsTyped, ValuesOf, FeeAssumption
<1> HIDE DEF count, total
<1>4. ASSUME goes
      PROVE  /\ WellTyped(end)
             /\ end[AccruedFee(who)] = total /\ end[OpCount(who)] = count
             /\ \A k \in Keys \ {OpCount(who), AccruedFee(who)} : end[k] = store[k]
  <2>1. /\ WellTyped(mid)
        /\ mid[OpCount(who)] = count
        /\ \A k \in Keys \ {OpCount(who)} : mid[k] = store[k]
    BY <1>3, <1>4, PutTyped, KeysDiffer DEF TypeOK
  <2> HIDE DEF mid
  <2> QED BY <1>3, <1>4, <2>1, PutTyped, KeysDiffer
<1> HIDE DEF end
<1>5. CASE goes
  BY <1>2, <1>4, <1>5 DEF TypeOK, count, total
<1>6. CASE ~goes
  BY <1>2, <1>6
<1> QED BY <1>5, <1>6

\* What a sweep does that goes through.
LEMMA SweepEffect ==
  ASSUME TypeOK, NEW who \in Accounts, Sweep(who)
  PROVE  \/ store' = store
         \/ /\ TypeOK'
            /\ store'[AccruedFee(who)] = 0
            /\ store'[FeePool] = Pool + Fees[who]
            /\ \A k \in Keys \ {AccruedFee(who), FeePool} : store'[k] = store[k]
<1> DEFINE new_pool == Pool + Fees[who]
           mid   == Put(store, AccruedFee(who), 0)
           end   == Put(mid, FeePool, new_pool)
<1>1. new_pool = UnwrapOr(store, FeePool, 0) + UnwrapOr(store, AccruedFee(who), 0)
  BY DEF Pool, Fees
<1>2. store' = IF new_pool <= MaxI128 THEN end ELSE store
  BY <1>1 DEF Sweep, sweep, Require, Ok, Trap
<1>3. 0 \in Values(AccruedFee(who))
  BY ValuesOf, FeeAssumption
<1>4. ASSUME new_pool <= MaxI128 PROVE new_pool \in Values(FeePool)
  BY <1>4, ReadsTyped, ValuesOf, FeeAssumption
<1> HIDE DEF new_pool
<1>5. ASSUME new_pool <= MaxI128
      PROVE  /\ WellTyped(end)
             /\ end[AccruedFee(who)] = 0 /\ end[FeePool] = new_pool
             /\ \A k \in Keys \ {AccruedFee(who), FeePool} : end[k] = store[k]
  <2>1. /\ WellTyped(mid)
        /\ mid[AccruedFee(who)] = 0
        /\ \A k \in Keys \ {AccruedFee(who)} : mid[k] = store[k]
    BY <1>3, PutTyped, KeysDiffer DEF TypeOK
  <2> HIDE DEF mid
  <2> QED BY <1>4, <1>5, <2>1, PutTyped, KeysDiffer
<1> HIDE DEF end
<1>6. CASE new_pool <= MaxI128
  BY <1>2, <1>5, <1>6 DEF TypeOK, new_pool
<1>7. CASE ~(new_pool <= MaxI128)
  BY <1>2, <1>7
<1> QED BY <1>6, <1>7
------------------------------------------------------------------------------
\* The invariant: Conservation needs TypeOK, for sums are of natural numbers.
IInv == TypeOK /\ Conservation

\* What an operation that goes through does to pool, fees and counts.
LEMMA OperateReads ==
  ASSUME TypeOK, NEW who \in Accounts, NEW signed \in BOOLEAN,
         Operate(who, signed), store' # store
  PROVE  /\ Pool' = Pool
         /\ Fees' = [Fees EXCEPT ![who] = @ + FEE_PER_OP]
         /\ Ops' = [Ops EXCEPT ![who] = @ + 1]
<1> USE FeeAssumption, AbsentAssumption
<1>1. /\ store'[OpCount(who)] = Ops[who] + 1
      /\ store'[AccruedFee(who)] = Fees[who] + FEE_PER_OP
      /\ \A k \in Keys \ {OpCount(who), AccruedFee(who)} : store'[k] = store[k]
  BY OperateEffect
<1>2. Fees[who] + FEE_PER_OP # Absent /\ Ops[who] + 1 # Absent
  BY ReadsTyped
<1>3. Pool' = Pool
  BY <1>1, KeysDiffer DEF Pool, UnwrapOr
<1>4. ASSUME NEW a \in Accounts
      PROVE  /\ Fees'[a] = IF a = who THEN Fees[who] + FEE_PER_OP ELSE Fees[a]
             /\ Ops'[a] = IF a = who THEN Ops[who] + 1 ELSE Ops[a]
  <2>1. CASE a = who
    BY <1>1, <1>2, <2>1 DEF Fees, Ops, UnwrapOr
  <2>2. CASE a # who
    BY <1>1, <2>2, KeysDiffer DEF Fees, Ops, UnwrapOr
  <2> QED BY <2>1, <2>2
<1>5. /\ Fees' = [a \in Accounts |-> Fees'[a]] /\ Ops' = [a \in Accounts |-> Ops'[a]]
      /\ Fees = [a \in Accounts |-> Fees[a]] /\ Ops = [a \in Accounts |-> Ops[a]]
  BY DEF Fees, Ops
<1> QED BY <1>3, <1>4, <1>5

\* What a sweep that goes through does to them.
LEMMA SweepReads ==
  ASSUME TypeOK, NEW who \in Accounts, Sweep(who), store' # store
  PROVE  /\ Pool' = Pool + Fees[who]
         /\ Fees' = [Fees EXCEPT ![who] = 0]
         /\ Ops' = Ops
<1> USE FeeAssumption, AbsentAssumption
<1>1. /\ store'[AccruedFee(who)] = 0
      /\ store'[FeePool] = Pool + Fees[who]
      /\ \A k \in Keys \ {AccruedFee(who), FeePool} : store'[k] = store[k]
  BY SweepEffect
<1>2. Pool + Fees[who] # Absent /\ 0 # Absent
  BY ReadsTyped
<1>3. Pool' = Pool + Fees[who]
  BY <1>1, <1>2 DEF Pool, UnwrapOr
<1>4. ASSUME NEW a \in Accounts
      PROVE  /\ Fees'[a] = IF a = who THEN 0 ELSE Fees[a]
             /\ Ops'[a] = Ops[a]
  <2>1. CASE a = who
    BY <1>1, <1>2, <2>1, KeysDiffer DEF Fees, Ops, UnwrapOr
  <2>2. CASE a # who
    BY <1>1, <2>2, KeysDiffer DEF Fees, Ops, UnwrapOr
  <2> QED BY <2>1, <2>2
<1>5. /\ Fees' = [a \in Accounts |-> Fees'[a]] /\ Ops' = [a \in Accounts |-> Ops'[a]]
      /\ Fees = [a \in Accounts |-> Fees[a]] /\ Ops = [a \in Accounts |-> Ops[a]]
  BY DEF Fees, Ops
<1> QED BY <1>3, <1>4, <1>5

\* An operation adds one fee to the fees, and one to the count.
LEMMA OperateSums ==
  ASSUME TypeOK, NEW who \in Accounts, NEW signed \in BOOLEAN,
         Operate(who, signed), store' # store
  PROVE  /\ SumOver(Fees, Accounts) \in Nat /\ SumOver(Ops, Accounts) \in Nat
         /\ SumOver(Fees, Accounts)' = SumOver(Fees, Accounts) + FEE_PER_OP
         /\ SumOver(Ops, Accounts)' = SumOver(Ops, Accounts) + 1
<1> DEFINE fees == Fees'
           ops  == Ops'
<1>1. /\ fees = [Fees EXCEPT ![who] = @ + FEE_PER_OP]
      /\ ops = [Ops EXCEPT ![who] = @ + 1]
      /\ SumOver(Fees, Accounts)' = SumOver(fees, Accounts)
      /\ SumOver(Ops, Accounts)' = SumOver(ops, Accounts)
  BY OperateReads DEF SumOver, Tally
<1> HIDE DEF fees, ops
<1>2. Fees \in [Accounts -> Nat] /\ Ops \in [Accounts -> Nat] /\ FEE_PER_OP \in Nat
  BY ReadsTyped, FeeAssumption
<1>3. /\ fees \in [Accounts -> Nat] /\ fees[who] = Fees[who] + FEE_PER_OP
      /\ ops \in [Accounts -> Nat] /\ ops[who] = Ops[who] + 1
      /\ \A x \in Accounts \ {who} : fees[x] = Fees[x] /\ ops[x] = Ops[x]
  BY <1>1, <1>2
<1>4. /\ SumOver(Fees, Accounts) \in Nat /\ SumOver(fees, Accounts) \in Nat
      /\ SumOver(fees, Accounts) + Fees[who] = SumOver(Fees, Accounts) + fees[who]
  BY <1>2, <1>3, FeeAssumption, SumOverUpdate
<1>5. /\ SumOver(Ops, Accounts) \in Nat /\ SumOver(ops, Accounts) \in Nat
      /\ SumOver(ops, Accounts) + Ops[who] = SumOver(Ops, Accounts) + ops[who]
  BY <1>2, <1>3, FeeAssumption, SumOverUpdate
<1>6. Fees[who] \in Nat /\ Ops[who] \in Nat
  BY <1>2
<1>7. /\ SumOver(fees, Accounts) = SumOver(Fees, Accounts) + FEE_PER_OP
      /\ SumOver(ops, Accounts) = SumOver(Ops, Accounts) + 1
  BY <1>2, <1>3, <1>4, <1>5, <1>6
<1> QED BY <1>1, <1>4, <1>5, <1>7

\* A sweep moves the fees it takes out of the sum into the pool.
LEMMA SweepSums ==
  ASSUME TypeOK, NEW who \in Accounts, Sweep(who), store' # store
  PROVE  /\ Pool' + SumOver(Fees, Accounts)' = Pool + SumOver(Fees, Accounts)
         /\ SumOver(Ops, Accounts)' = SumOver(Ops, Accounts)
<1> DEFINE fees == Fees'
<1>1. /\ fees = [Fees EXCEPT ![who] = 0]
      /\ Pool' = Pool + Fees[who]
      /\ SumOver(Fees, Accounts)' = SumOver(fees, Accounts)
      /\ SumOver(Ops, Accounts)' = SumOver(Ops, Accounts)
  BY SweepReads DEF SumOver, Tally
<1> HIDE DEF fees
<1>2. Fees \in [Accounts -> Nat] /\ Pool \in Nat
  BY ReadsTyped
<1>3. /\ fees \in [Accounts -> Nat] /\ fees[who] = 0
      /\ \A x \in Accounts \ {who} : fees[x] = Fees[x]
  BY <1>1, <1>2
<1>4. /\ SumOver(Fees, Accounts) \in Nat /\ SumOver(fees, Accounts) \in Nat
      /\ SumOver(fees, Accounts) + Fees[who] = SumOver(Fees, Accounts) + fees[who]
  BY <1>2, <1>3, FeeAssumption, SumOverUpdate
<1>5. Fees[who] \in Nat
  BY <1>2
<1>6. SumOver(fees, Accounts) + Fees[who] = SumOver(Fees, Accounts)
  BY <1>3, <1>4
<1> QED BY <1>1, <1>2, <1>4, <1>5, <1>6

------------------------------------------------------------------------------
LEMMA InitIInv == Init => IInv
<1> SUFFICES ASSUME Init PROVE IInv
  OBVIOUS
<1>1. Pool = 0 /\ \A a \in Accounts : Fees[a] = 0 /\ Ops[a] = 0
  BY KeysDiffer DEF Init, Pool, Fees, Ops, UnwrapOr, Keys
<1>2. SumOver(Fees, Accounts) = 0 /\ SumOver(Ops, Accounts) = 0
  BY <1>1, SumOverZero
<1> QED BY <1>1, <1>2, InitType, FeeAssumption DEF IInv, Conservation

LEMMA NextIInv == IInv /\ [Next]_store => IInv'
<1> SUFFICES ASSUME IInv, [Next]_store PROVE IInv'
  OBVIOUS
<1>1. ASSUME NEW who \in Accounts, NEW signed \in BOOLEAN, Operate(who, signed), store' # store
      PROVE  IInv'
  <2>1. TypeOK'
    BY <1>1, OperateEffect DEF IInv
  <2> DEFINE s == SumOver(Fees, Accounts)
             n == SumOver(Ops, Accounts)
  <2>2. Pool' = Pool /\ s \in Nat /\ n \in Nat /\ s' = s + FEE_PER_OP /\ n' = n + 1
    BY <1>1, OperateReads, OperateSums DEF IInv
  <2>3. Pool \in Nat /\ FEE_PER_OP \in Nat /\ Pool + s = FEE_PER_OP * n
    BY ReadsTyped, FeeAssumption DEF IInv, Conservation
  <2>4. FEE_PER_OP * (n + 1) = FEE_PER_OP * n + FEE_PER_OP
    BY <2>2, <2>3
  <2> HIDE DEF s, n
  <2>5. Pool' + s' = FEE_PER_OP * n'
    BY <2>2, <2>3, <2>4
  <2> QED BY <2>1, <2>5 DEF IInv, Conservation, s, n
<1>2. ASSUME NEW who \in Accounts, Sweep(who), store' # store
      PROVE  IInv'
  <2>1. TypeOK'
    BY <1>2, SweepEffect DEF IInv
  <2>2. Conservation'
    BY <1>2, SweepSums DEF IInv, Conservation
  <2> QED BY <2>1, <2>2 DEF IInv
<1>3. CASE store' = store
  BY <1>3 DEF IInv, TypeOK, WellTyped, Conservation, Pool, Fees, Ops, SumOver, Tally
<1> QED BY <1>1, <1>2, <1>3 DEF Next

\* Operation counts stay in u64 and fees in i128, never negative.
THEOREM TypeCorrect == Spec => []TypeOK
BY InitIInv, NextIInv, PTL DEF Spec, IInv

\* Swept plus accrued fees are the fees of all the operations counted.
THEOREM FeesConserved == Spec => []Conservation
BY InitIInv, NextIInv, PTL DEF Spec, IInv
------------------------------------------------------------------------------
\* What the naive contract would read from the eager store.
LEMMA EagerReads ==
  ASSUME IInv
  PROVE  /\ UnwrapOr(EagerStore, FeePool, 0) = Pool + SumOver(Fees, Accounts)
         /\ \A a \in Accounts : UnwrapOr(EagerStore, OpCount(a), 0) = Ops[a]
<1> USE FeeAssumption, AbsentAssumption
<1>1. \A a \in Accounts : EagerStore[OpCount(a)] = store[OpCount(a)]
  BY KeysDiffer DEF EagerStore
<1>2. UnwrapOr(EagerStore, FeePool, 0) = Pool + SumOver(Fees, Accounts)
  <2>1. EagerStore[FeePool] = IF \A a \in Accounts : store[OpCount(a)] = Absent THEN Absent
                              ELSE Pool + SumOver(Fees, Accounts)
    BY DEF EagerStore
  <2>2. Pool + SumOver(Fees, Accounts) # Absent
    <3>1. SumOver(Fees, Accounts) \in Nat
      <4>1. Accounts \in SUBSET Accounts
        OBVIOUS
      <4> QED BY <4>1, ReadsTyped, SumOverType DEF IInv
    <3> QED BY <3>1, ReadsTyped DEF IInv
  <2>3. CASE \A a \in Accounts : store[OpCount(a)] = Absent
    <3>1. \A a \in Accounts : Ops[a] = 0
      BY <2>3 DEF Ops, UnwrapOr
    <3>2. SumOver(Ops, Accounts) = 0
      BY <3>1, SumOverZero
    <3>3. Pool + SumOver(Fees, Accounts) = 0
      BY <3>2 DEF IInv, Conservation
    <3> QED BY <2>1, <2>3, <3>3 DEF UnwrapOr
  <2>4. CASE ~ \A a \in Accounts : store[OpCount(a)] = Absent
    BY <2>1, <2>2, <2>4 DEF UnwrapOr
  <2> QED BY <2>3, <2>4
<1> QED BY <1>1, <1>2 DEF UnwrapOr, Ops

\* The naive pool has room for the fee: counts fit in u64, so all fees
\* together fit in EagerMax.
LEMMA EagerFits ==
  ASSUME IInv, NEW who \in Accounts, NEW signed \in BOOLEAN,
         Operate(who, signed), store' # store
  PROVE  /\ Ops[who] + 1 <= MaxU64
         /\ Pool + SumOver(Fees, Accounts) + FEE_PER_OP <= EagerMax
<1> USE FeeAssumption, AbsentAssumption
<1> DEFINE ops == Ops'
           n   == SumOver(Ops, Accounts)
           m   == SumOver(ops, Accounts)
           size == Cardinality(Accounts)
<1>1. TypeOK' /\ store'[OpCount(who)] = Ops[who] + 1
  BY OperateEffect DEF IInv
<1>2. \A a \in Accounts : ops[a] \in 0..MaxU64
  <2> SUFFICES ASSUME NEW a \in Accounts PROVE ops[a] \in 0..MaxU64
    OBVIOUS
  <2>1. store'[OpCount(a)] \in (0..MaxU64) \cup {Absent}
    BY <1>1, ValuesOf, KeysDiffer DEF TypeOK, WellTyped
  <2> QED BY <2>1 DEF Ops, UnwrapOr
<1>3. ops = [a \in Accounts |-> ops[a]]
  BY DEF Ops
<1>4. ops = [Ops EXCEPT ![who] = @ + 1] /\ SumOver(Ops, Accounts)' = m
  BY OperateReads DEF IInv, SumOver, Tally
<1>5. n \in Nat /\ m = n + 1
  BY <1>4, OperateSums DEF IInv
<1> HIDE DEF ops
<1>6. Ops \in [Accounts -> Nat] /\ Pool \in Nat
  BY ReadsTyped DEF IInv
<1>7. Ops[who] + 1 <= MaxU64
  BY <1>2, <1>4, <1>6
<1>8. m <= MaxU64 * size
  BY <1>2, <1>3, SumOverBound
<1>9. size \in Nat
  BY FS_CardinalityType
<1> HIDE DEF n, m, size
<1>10. FEE_PER_OP * m <= FEE_PER_OP * MaxU64 * size
  <2>1. \A a, b, c \in Nat : a <= b => c * a <= c * b
    OBVIOUS
  <2>2. m \in Nat /\ MaxU64 * size \in Nat
    BY <1>5, <1>9
  <2>3. FEE_PER_OP * m <= FEE_PER_OP * (MaxU64 * size)
    BY <1>8, <2>1, <2>2
  <2> QED BY <2>3, <1>9
<1>11. FEE_PER_OP * m = FEE_PER_OP * n + FEE_PER_OP
  BY <1>5
<1>12. Pool + SumOver(Fees, Accounts) = FEE_PER_OP * n
  BY DEF IInv, Conservation, n
<1> QED BY <1>7, <1>10, <1>11, <1>12 DEF EagerMax, size

\* An operation that goes through is an operation of the naive contract.
LEMMA OperateIsNaive ==
  ASSUME IInv, NEW who \in Accounts, NEW signed \in BOOLEAN,
         Operate(who, signed), store' # store
  PROVE  Naive!Operate(who, signed)
<1> USE FeeAssumption, AbsentAssumption
<1> DEFINE count == Ops[who] + 1
           pool  == Pool + SumOver(Fees, Accounts) + FEE_PER_OP
<1>1. /\ signed /\ store'[OpCount(who)] = count
      /\ \A k \in Keys \ {OpCount(who), AccruedFee(who)} : store'[k] = store[k]
  BY OperateEffect DEF IInv
<1>2. count # Absent
  BY ReadsTyped DEF IInv
<1>3. Pool' + SumOver(Fees, Accounts)' = pool
  <2>1. Pool \in Nat /\ Pool' = Pool
    BY OperateReads, ReadsTyped DEF IInv
  <2>2. /\ SumOver(Fees, Accounts) \in Nat
        /\ SumOver(Fees, Accounts)' = SumOver(Fees, Accounts) + FEE_PER_OP
    BY OperateSums DEF IInv
  <2> QED BY <2>1, <2>2
<1>4. EagerStore' = [k \in {FeePool} \cup {OpCount(a) : a \in Accounts} |->
                       IF k # FeePool THEN store'[k] ELSE pool]
  BY <1>1, <1>2, <1>3 DEF EagerStore
<1>5. EagerStore' = [EagerStore EXCEPT ![OpCount(who)] = count, ![FeePool] = pool]
  <2>1. \A a \in Accounts : store'[OpCount(a)] = IF a = who THEN count ELSE store[OpCount(a)]
    BY <1>1, KeysDiffer
  <2> HIDE DEF count, pool
  <2> DEFINE eager == [EagerStore EXCEPT ![OpCount(who)] = count, ![FeePool] = pool]
             keys  == {FeePool} \cup {OpCount(a) : a \in Accounts}
  <2>2. EagerStore = [k \in keys |-> EagerStore[k]]
    BY DEF EagerStore
  <2>3. eager = [k \in keys |-> IF k = FeePool THEN pool
                                 ELSE IF k = OpCount(who) THEN count ELSE EagerStore[k]]
    BY <2>2, KeysDiffer
  <2>4. ASSUME NEW k \in keys PROVE EagerStore'[k] = eager[k]
    <3>1. CASE k = FeePool
      BY <1>4, <2>3, <3>1
    <3>2. ASSUME NEW a \in Accounts, k = OpCount(a) PROVE EagerStore'[k] = eager[k]
      <4>1. EagerStore'[k] = IF a = who THEN count ELSE store[k]
        BY <1>4, <2>1, <3>2, KeysDiffer
      <4>2. EagerStore[k] = store[k]
        BY <3>2, KeysDiffer DEF EagerStore
      <4> QED BY <2>3, <3>2, <4>1, <4>2, KeysDiffer
    <3> QED BY <3>1, <3>2
  <2>5. EagerStore' = [k \in keys |-> EagerStore'[k]]
    BY <1>4
  <2> QED BY <2>3, <2>4, <2>5
<1>6. count <= MaxU64 /\ pool <= EagerMax
  BY EagerFits
<1>7. /\ UnwrapOr(EagerStore, OpCount(who), 0) + 1 = count
      /\ UnwrapOr(EagerStore, FeePool, 0) + FEE_PER_OP = pool
  BY EagerReads
<1> HIDE DEF count, pool
<1>8. Naive!operate(who, signed, EagerStore).store =
        Naive!Put(Naive!Put(EagerStore, OpCount(who), count), FeePool, pool)
  BY <1>1, <1>6, <1>7
     DEF Naive!operate, Naive!Require, Naive!Ok, Naive!UnwrapOr, UnwrapOr,
         Naive!OpCount, OpCount, Naive!FeePool, FeePool
<1> QED BY <1>5, <1>8 DEF Naive!Operate, Naive!Put

\* A sweep does not show.
LEMMA SweepIsInvisible ==
  ASSUME IInv, NEW who \in Accounts, Sweep(who), store' # store
  PROVE  EagerStore' = EagerStore
<1>1. \A k \in Keys \ {AccruedFee(who), FeePool} : store'[k] = store[k]
  BY SweepEffect DEF IInv
<1>2. \A a \in Accounts : store'[OpCount(a)] = store[OpCount(a)]
  BY <1>1, KeysDiffer
<1>3. Pool' + SumOver(Fees, Accounts)' = Pool + SumOver(Fees, Accounts)
  BY SweepSums DEF IInv
<1> QED BY <1>2, <1>3 DEF EagerStore

LEMMA StepIsNaive == IInv /\ [Next]_store => [Naive!Next]_EagerStore
<1> SUFFICES ASSUME IInv, [Next]_store PROVE [Naive!Next]_EagerStore
  OBVIOUS
<1>1. CASE store' = store
  BY <1>1 DEF EagerStore, Pool, Fees, SumOver, Tally
<1>2. ASSUME NEW who \in Accounts, NEW signed \in BOOLEAN, Operate(who, signed), store' # store
      PROVE  Naive!Next
  BY <1>2, OperateIsNaive DEF Naive!Next
<1>3. ASSUME NEW who \in Accounts, Sweep(who), store' # store
      PROVE  EagerStore' = EagerStore
  BY <1>3, SweepIsInvisible
<1> QED BY <1>1, <1>2, <1>3 DEF Next

\* Deferring fees is invisible: the lazy contract implements the naive one,
\* with every sweep a stuttering step.
THEOREM LazyIsNaive == Spec => NaiveSpec
<1>1. Init => Naive!Init
  BY KeysDiffer DEF Init, EagerStore, Naive!Init, Naive!Keys, Naive!FeePool, Naive!OpCount,
                    FeePool, OpCount, Keys
<1> QED BY <1>1, InitIInv, NextIInv, StepIsNaive, PTL DEF Spec, NaiveSpec, Naive!Spec

------------------------------------------------------------------------------
\* The stores of the ledger are the well-typed ones.
LEMMA StoresAre == \A st : st \in P!Stores <=> WellTyped(st)
<1>1. ASSUME NEW st \in P!Stores PROVE WellTyped(st)
  BY DEF P!Stores, LedgerKeys, LedgerValues, WellTyped
<1>2. ASSUME NEW st, WellTyped(st) PROVE st \in P!Stores
  <2>1. st = [k \in Keys |-> st[k]] /\ \A k \in Keys : st[k] \in Values(k)
    BY <1>2 DEF WellTyped
  <2>2. \A k \in Keys : st[k] \in UNION {Values(j) : j \in Keys}
    BY <2>1
  <2>3. st \in [Keys -> UNION {Values(j) : j \in Keys}]
    BY <2>1, <2>2
  <2> QED BY <2>1, <2>3 DEF P!Stores, LedgerKeys, LedgerValues
<1> QED BY <1>1, <1>2

\* Two entries written one after the other.
LEMMA PutTwice ==
  ASSUME NEW st, WellTyped(st), NEW j \in Keys, NEW k \in Keys, j # k,
         NEW x \in Values(j), NEW y \in Values(k)
  PROVE  /\ WellTyped(Put(Put(st, j, x), k, y))
         /\ Put(Put(st, j, x), k, y)[j] = x
         /\ Put(Put(st, j, x), k, y)[k] = y
         /\ \A i \in Keys \ {j, k} : Put(Put(st, j, x), k, y)[i] = st[i]
<1> DEFINE mid == Put(st, j, x)
<1>1. WellTyped(mid) /\ mid[j] = x /\ \A i \in Keys \ {j} : mid[i] = st[i]
  BY PutTyped
<1> HIDE DEF mid
<1>2. /\ WellTyped(Put(mid, k, y)) /\ Put(mid, k, y)[k] = y
      /\ \A i \in Keys \ {k} : Put(mid, k, y)[i] = mid[i]
  BY <1>1, PutTyped
<1>3. Put(mid, k, y)[j] = x
  BY <1>1, <1>2
<1>4. \A i \in Keys \ {j, k} : Put(mid, k, y)[i] = st[i]
  BY <1>1, <1>2
<1> QED BY <1>2, <1>3, <1>4 DEF mid

\* A call that writes two entries or none, depending on what it reads there,
\* and says so, has the two as its footprint.
LEMMA SoundWritingTwo ==
  ASSUME NEW c, NEW j \in Keys, NEW k \in Keys, j # k,
         NEW f, f = [reads |-> {}, writes |-> {j, k}], NEW st \in P!Stores,
         NEW goes, NEW x, NEW y, NEW told,
         goes => x \in Values(j) /\ y \in Values(k),
         Run(c, P!Visible(st, f)) = IF goes THEN Ok(Put(Put(P!Visible(st, f), j, x), k, y), told)
                                    ELSE Trap(P!Visible(st, f)),
         Run(c, st) = IF goes THEN Ok(Put(Put(st, j, x), k, y), told) ELSE Trap(st)
  PROVE  P!SoundOn(c, f, st)
<1> DEFINE v == P!Visible(st, f)
<1>1. f \in P!Footprints /\ f.writes = {j, k}
  BY DEF P!Footprints, LedgerKeys
<1>2. WellTyped(st)
  BY StoresAre
<1>3. v[j] = st[j] /\ v[k] = st[k] /\ WellTyped(v)
  <2>1. \A i \in Keys : Absent \in Values(i)
    BY DEF Values
  <2>2. v = [i \in Keys |-> IF i \in {j, k} THEN st[i] ELSE Absent]
    BY DEF P!Visible, P!Touched, LedgerKeys
  <2> HIDE DEF v
  <2> QED BY <1>2, <2>1, <2>2 DEF WellTyped
<1> HIDE DEF v
<1>4. /\ WellTyped(Run(c, v).store) /\ WellTyped(Run(c, st).store)
      /\ Run(c, v).status = Run(c, st).status
      /\ Run(c, v).value = Run(c, st).value
      /\ Run(c, v).store[j] = Run(c, st).store[j]
      /\ Run(c, v).store[k] = Run(c, st).store[k]
      /\ \A i \in Keys \ {j, k} : Run(c, st).store[i] = st[i]
  <2>1. CASE goes
    <3>1. /\ Run(c, v) = Ok(Put(Put(v, j, x), k, y), told)
          /\ Run(c, st) = Ok(Put(Put(st, j, x), k, y), told)
      BY <2>1 DEF v
    <3>2. /\ Run(c, v).store = Put(Put(v, j, x), k, y) /\ Run(c, st).store = Put(Put(st, j, x), k, y)
          /\ Run(c, v).status = Run(c, st).status /\ Run(c, v).value = Run(c, st).value
      BY <3>1 DEF Ok
    <3> QED BY <1>2, <1>3, <2>1, <3>2, PutTwice
  <2>2. CASE ~goes
    <3>1. Run(c, v) = Trap(v) /\ Run(c, st) = Trap(st)
      BY <2>2 DEF v
    <3> QED BY <1>2, <1>3, <3>1 DEF Trap
  <2> QED BY <2>1, <2>2
<1>5. /\ \A i \in f.writes : Run(c, v).store[i] = Run(c, st).store[i]
      /\ \A i \in LedgerKeys \ f.writes : Run(c, st).store[i] = st[i]
  BY <1>1, <1>4 DEF LedgerKeys
<1>6. Run(c, v).store \in P!Stores /\ Run(c, st).store \in P!Stores
  BY <1>4, StoresAre
<1> QED BY <1>1, <1>4, <1>5, <1>6, P!SoundWhen DEF v

\* What reading a typed store gives.
LEMMA ReadsOf ==
  ASSUME NEW st, WellTyped(st)
  PROVE  /\ UnwrapOr(st, FeePool, 0) \in 0..MaxI128
         /\ \A a \in Accounts : /\ UnwrapOr(st, OpCount(a), 0) \in 0..MaxU64
                                /\ UnwrapOr(st, AccruedFee(a), 0) \in 0..MaxI128
<1> USE FeeAssumption, AbsentAssumption
<1>1. FeePool \in Keys
  BY DEF Keys
<1> QED BY <1>1, KeysDiffer, ValuesOf DEF WellTyped, UnwrapOr

\* operate touches its signer's two entries, sweep the account's accrual and
\* the pool, the readers the one entry they name.
LEMMA SoundCall ==
  ASSUME NEW c \in Calls, NEW s \in P!Stores, NEW st \in P!Stores
  PROVE  P!SoundOn(c, FootprintOf(c, s), st)
<1> DEFINE f == FootprintOf(c, s)
           v == P!Visible(st, f)
<1>1. WellTyped(st) /\ FeePool \in Keys
  BY StoresAre DEF Keys
<1>2. ASSUME NEW k \in Keys, k \in P!Touched(f) PROVE UnwrapOr(v, k, 0) = UnwrapOr(st, k, 0)
  BY <1>2 DEF P!Visible, LedgerKeys, UnwrapOr
<1>3. CASE c.fn = "operate"
  <2> DEFINE count == UnwrapOr(st, OpCount(c.who), 0) + 1
             total == UnwrapOr(st, AccruedFee(c.who), 0) + FEE_PER_OP
             goes  == c.signed /\ count <= MaxU64 /\ total <= MaxI128
  <2>1. c.who \in Accounts /\ f = [reads |-> {}, writes |-> {OpCount(c.who), AccruedFee(c.who)}]
    BY <1>3 DEF Calls, FootprintOf, Footprint
  <2>2. /\ OpCount(c.who) \in Keys /\ AccruedFee(c.who) \in Keys
        /\ OpCount(c.who) # AccruedFee(c.who)
    BY <2>1, KeysDiffer
  <2>3. /\ UnwrapOr(v, OpCount(c.who), 0) = UnwrapOr(st, OpCount(c.who), 0)
        /\ UnwrapOr(v, AccruedFee(c.who), 0) = UnwrapOr(st, AccruedFee(c.who), 0)
    BY <1>2, <2>1, <2>2 DEF P!Touched
  <2>4. goes => count \in Values(OpCount(c.who)) /\ total \in Values(AccruedFee(c.who))
    BY <1>1, <2>1, ReadsOf, ValuesOf, FeeAssumption
  <2> HIDE DEF f, v
  <2>5. ASSUME NEW w, \/ w = st \/ w = v
        PROVE  Run(c, w) = IF goes THEN Ok(Put(Put(w, OpCount(c.who), count), AccruedFee(c.who), total), Absent)
                           ELSE Trap(w)
    BY <1>3, <2>3, <2>5 DEF Run, Invoke, operate, Require
  <2> HIDE DEF count, total, goes
  <2> QED BY <2>1, <2>2, <2>4, <2>5, SoundWritingTwo DEF f, v
<1>4. CASE c.fn = "sweep"
  <2> DEFINE new_pool == UnwrapOr(st, FeePool, 0) + UnwrapOr(st, AccruedFee(c.who), 0)
             goes  == new_pool <= MaxI128
  <2>1. c.who \in Accounts /\ f = [reads |-> {}, writes |-> {AccruedFee(c.who), FeePool}]
    BY <1>4 DEF Calls, FootprintOf, Footprint
  <2>2. AccruedFee(c.who) \in Keys /\ AccruedFee(c.who) # FeePool
    BY <2>1, KeysDiffer
  <2>3. /\ UnwrapOr(v, FeePool, 0) = UnwrapOr(st, FeePool, 0)
        /\ UnwrapOr(v, AccruedFee(c.who), 0) = UnwrapOr(st, AccruedFee(c.who), 0)
    BY <1>1, <1>2, <2>1, <2>2 DEF P!Touched
  <2>4. goes => 0 \in Values(AccruedFee(c.who)) /\ new_pool \in Values(FeePool)
    BY <1>1, <2>1, ReadsOf, ValuesOf, FeeAssumption
  <2> HIDE DEF f, v
  <2>5. ASSUME NEW w, \/ w = st \/ w = v
        PROVE  Run(c, w) = IF goes THEN Ok(Put(Put(w, AccruedFee(c.who), 0), FeePool, new_pool), new_pool)
                           ELSE Trap(w)
    BY <1>4, <2>3, <2>5 DEF Run, Invoke, sweep, Require
  <2> HIDE DEF new_pool, goes
  <2> QED BY <1>1, <2>1, <2>2, <2>4, <2>5, SoundWritingTwo DEF f, v
<1>5. ASSUME NEW k \in Keys, f = [reads |-> {k}, writes |-> {}],
             \A w : Run(c, w) = Ok(w, UnwrapOr(w, k, 0))
      PROVE  P!SoundOn(c, f, st)
  <2>1. f \in P!Footprints /\ f.writes = {}
    BY <1>5 DEF P!Footprints, LedgerKeys
  <2>2. UnwrapOr(v, k, 0) = UnwrapOr(st, k, 0)
    BY <1>2, <1>5 DEF P!Touched
  <2>3. v \in P!Stores
    <3>1. \A i \in Keys : Absent \in Values(i)
      BY DEF Values
    <3>2. v = [i \in Keys |-> IF i \in P!Touched(f) THEN st[i] ELSE Absent]
      BY DEF P!Visible, LedgerKeys
    <3> HIDE DEF v, f
    <3>3. WellTyped(v)
      BY <1>1, <3>1, <3>2 DEF WellTyped
    <3> QED BY <3>3, StoresAre
  <2> HIDE DEF v, f
  <2>4. /\ Run(c, v).store = v /\ Run(c, st).store = st
        /\ Run(c, v).status = Run(c, st).status /\ Run(c, v).value = Run(c, st).value
    BY <1>5, <2>2 DEF Ok
  <2> QED BY <2>1, <2>3, <2>4, P!SoundWhen DEF v
<1>6. CASE c.fn = "accrued"
  <2>1. c.who \in Accounts /\ f = [reads |-> {AccruedFee(c.who)}, writes |-> {}]
    BY <1>6 DEF Calls, FootprintOf, Footprint
  <2>2. \A w : Run(c, w) = Ok(w, UnwrapOr(w, AccruedFee(c.who), 0))
    BY <1>6 DEF Run, Invoke, accrued
  <2> QED BY <1>5, <2>1, <2>2, KeysDiffer
<1>7. CASE c.fn = "op_count"
  <2>1. c.who \in Accounts /\ f = [reads |-> {OpCount(c.who)}, writes |-> {}]
    BY <1>7 DEF Calls, FootprintOf, Footprint
  <2>2. \A w : Run(c, w) = Ok(w, UnwrapOr(w, OpCount(c.who), 0))
    BY <1>7 DEF Run, Invoke, op_count
  <2> QED BY <1>5, <2>1, <2>2, KeysDiffer
<1>8. CASE c.fn = "fee_pool"
  <2>1. f = [reads |-> {FeePool}, writes |-> {}]
    BY <1>8 DEF FootprintOf, Footprint
  <2>2. \A w : Run(c, w) = Ok(w, UnwrapOr(w, FeePool, 0))
    BY <1>8 DEF Run, Invoke, fee_pool
  <2> QED BY <1>1, <1>5, <2>1, <2>2
<1> QED BY <1>3, <1>4, <1>6, <1>7, <1>8 DEF Calls

LEMMA FootprintsSound == P!LedgerAssumption
<1>1. \A k \in LedgerKeys : Absent \in LedgerValues(k)
  BY DEF LedgerValues, Values
<1> QED BY <1>1, SoundCall DEF P!LedgerAssumption, P!FootprintSound, LedgerCalls

------------------------------------------------------------------------------
\* The module's ledger is the one StagedLedgerProofs is about.
LEMMA SameLedger == LedgerSpec => P!Spec
<1>1. L!Init => P!Init
  BY DEF L!Init, P!Init, L!EmptyStore, P!EmptyStore, L!NoKeys, P!NoKeys
<1>2. [L!Next]_(L!vars) => [P!Next]_(P!vars)
  BY Zenon DEF L!vars, P!vars, L!Next, P!Next, L!Submit, P!Submit, L!Resubmit, P!Resubmit,
     L!OpenStage, P!OpenStage, L!Load, P!Load, L!Commit, P!Commit, L!Reject, P!Reject,
     L!InStage, P!InStage, L!Conflict, P!Conflict, L!Touched, P!Touched, L!Visible, P!Visible,
     L!Covers, P!Covers, L!WriteBack, P!WriteBack, L!ReceiptOf, P!ReceiptOf,
     L!EmptyStore, P!EmptyStore, L!NoKeys, P!NoKeys
<1> QED BY <1>1, <1>2, PTL DEF LedgerSpec, L!Spec, P!Spec

LEMMA LedgerIsSerial == LedgerSpec => P!SerialSpec
BY FootprintsSound, SameLedger, P!StagedIsSerial

\* Every outcome is a store and a receipt.
LEMMA RunTyped ==
  ASSUME NEW c \in Calls, TypeOK
  PROVE  /\ P!Serial!ReceiptOf(c, Run(c, store)) \in Receipts
         /\ P!Serial!ReceiptOf(c, Run(c, store)) # Absent
<1>1. Run(c, store).status \in {"ok", "err", "trap"} /\ Run(c, store).value \in Int \cup {Absent}
  <2>1. \A a \in Accounts : UnwrapOr(store, OpCount(a), 0) \in Int /\ UnwrapOr(store, AccruedFee(a), 0) \in Int
    BY ReadsOf, FeeAssumption DEF TypeOK
  <2>2. UnwrapOr(store, FeePool, 0) \in Int
    BY ReadsOf, FeeAssumption DEF TypeOK
  <2>3. CASE c.fn = "operate"
    BY <2>3 DEF Run, Invoke, operate, Require, Ok, Trap
  <2>4. CASE c.fn = "sweep"
    <3>1. c.who \in Accounts
      BY <2>4 DEF Calls
    <3> QED BY <2>1, <2>2, <2>4, <3>1 DEF Run, Invoke, sweep, Require, Ok, Trap
  <2>5. CASE c.fn \in {"accrued", "op_count"}
    <3>1. c.who \in Accounts
      BY <2>5 DEF Calls
    <3> QED BY <2>1, <2>5, <3>1 DEF Run, Invoke, accrued, op_count, Ok
  <2>6. CASE c.fn = "fee_pool"
    BY <2>2, <2>6 DEF Run, Invoke, fee_pool, Ok
  <2> QED BY <2>3, <2>4, <2>5, <2>6 DEF Calls
<1>2. P!Serial!ReceiptOf(c, Run(c, store)) \in Receipts
  BY <1>1 DEF P!Serial!ReceiptOf, Receipts
<1> QED BY <1>2, ReceiptAssumption

\* A call on the ledger is a step of the contract on its own.
LEMMA ExecuteIsStep ==
  ASSUME NEW t \in Txs, NEW c \in Calls, P!Serial!Execute(t, c)
  PROVE  /\ c.fn = "operate" => c.who \in Accounts /\ c.signed \in BOOLEAN /\ Operate(c.who, c.signed)
         /\ c.fn = "sweep" => c.who \in Accounts /\ Sweep(c.who)
         /\ c.fn \notin {"operate", "sweep"} => store' = store
<1>1. store' = Run(c, store).store
  BY DEF P!Serial!Execute
<1>2. CASE c.fn = "operate"
  BY <1>1, <1>2 DEF Calls, Run, Invoke, Operate
<1>3. CASE c.fn = "sweep"
  BY <1>1, <1>3 DEF Calls, Run, Invoke, Sweep
<1>4. CASE c.fn = "accrued"
  BY <1>1, <1>4 DEF Run, Invoke, accrued, Ok
<1>5. CASE c.fn = "op_count"
  BY <1>1, <1>5 DEF Run, Invoke, op_count, Ok
<1>6. CASE c.fn = "fee_pool"
  BY <1>1, <1>6 DEF Run, Invoke, fee_pool, Ok
<1> QED BY <1>2, <1>3, <1>4, <1>5, <1>6 DEF Calls

LEMMA StepIsStep == [P!Serial!Next]_(P!Serial!vars) => [Next]_store
<1>1. ASSUME NEW t \in Txs, NEW c \in Calls, P!Serial!Execute(t, c) PROVE [Next]_store
  BY <1>1, ExecuteIsStep DEF Next, Calls
<1> QED BY <1>1 DEF P!Serial!Next, P!Serial!vars, LedgerCalls

\* Staged behaviours of the lazy contract are serial ones.
LEMMA LedgerIsContract == LedgerSpec => Spec
<1>1. P!Serial!Init => Init
  BY DEF P!Serial!Init, Init, LedgerKeys
<1> QED BY <1>1, StepIsStep, LedgerIsSerial, PTL DEF P!SerialSpec, P!Serial!Spec, Spec

\* Concurrent operations and sweeps together still are the naive contract.
THEOREM LedgerIsEagerPool == LedgerSpec => ActsAsEagerPool
BY LedgerIsContract, LazyIsNaive DEF ActsAsEagerPool

------------------------------------------------------------------------------
\* An operation was told "ok" exactly when it was charged, and only if signed.
LEMMA OperateTold ==
  ASSUME TypeOK, NEW t \in Txs, NEW c \in Calls, P!Serial!Execute(t, c), c.fn = "operate"
  PROVE  IF Run(c, store).status = "ok" THEN c.signed /\ store' # store ELSE store' = store
<1> DEFINE goes == /\ c.signed /\ UnwrapOr(store, OpCount(c.who), 0) + 1 <= MaxU64
                   /\ UnwrapOr(store, AccruedFee(c.who), 0) + FEE_PER_OP <= MaxI128
           end  == Put(Put(store, OpCount(c.who), UnwrapOr(store, OpCount(c.who), 0) + 1), AccruedFee(c.who),
                       UnwrapOr(store, AccruedFee(c.who), 0) + FEE_PER_OP)
<1>1. Run(c, store) = IF goes THEN Ok(end, Absent) ELSE Trap(store)
  BY DEF Run, Invoke, operate, Require
<1>2. store' = Run(c, store).store
  BY DEF P!Serial!Execute
<1>3. CASE goes
  <2>1. c.who \in Accounts /\ OpCount(c.who) \in Keys /\ OpCount(c.who) # AccruedFee(c.who)
    BY KeysDiffer DEF Calls
  <2>2. end[OpCount(c.who)] = UnwrapOr(store, OpCount(c.who), 0) + 1
    BY <2>1 DEF Put, TypeOK, WellTyped
  <2>3. UnwrapOr(store, OpCount(c.who), 0) \in Nat
    BY <2>1, ReadsOf, FeeAssumption DEF TypeOK
  <2>4. store[OpCount(c.who)] # UnwrapOr(store, OpCount(c.who), 0) + 1
    BY <2>3, AbsentAssumption DEF UnwrapOr
  <2>5. end # store
    BY <2>2, <2>4
  <2>6. goes /\ Run(c, store).status = "ok" /\ store' = end
    BY <1>1, <1>2, <1>3 DEF Ok
  <2> HIDE DEF end
  <2> QED BY <2>5, <2>6
<1>4. CASE ~goes
  BY <1>1, <1>2, <1>4 DEF Trap
<1> QED BY <1>3, <1>4

\* The pool never shrinks, and a call that reports it reports what it leaves.
LEMMA PoolTold ==
  ASSUME TypeOK, NEW t \in Txs, NEW c \in Calls, P!Serial!Execute(t, c)
  PROVE  /\ Pool \in Nat /\ Pool' \in Nat /\ Pool <= Pool'
         /\ c.fn \in {"sweep", "fee_pool"} /\ Run(c, store).status = "ok" => Run(c, store).value = Pool'
<1>1. Pool \in Nat /\ Fees \in [Accounts -> Nat]
  BY ReadsTyped
<1>2. Pool' \in Nat /\ Pool <= Pool'
  <2>1. CASE store' = store
    <3>1. Pool' = Pool
      BY <2>1 DEF Pool, UnwrapOr
    <3> QED BY <1>1, <3>1
  <2>2. CASE c.fn = "operate" /\ store' # store
    <3>1. Pool' = Pool
      BY <2>2, ExecuteIsStep, OperateReads
    <3> QED BY <1>1, <3>1
  <2>3. CASE c.fn = "sweep" /\ store' # store
    <3>1. c.who \in Accounts /\ Pool' = Pool + Fees[c.who]
      BY <2>3, ExecuteIsStep, SweepReads
    <3> QED BY <1>1, <3>1
  <2> QED BY <2>1, <2>2, <2>3, ExecuteIsStep
<1>3. store' = Run(c, store).store
  BY DEF P!Serial!Execute
<1>4. ASSUME c.fn = "sweep", Run(c, store).status = "ok" PROVE Run(c, store).value = Pool'
  <2> DEFINE new_pool == UnwrapOr(store, FeePool, 0) + UnwrapOr(store, AccruedFee(c.who), 0)
             mid == Put(store, AccruedFee(c.who), 0)
  <2>1. Run(c, store) = Ok(Put(mid, FeePool, new_pool), new_pool)
    BY <1>4 DEF Run, Invoke, sweep, Require, Trap
  <2>2. FeePool \in DOMAIN mid
    BY DEF Put, TypeOK, WellTyped, Keys
  <2>3. c.who \in Accounts
    BY <1>4 DEF Calls
  <2>4. new_pool # Absent
    BY <2>3, ReadsOf, AbsentAssumption, FeeAssumption DEF TypeOK
  <2> HIDE DEF mid, new_pool
  <2>5. Run(c, store).value = new_pool /\ store'[FeePool] = new_pool
    BY <1>3, <2>1, <2>2 DEF Ok, Put
  <2> QED BY <2>4, <2>5 DEF Pool, UnwrapOr
<1>5. ASSUME c.fn = "fee_pool" PROVE Run(c, store).value = Pool'
  BY <1>3, <1>5 DEF Run, Invoke, fee_pool, Ok, Pool, UnwrapOr
<1> QED BY <1>1, <1>2, <1>4, <1>5

\* No one was told of a larger pool than there is.
ToldAtMostPool ==
  \A t \in Txs :
    receipt[t] # Absent /\ receipt[t].call.fn \in {"sweep", "fee_pool"} /\ receipt[t].status = "ok"
      => receipt[t].value \in 0..Pool

\* What every serial step preserves.
LedgerInv ==
  /\ IInv
  /\ receipt \in [Txs -> Receipts \cup {Absent}]
  /\ FeesMatchReceipts
  /\ ToldAtMostPool

\* What one execution does to the receipts.
LEMMA ExecuteReceipts ==
  ASSUME LedgerInv, NEW t \in Txs, NEW c \in Calls, P!Serial!Execute(t, c)
  PROVE  /\ receipt[t] = Absent /\ receipt'[t] # Absent
         /\ receipt'[t].call = c
         /\ receipt'[t].status = Run(c, store).status /\ receipt'[t].value = Run(c, store).value
         /\ receipt' \in [Txs -> Receipts \cup {Absent}]
         /\ \A u \in Txs \ {t} : receipt'[u] = receipt[u]
<1> DEFINE out == Run(c, store)
           r   == P!Serial!ReceiptOf(c, out)
<1>1. /\ r \in Receipts /\ r # Absent
      /\ r.call = c /\ r.status = out.status /\ r.value = out.value
  BY RunTyped DEF LedgerInv, IInv, P!Serial!ReceiptOf
<1>2. receipt[t] = Absent /\ receipt' = [receipt EXCEPT ![t] = r]
  BY DEF P!Serial!Execute
<1>3. receipt \in [Txs -> Receipts \cup {Absent}]
  BY DEF LedgerInv
<1> HIDE DEF r, out
<1> QED BY <1>1, <1>2, <1>3 DEF out

\* The operations told "ok", before and after: one more if this is one.
LEMMA OperationsGrow ==
  ASSUME LedgerInv, NEW t \in Txs, NEW c \in Calls, P!Serial!Execute(t, c), NEW a \in Accounts
  PROVE  /\ t \notin OperationsOf(a) /\ OperationsOf(a) \subseteq Txs
         /\ \A u \in OperationsOf(a) : receipt'[u] = receipt[u]
         /\ OperationsOf(a)' = IF c.fn = "operate" /\ c.who = a /\ Run(c, store).status = "ok"
                               THEN OperationsOf(a) \cup {t} ELSE OperationsOf(a)
<1> DEFINE D == OperationsOf(a)
           E == OperationsOf(a)'
<1>1. D \subseteq Txs /\ E \subseteq Txs /\ t \notin D
  BY ExecuteReceipts DEF OperationsOf
<1>2. \A u \in Txs : u \in E <=> \/ u \in D
                                 \/ u = t /\ c.fn = "operate" /\ c.who = a /\ Run(c, store).status = "ok"
  BY <1>1, ExecuteReceipts DEF OperationsOf
<1> HIDE DEF D, E
<1>3. E = IF c.fn = "operate" /\ c.who = a /\ Run(c, store).status = "ok" THEN D \cup {t} ELSE D
  BY <1>1, <1>2
<1>4. \A u \in D : receipt'[u] = receipt[u]
  BY <1>1, ExecuteReceipts
<1> QED BY <1>1, <1>3, <1>4 DEF D, E

SignedOf(a) == {t \in OperationsOf(a) : receipt[t].call.signed}
AllOps      == UNION {OperationsOf(a) : a \in Accounts}

LEMMA InitLedgerInv == P!Serial!Init => LedgerInv
<1> SUFFICES ASSUME P!Serial!Init PROVE LedgerInv
  OBVIOUS
<1>1. Init /\ receipt = [t \in Txs |-> Absent]
  BY DEF P!Serial!Init, Init, LedgerKeys
<1>2. IInv
  BY <1>1, InitIInv
<1>3. Pool = 0 /\ \A a \in Accounts : Fees[a] = 0 /\ Ops[a] = 0
  BY <1>1, KeysDiffer DEF Init, Pool, Fees, Ops, UnwrapOr, Keys
<1>4. SumOver(Fees, Accounts) = 0
  BY <1>3, SumOverZero
<1>5. \A a \in Accounts : OperationsOf(a) = {}
  BY <1>1 DEF OperationsOf
<1>6. AllOps = {} /\ \A a \in Accounts : SignedOf(a) = {}
  BY <1>5 DEF AllOps, SignedOf
<1>7. FEE_PER_OP * 0 = 0
  BY FeeAssumption
<1>8. FeesMatchReceipts
  BY <1>3, <1>4, <1>6, <1>7, FS_EmptySet DEF FeesMatchReceipts, AllOps, SignedOf
<1> QED BY <1>1, <1>2, <1>8 DEF LedgerInv, ToldAtMostPool

LEMMA NextFeesMatch ==
  ASSUME LedgerInv, NEW t \in Txs, NEW c \in Calls, P!Serial!Execute(t, c)
  PROVE  FeesMatchReceipts'
<1> DEFINE goes == c.fn = "operate" /\ Run(c, store).status = "ok"
           sum  == SumOver(Fees, Accounts)
<1>1. TypeOK /\ Pool \in Nat /\ Ops \in [Accounts -> Nat] /\ Fees \in [Accounts -> Nat]
  BY ReadsTyped DEF LedgerInv, IInv
<1>2. sum \in Nat
  <2>1. Accounts \in SUBSET Accounts
    OBVIOUS
  <2> QED BY <1>1, <2>1, SumOverType, FeeAssumption
<1>3. /\ \A a \in Accounts : Ops[a] = Cardinality(SignedOf(a))
      /\ Pool + sum = FEE_PER_OP * Cardinality(AllOps)
  BY DEF LedgerInv, FeesMatchReceipts, SignedOf, AllOps
<1>4. CASE goes
  <2>1. c.who \in Accounts /\ c.signed /\ Operate(c.who, c.signed) /\ c.signed \in BOOLEAN /\ store' # store
    BY <1>1, <1>4, ExecuteIsStep, OperateTold
  <2>2. Pool' = Pool /\ Ops' = [Ops EXCEPT ![c.who] = @ + 1] /\ sum' = sum + FEE_PER_OP
    BY <1>1, <2>1, OperateReads, OperateSums
  <2>3. \A a \in Accounts :
          /\ OperationsOf(a)' = IF a = c.who THEN OperationsOf(a) \cup {t} ELSE OperationsOf(a)
          /\ t \notin OperationsOf(a) /\ OperationsOf(a) \subseteq Txs
          /\ \A u \in OperationsOf(a) : receipt'[u] = receipt[u]
    BY <1>4, OperationsGrow
  <2>4. receipt'[t].call.signed
    BY <2>1, ExecuteReceipts
  <2>5. \A a \in Accounts : /\ SignedOf(a)' = IF a = c.who THEN SignedOf(a) \cup {t} ELSE SignedOf(a)
                            /\ t \notin SignedOf(a) /\ SignedOf(a) \subseteq Txs
    <3> SUFFICES ASSUME NEW a \in Accounts
                 PROVE  /\ SignedOf(a)' = IF a = c.who THEN SignedOf(a) \cup {t} ELSE SignedOf(a)
                        /\ t \notin SignedOf(a) /\ SignedOf(a) \subseteq Txs
      OBVIOUS
    <3> DEFINE D == OperationsOf(a)
               E == OperationsOf(a)'
    <3>1. /\ E = IF a = c.who THEN D \cup {t} ELSE D
          /\ t \notin D /\ D \subseteq Txs /\ \A u \in D : receipt'[u] = receipt[u]
      BY <2>3
    <3>2. SignedOf(a) = {u \in D : receipt[u].call.signed} /\ SignedOf(a)' = {u \in E : receipt'[u].call.signed}
      BY DEF SignedOf
    <3> HIDE DEF D, E
    <3> QED BY <2>4, <3>1, <3>2
  <2>6. AllOps' = AllOps \cup {t} /\ t \notin AllOps /\ AllOps \subseteq Txs
    BY <2>1, <2>3 DEF AllOps
  <2>7. IsFiniteSet(AllOps) /\ \A a \in Accounts : IsFiniteSet(SignedOf(a))
    BY <2>5, <2>6, TxsAssumption, FS_Subset
  <2>8. Cardinality(AllOps') = Cardinality(AllOps) + 1 /\ Cardinality(AllOps) \in Nat
    BY <2>6, <2>7, FS_AddElement, FS_CardinalityType
  <2>9. \A a \in Accounts : Cardinality(SignedOf(a)') = IF a = c.who THEN Cardinality(SignedOf(a)) + 1 ELSE Cardinality(SignedOf(a))
    BY <2>5, <2>7, FS_AddElement
  <2>10. \A a \in Accounts : Ops'[a] = Cardinality(SignedOf(a)')
    BY <1>1, <1>3, <2>2, <2>9
  <2>11. Pool' + sum' = FEE_PER_OP * Cardinality(AllOps')
    <3> DEFINE n == Cardinality(AllOps)
    <3>1. n \in Nat /\ Cardinality(AllOps') = n + 1 /\ Pool + sum = FEE_PER_OP * n
      BY <1>3, <2>8
    <3> HIDE DEF n, sum
    <3>2. FEE_PER_OP * (n + 1) = FEE_PER_OP * n + FEE_PER_OP
      BY <3>1, FeeAssumption
    <3> QED BY <1>1, <1>2, <2>2, <3>1, <3>2, FeeAssumption
  <2> QED BY <2>10, <2>11 DEF FeesMatchReceipts, SignedOf, AllOps
<1>5. CASE ~goes
  <2>1. Pool' + sum' = Pool + sum /\ Ops' = Ops
    <3>1. CASE store' = store
      BY <3>1 DEF Pool, Fees, Ops, SumOver, Tally
    <3>2. CASE store' # store
      <4>1. c.fn = "sweep" /\ c.who \in Accounts /\ Sweep(c.who)
        BY <1>1, <1>5, <3>2, ExecuteIsStep, OperateTold
      <4> QED BY <1>1, <3>2, <4>1, SweepReads, SweepSums
    <3> QED BY <3>1, <3>2
  <2>2. \A a \in Accounts : /\ OperationsOf(a)' = OperationsOf(a)
                            /\ \A u \in OperationsOf(a) : receipt'[u] = receipt[u]
    BY <1>5, OperationsGrow
  <2>3. \A a \in Accounts : SignedOf(a)' = SignedOf(a)
    <3> SUFFICES ASSUME NEW a \in Accounts PROVE SignedOf(a)' = SignedOf(a)
      OBVIOUS
    <3> DEFINE D == OperationsOf(a)
               E == OperationsOf(a)'
    <3>1. E = D /\ \A u \in D : receipt'[u] = receipt[u]
      BY <2>2
    <3>2. SignedOf(a) = {u \in D : receipt[u].call.signed} /\ SignedOf(a)' = {u \in E : receipt'[u].call.signed}
      BY DEF SignedOf
    <3> HIDE DEF D, E
    <3> QED BY <3>1, <3>2
  <2>4. AllOps' = AllOps
    BY <2>2 DEF AllOps
  <2>5. \A a \in Accounts : Ops'[a] = Cardinality(SignedOf(a)')
    BY <1>3, <2>1, <2>3
  <2>6. Pool' + sum' = FEE_PER_OP * Cardinality(AllOps')
    BY <1>3, <2>1, <2>4
  <2> QED BY <2>5, <2>6 DEF FeesMatchReceipts, SignedOf, AllOps
<1> QED BY <1>4, <1>5

LEMMA NextLedgerInv == LedgerInv /\ [P!Serial!Next]_(P!Serial!vars) => LedgerInv'
<1> SUFFICES ASSUME LedgerInv, [P!Serial!Next]_(P!Serial!vars) PROVE LedgerInv'
  OBVIOUS
<1>1. IInv'
  BY StepIsStep, NextIInv DEF LedgerInv
<1>2. ASSUME NEW t \in Txs, NEW c \in Calls, P!Serial!Execute(t, c) PROVE LedgerInv'
  <2>1. ToldAtMostPool'
    <3> SUFFICES ASSUME NEW u \in Txs, receipt'[u] # Absent,
                        receipt'[u].call.fn \in {"sweep", "fee_pool"}, receipt'[u].status = "ok"
                 PROVE  receipt'[u].value \in 0..Pool'
      BY DEF ToldAtMostPool
    <3>1. Pool \in Nat /\ Pool' \in Nat /\ Pool <= Pool'
      BY <1>2, PoolTold DEF LedgerInv, IInv
    <3>2. CASE u = t
      BY <1>2, <3>1, <3>2, PoolTold, ExecuteReceipts DEF LedgerInv, IInv
    <3>3. CASE u # t
      <4>1. receipt'[u] = receipt[u]
        BY <1>2, <3>3, ExecuteReceipts
      <4> QED BY <3>1, <4>1 DEF LedgerInv, ToldAtMostPool
    <3> QED BY <3>2, <3>3
  <2> QED BY <1>1, <1>2, <2>1, NextFeesMatch, ExecuteReceipts DEF LedgerInv
<1>3. CASE UNCHANGED P!Serial!vars
  BY <1>1, <1>3 DEF P!Serial!vars, LedgerInv, FeesMatchReceipts, ToldAtMostPool, OperationsOf,
     Pool, Fees, Ops, SumOver, Tally
<1> QED BY <1>2, <1>3 DEF P!Serial!Next, LedgerCalls

LEMMA StepReports == LedgerInv /\ [P!Serial!Next]_(P!Serial!vars) => [PoolReportsGrow]_(L!vars)
<1> SUFFICES ASSUME LedgerInv, [P!Serial!Next]_(P!Serial!vars), NEW t \in Txs, NEW u \in Txs,
                    receipt[t] # Absent, receipt[t].call.fn \in {"sweep", "fee_pool"},
                    receipt[t].status = "ok", receipt[u] = Absent, receipt'[u] # Absent,
                    receipt'[u].call.fn \in {"sweep", "fee_pool"}, receipt'[u].status = "ok"
             PROVE  receipt'[u].value >= receipt[t].value
  BY DEF PoolReportsGrow
<1>1. PICK x \in Txs, c \in Calls : P!Serial!Execute(x, c)
  BY DEF P!Serial!Next, P!Serial!vars, LedgerCalls
<1>2. x = u
  BY <1>1, ExecuteReceipts
<1>3. receipt'[u].value = Pool' /\ Pool <= Pool' /\ Pool \in Nat /\ Pool' \in Nat
  BY <1>1, <1>2, PoolTold, ExecuteReceipts DEF LedgerInv, IInv
<1>4. receipt[t].value \in 0..Pool
  BY DEF LedgerInv, ToldAtMostPool
<1> QED BY <1>3, <1>4

\* Charges, signatures, receipts and the two places of fees agree, of every
\* staged run.
THEOREM LedgerInvariant == LedgerSpec => []LedgerInv
BY LedgerIsSerial, InitLedgerInv, NextLedgerInv, PTL DEF P!SerialSpec, P!Serial!Spec

\* Each account is charged for exactly the operations it signed and was told
\* "ok" for, whatever sweeps run at the same time.
THEOREM ChargesMatch == LedgerSpec => []FeesMatchReceipts
BY LedgerInvariant, PTL DEF LedgerInv

\* The pool, as sweep and fee_pool report it, never shrinks.
THEOREM PoolReportsNeverShrink == LedgerSpec => PoolNeverShrinks
BY LedgerIsSerial, LedgerInvariant, StepReports, PTL DEF P!SerialSpec, P!Serial!Spec, PoolNeverShrinks

\* No operation, sweep or read is ever stopped for a footprint out of date:
\* the entries are found from the call alone.
THEOREM NobodyTurnedDown == LedgerSpec => []P!NoneRejected
<1>1. P!FixedFootprints
  BY DEF P!FixedFootprints, FootprintOf, Footprint
<1> QED BY <1>1, FootprintsSound, SameLedger, P!NobodyTurnedDown
==============================================================================
