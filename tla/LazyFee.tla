------------------------------- MODULE LazyFee -------------------------------
(***************************************************************************)
(* Pattern 03, optimized: fees accrue per account and are swept into the   *)
(* global pool later.  patterns/03-lazy-fee-accrual/optimized/src/lib.rs   *)
(***************************************************************************)
EXTENDS SorobanHost, Sums

CONSTANTS
  Accounts,     \* the addresses calls name
  FEE_PER_OP,   \* the fee of one operation (5 in the code)
  MaxU64,       \* the largest operation count
  MaxI128       \* the largest fee total

ASSUME FeeAssumption ==
  /\ IsFiniteSet(Accounts)
  /\ FEE_PER_OP \in Nat /\ MaxU64 \in Nat /\ MaxI128 \in Nat

VARIABLE store   \* the contract's persistent storage

OpCountShared(a) == <<"OpCount">>   \* mutant: the address is not part of the key

FeePool       == <<"FeePool">>
OpCount(a)    == <<"OpCount", a>>
AccruedFee(a) == <<"AccruedFee", a>>

Keys == {FeePool} \cup {OpCount(a) : a \in Accounts}
                  \cup {AccruedFee(a) : a \in Accounts}

Values(k) ==
  (IF \E a \in Accounts : k = OpCount(a) THEN 0..MaxU64 ELSE 0..MaxI128) \cup {Absent}

------------------------------------------------------------------------------
\* The handlers, as functions of the store they run on.

OperateUncounted(who, signed, st) ==   \* mutant: charges, does not count
  LET total == UnwrapOr(st, AccruedFee(who), 0)
  IN  Require(signed /\ total + FEE_PER_OP <= MaxI128, st,
              Ok(Put(st, AccruedFee(who), total + FEE_PER_OP), Absent))

OperateUnsigned(who, signed, st) ==    \* mutant: no authorization asked for
  LET count == UnwrapOr(st, OpCount(who), 0)
      total == UnwrapOr(st, AccruedFee(who), 0)
  IN  Require(count + 1 <= MaxU64 /\ total + FEE_PER_OP <= MaxI128, st,
              Ok(Put(Put(st, OpCount(who), count + 1), AccruedFee(who),
                     total + FEE_PER_OP),
                 Absent))

OperateUnbounded(who, signed, st) ==   \* mutant: the count is not checked
  LET count == UnwrapOr(st, OpCount(who), 0)
      total == UnwrapOr(st, AccruedFee(who), 0)
  IN  Require(signed /\ total + FEE_PER_OP <= MaxI128, st,
              Ok(Put(Put(st, OpCount(who), count + 1), AccruedFee(who),
                     total + FEE_PER_OP),
                 Absent))

operate(who, signed, st) ==
  LET count == UnwrapOr(st, OpCount(who), 0)
      total == UnwrapOr(st, AccruedFee(who), 0)
  IN  Require(signed /\ count + 1 <= MaxU64 /\ total + FEE_PER_OP <= MaxI128, st,
              Ok(Put(Put(st, OpCount(who), count + 1), AccruedFee(who),
                     total + FEE_PER_OP),
                 Absent))

SweepKeeping(who, st) ==               \* mutant: the accrual is not reset
  LET new_pool == UnwrapOr(st, FeePool, 0) + UnwrapOr(st, AccruedFee(who), 0)
  IN  Require(new_pool <= MaxI128, st, Ok(Put(st, FeePool, new_pool), new_pool))

SweepReplacing(who, st) ==             \* mutant: the pool is overwritten
  LET new_pool == UnwrapOr(st, AccruedFee(who), 0)
  IN  Ok(Put(Put(st, AccruedFee(who), 0), FeePool, new_pool), new_pool)

\* The reset is written before the pool's sum is known to fit; the trap undoes it.
sweep(who, st) ==
  LET new_pool == UnwrapOr(st, FeePool, 0) + UnwrapOr(st, AccruedFee(who), 0)
  IN  Require(new_pool <= MaxI128, st,
              Ok(Put(Put(st, AccruedFee(who), 0), FeePool, new_pool), new_pool))

fee_pool(st)      == Ok(st, UnwrapOr(st, FeePool, 0))
accrued(who, st)  == Ok(st, UnwrapOr(st, AccruedFee(who), 0))
op_count(who, st) == Ok(st, UnwrapOr(st, OpCount(who), 0))

\* signed: who's authorization comes with the call.
Calls ==
  [fn : {"operate"}, who : Accounts, signed : BOOLEAN]
    \cup [fn : {"sweep", "accrued", "op_count"}, who : Accounts]
    \cup {[fn |-> "fee_pool"]}

Invoke(c, st) ==
  CASE c.fn = "operate"  -> operate(c.who, c.signed, st)
    [] c.fn = "sweep"    -> sweep(c.who, st)
    [] c.fn = "accrued"  -> accrued(c.who, st)
    [] c.fn = "op_count" -> op_count(c.who, st)
    [] c.fn = "fee_pool" -> fee_pool(st)

Footprint(c, st) ==
  CASE c.fn = "operate"  -> [reads |-> {}, writes |-> {OpCount(c.who), AccruedFee(c.who)}]
    [] c.fn = "sweep"    -> [reads |-> {}, writes |-> {AccruedFee(c.who), FeePool}]
    [] c.fn = "accrued"  -> [reads |-> {AccruedFee(c.who)}, writes |-> {}]
    [] c.fn = "op_count" -> [reads |-> {OpCount(c.who)}, writes |-> {}]
    [] c.fn = "fee_pool" -> [reads |-> {FeePool}, writes |-> {}]

------------------------------------------------------------------------------
\* The contract on its own: calls one after another.

Init == store = [k \in Keys |-> Absent]

Operate(who, signed) == store' = operate(who, signed, store).store

Sweep(who) == store' = sweep(who, store).store

Next ==
  \/ \E who \in Accounts, signed \in BOOLEAN : Operate(who, signed)
  \/ \E who \in Accounts : Sweep(who)

Spec == Init /\ [][Next]_store

------------------------------------------------------------------------------
WellTyped(st) ==
  /\ st = [k \in Keys |-> st[k]]
  /\ \A k \in Keys : st[k] \in Values(k)

\* Counts stay within u64, fees within i128, and neither ever becomes negative.
TypeOK == WellTyped(store)

Pool == UnwrapOr(store, FeePool, 0)
Fees == [a \in Accounts |-> UnwrapOr(store, AccruedFee(a), 0)]
Ops  == [a \in Accounts |-> UnwrapOr(store, OpCount(a), 0)]

\* No fee is lost between the two places it can be, and none is counted
\* twice: what was swept and what is still accrued are the fees of all the
\* operations counted.  patterns/03-lazy-fee-accrual/BENCH.md, "Optimization".
Conservation == Pool + SumOver(Fees, Accounts) = FEE_PER_OP * SumOver(Ops, Accounts)

------------------------------------------------------------------------------
\* The naive contract's entries: the pool as if everything had been swept.
EagerStore ==
  [k \in {FeePool} \cup {OpCount(a) : a \in Accounts} |->
     IF k # FeePool THEN store[k]
     ELSE IF \A a \in Accounts : store[OpCount(a)] = Absent THEN Absent
          ELSE Pool + SumOver(Fees, Accounts)]

\* A pool no number of operations can overflow, as i128 is next to u64.
EagerMax == FEE_PER_OP * MaxU64 * Cardinality(Accounts)

Naive == INSTANCE NaiveFee WITH store <- EagerStore, MaxI128 <- EagerMax

\* Sweeping is invisible and operating is one naive operation: deferring the
\* fees changes when they show up in the pool, and nothing else.
NaiveSpec == Naive!Spec
==============================================================================
