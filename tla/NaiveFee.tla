------------------------------- MODULE NaiveFee ------------------------------
(***************************************************************************)
(* Pattern 03, naive: every operation adds its fee to one global entry.    *)
(* patterns/03-lazy-fee-accrual/naive/src/lib.rs                           *)
(***************************************************************************)
EXTENDS SorobanHost

CONSTANTS
  Accounts,     \* the addresses calls name
  FEE_PER_OP,   \* the fee of one operation (5 in the code)
  MaxU64,       \* the largest operation count
  MaxI128       \* the largest fee total

VARIABLE store   \* the contract's persistent storage

FeePool    == <<"FeePool">>
OpCount(a) == <<"OpCount", a>>

Keys   == {FeePool} \cup {OpCount(a) : a \in Accounts}

Values(k) == (IF k = FeePool THEN 0..MaxI128 ELSE 0..MaxU64) \cup {Absent}

------------------------------------------------------------------------------
\* The handlers, as functions of the store they run on.

operate(who, signed, st) ==
  LET count == UnwrapOr(st, OpCount(who), 0)
      pool  == UnwrapOr(st, FeePool, 0)
  IN  Require(signed /\ count + 1 <= MaxU64 /\ pool + FEE_PER_OP <= MaxI128, st,
              Ok(Put(Put(st, OpCount(who), count + 1), FeePool, pool + FEE_PER_OP),
                 Absent))

fee_pool(st) == Ok(st, UnwrapOr(st, FeePool, 0))

op_count(who, st) == Ok(st, UnwrapOr(st, OpCount(who), 0))

\* signed: who's authorization comes with the call.
Calls ==
  [fn : {"operate"}, who : Accounts, signed : BOOLEAN]
    \cup [fn : {"op_count"}, who : Accounts]
    \cup {[fn |-> "fee_pool"]}

Invoke(c, st) ==
  CASE c.fn = "operate"  -> operate(c.who, c.signed, st)
    [] c.fn = "op_count" -> op_count(c.who, st)
    [] c.fn = "fee_pool" -> fee_pool(st)

Footprint(c, st) ==
  CASE c.fn = "operate"  -> [reads |-> {}, writes |-> {FeePool, OpCount(c.who)}]
    [] c.fn = "op_count" -> [reads |-> {OpCount(c.who)}, writes |-> {}]
    [] c.fn = "fee_pool" -> [reads |-> {FeePool}, writes |-> {}]

------------------------------------------------------------------------------
\* The contract on its own: calls one after another.

Init == store = [k \in Keys |-> Absent]

Operate(who, signed) == store' = operate(who, signed, store).store

Next == \E who \in Accounts, signed \in BOOLEAN : Operate(who, signed)

Spec == Init /\ [][Next]_store
==============================================================================
