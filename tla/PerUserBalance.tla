---------------------------- MODULE PerUserBalance ---------------------------
(***************************************************************************)
(* Pattern 02, optimized: one entry per account.                           *)
(* patterns/02-per-user-balance/optimized/src/lib.rs                       *)
(***************************************************************************)
EXTENDS SorobanHost

CONSTANTS
  Accounts,   \* the addresses calls name
  Amounts,    \* the amounts calls carry, negative ones included
  MaxI128     \* the largest signed 128-bit integer

VARIABLE store   \* the contract's persistent storage

Balance(a) == <<"Balance", a>>
Keys       == {Balance(a) : a \in Accounts}

I128 == (-MaxI128 - 1)..MaxI128

Values(k) == I128 \cup {Absent}

------------------------------------------------------------------------------
\* The handlers, as functions of the store they run on.

read(who, st)          == UnwrapOr(st, Balance(who), 0)
write(who, amount, st) == Put(st, Balance(who), amount)

DepositOverwriting(to, amount, st) ==   \* mutant: forgets what was there
  Require(amount \in I128, st, Ok(write(to, amount, st), amount))

deposit(to, amount, st) ==
  LET new_balance == read(to, st) + amount
  IN  Require(new_balance \in I128, st, Ok(write(to, new_balance, st), new_balance))

TransferReadingFirst(from, to, amount, signed, st) ==   \* mutant: both read first
  LET from_balance == read(from, st)
      to_balance   == read(to, st) + amount
  IN  Require(/\ signed
              /\ from_balance >= amount
              /\ from_balance - amount \in I128
              /\ to_balance \in I128,
              st,
              Ok(write(to, to_balance, write(from, from_balance - amount, st)), Absent))

TransferUncovered(from, to, amount, signed, st) ==      \* mutant: no balance check
  LET from_balance == read(from, st)
      debited      == write(from, from_balance - amount, st)
      to_balance   == read(to, debited) + amount
  IN  Require(/\ signed
              /\ from_balance - amount \in I128
              /\ to_balance \in I128,
              st,
              Ok(write(to, to_balance, debited), Absent))

\* to's balance is read after from's is written: they may be the same.
transfer(from, to, amount, signed, st) ==
  LET from_balance == read(from, st)
      debited      == write(from, from_balance - amount, st)
      to_balance   == read(to, debited) + amount
  IN  Require(/\ signed
              /\ from_balance >= amount
              /\ from_balance - amount \in I128
              /\ to_balance \in I128,
              st,
              Ok(write(to, to_balance, debited), Absent))

balance(who, st) == Ok(st, read(who, st))

\* signed: from's authorization comes with the call.
Calls ==
  [fn : {"deposit"}, to : Accounts, amount : Amounts]
    \cup [fn : {"transfer"}, from : Accounts, to : Accounts,
          amount : Amounts, signed : BOOLEAN]
    \cup [fn : {"balance"}, who : Accounts]

Invoke(c, st) ==
  CASE c.fn = "deposit"  -> deposit(c.to, c.amount, st)
    [] c.fn = "transfer" -> transfer(c.from, c.to, c.amount, c.signed, st)
    [] c.fn = "balance"  -> balance(c.who, st)

Footprint(c, st) ==
  CASE c.fn = "deposit"  -> [reads |-> {}, writes |-> {Balance(c.to)}]
    [] c.fn = "transfer" -> [reads |-> {}, writes |-> {Balance(c.from), Balance(c.to)}]
    [] c.fn = "balance"  -> [reads |-> {Balance(c.who)}, writes |-> {}]

------------------------------------------------------------------------------
\* The contract on its own: calls one after another.

Init == store = [k \in Keys |-> Absent]

Deposit(to, amount) == store' = deposit(to, amount, store).store

Transfer(from, to, amount, signed) ==
  store' = transfer(from, to, amount, signed, store).store

Next ==
  \/ \E to \in Accounts, amount \in Amounts : Deposit(to, amount)
  \/ \E from, to \in Accounts, amount \in Amounts, signed \in BOOLEAN :
       Transfer(from, to, amount, signed)

Spec == Init /\ [][Next]_store

------------------------------------------------------------------------------
\* The naive contract's one map, put together from the entries.
BalanceMap ==
  [k \in {<<"Balances">>} |->
     IF \A key \in Keys : store[key] = Absent THEN Absent
     ELSE [a \in Accounts |-> store[Balance(a)]]]

Naive == INSTANCE NaiveBalance WITH store <- BalanceMap
==============================================================================
