----------------------------- MODULE NaiveBalance ----------------------------
(***************************************************************************)
(* Pattern 02, naive: every account's balance in one map, in one entry.    *)
(* patterns/02-per-user-balance/naive/src/lib.rs                           *)
(***************************************************************************)
EXTENDS SorobanHost

CONSTANTS
  Accounts,   \* the addresses calls name
  Amounts,    \* the amounts calls carry, negative ones included
  MaxI128     \* the largest signed 128-bit integer

VARIABLE store   \* the contract's persistent storage

Balances == <<"Balances">>
Keys     == {Balances}

I128 == (-MaxI128 - 1)..MaxI128

\* A Map<Address, i128>: Absent marks the accounts it has no entry for.
Maps == [Accounts -> I128 \cup {Absent}]

Values(k) == Maps \cup {Absent}

------------------------------------------------------------------------------
\* The handlers, as functions of the store they run on.

load(st) == UnwrapOr(st, Balances, [a \in Accounts |-> Absent])

\* Checked i128 arithmetic: every intermediate result has to fit.
deposit(to, amount, st) ==
  LET balances    == load(st)
      new_balance == UnwrapOr(balances, to, 0) + amount
  IN  Require(new_balance \in I128, st,
              Ok(Put(st, Balances, Put(balances, to, new_balance)), new_balance))

\* to's balance is read from the map from's new balance is already in.
transfer(from, to, amount, signed, st) ==
  LET balances     == load(st)
      from_balance == UnwrapOr(balances, from, 0)
      debited      == Put(balances, from, from_balance - amount)
      to_balance   == UnwrapOr(debited, to, 0) + amount
  IN  Require(/\ signed
              /\ from_balance >= amount
              /\ from_balance - amount \in I128
              /\ to_balance \in I128,
              st,
              Ok(Put(st, Balances, Put(debited, to, to_balance)), Absent))

balance(who, st) == Ok(st, UnwrapOr(load(st), who, 0))

\* signed: from's authorization comes with the call.
Calls ==
  [fn : {"deposit"}, to : Accounts, amount : Amounts]
    \cup [fn : {"transfer"}, from : Accounts, to : Accounts,
          amount : Amounts, signed : BOOLEAN]
    \cup [fn : {"balance"}, who : Accounts]

Invoke(c, st) ==
  CASE c.fn = "deposit"  -> deposit(c.to, c.amount, st)
    [] c.fn = "transfer" -> transfer(c.from, c.to, c.amount, c.signed, st)
    [] c.fn = "balance"  -> balance(c.who, st)

Footprint(c, st) ==
  [reads |-> {Balances}, writes |-> IF c.fn = "balance" THEN {} ELSE {Balances}]

------------------------------------------------------------------------------
\* The contract on its own: calls one after another.

Init == store = [k \in Keys |-> Absent]

Deposit(to, amount) == store' = deposit(to, amount, store).store

Transfer(from, to, amount, signed) ==
  store' = transfer(from, to, amount, signed, store).store

Next ==
  \/ \E to \in Accounts, amount \in Amounts : Deposit(to, amount)
  \/ \E from, to \in Accounts, amount \in Amounts, signed \in BOOLEAN :
       Transfer(from, to, amount, signed)

Spec == Init /\ [][Next]_store
==============================================================================
