----------------------------- MODULE NaiveCounter ----------------------------
(***************************************************************************)
(* Pattern 01, naive: one counter in one entry.                            *)
(* patterns/01-sharded-counter/naive/src/lib.rs                            *)
(***************************************************************************)
EXTENDS SorobanHost

CONSTANT MaxU64   \* the largest value of the counter's type

VARIABLE store    \* the contract's persistent storage

Counter == <<"Counter">>

Keys    == {Counter}

Values(k) == (0..MaxU64) \cup {Absent}

------------------------------------------------------------------------------
\* The handlers, as functions of the store they run on.

increment(st) ==
  LET value == UnwrapOr(st, Counter, 0) + 1
  IN  Require(value <= MaxU64, st, Ok(Put(st, Counter, value), value))

total(st) == Ok(st, UnwrapOr(st, Counter, 0))

Calls == {[fn |-> "increment"], [fn |-> "total"]}

Invoke(c, st) ==
  CASE c.fn = "increment" -> increment(st)
    [] c.fn = "total"     -> total(st)

FootprintReading(c, st) == [reads |-> {Counter}, writes |-> {}]   \* mutant: writes nothing

Footprint(c, st) ==
  [reads |-> {Counter}, writes |-> IF c.fn = "increment" THEN {Counter} ELSE {}]

------------------------------------------------------------------------------
\* The contract on its own: calls one after another.

Init == store = [k \in Keys |-> Absent]

Increment == store' = increment(store).store

Next == Increment

Spec == Init /\ [][Next]_store
==============================================================================
