------------------------------ MODULE NaiveNonce -----------------------------
(***************************************************************************)
(* Pattern 04, naive: one persistent nonce counter for everybody.          *)
(* patterns/04-temporary-nonce/naive/src/lib.rs                            *)
(***************************************************************************)
EXTENDS SorobanHost

CONSTANT MaxU64   \* the largest nonce

VARIABLE store    \* the contract's persistent storage

Nonce == <<"Nonce">>
Keys  == {Nonce}

Values(k) == (0..MaxU64) \cup {Absent}

------------------------------------------------------------------------------
\* The handlers, as functions of the store they run on.

NextSaturating(st) ==   \* mutant: the last nonce is handed out for ever
  LET nonce == IF UnwrapOr(st, Nonce, 0) = MaxU64 THEN MaxU64 ELSE UnwrapOr(st, Nonce, 0) + 1
  IN  Ok(Put(st, Nonce, nonce), nonce)

next(st) ==
  LET nonce == UnwrapOr(st, Nonce, 0) + 1
  IN  Require(nonce <= MaxU64, st, Ok(Put(st, Nonce, nonce), nonce))

current(st) == Ok(st, UnwrapOr(st, Nonce, 0))

Calls == {[fn |-> "next"], [fn |-> "current"]}

Invoke(c, st) ==
  CASE c.fn = "next"    -> next(st)
    [] c.fn = "current" -> current(st)

Footprint(c, st) ==
  [reads |-> {Nonce}, writes |-> IF c.fn = "next" THEN {Nonce} ELSE {}]

------------------------------------------------------------------------------
\* The contract on its own: calls one after another.

Init == store = [k \in Keys |-> Absent]

NextNonce == store' = next(store).store

Next == NextNonce

Spec == Init /\ [][Next]_store
==============================================================================
