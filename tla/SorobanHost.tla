----------------------------- MODULE SorobanHost -----------------------------
(***************************************************************************)
(* The part of the Soroban host the contracts under patterns/ lean on: a   *)
(* key-value store whose reads default (`get(..).unwrap_or(d)`), and what  *)
(* an invocation ends with.  The host is not in this repository; it is     *)
(* modelled from how the contracts use it.                                 *)
(*                                                                         *)
(* A store is a function from ledger keys to values; a key that was never  *)
(* written holds Absent.  An invocation that returns `Err(e)` or panics    *)
(* (failed assert, failed require_auth, arithmetic overflow under the      *)
(* release profile's overflow-checks) leaves the store as it found it.     *)
(***************************************************************************)
EXTENDS Integers

CONSTANT Absent   \* what a key that was never written holds

ASSUME AbsentAssumption == Absent \notin Int

\* storage().get(&key).unwrap_or(default)
UnwrapOr(st, key, default) == IF st[key] = Absent THEN default ELSE st[key]

\* storage().set(&key, &value)
Put(st, key, value) == [st EXCEPT ![key] = value]

Ok(st, v) == [status |-> "ok", value |-> v, store |-> st]

Err(st, e) == [status |-> "err", value |-> e, store |-> st]

Trap(st) == [status |-> "trap", value |-> Absent, store |-> st]

\* require_auth, assert! and checked arithmetic: go on, or roll everything back.
Require(cond, st, outcome) == IF cond THEN outcome ELSE Trap(st)
==============================================================================
