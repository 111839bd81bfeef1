------------------------------ MODULE NaiveAdmin -----------------------------
(***************************************************************************)
(* Pattern 05, naive: one entry per setting, written in a loop.            *)
(* patterns/05-batched-admin-writes/naive/src/lib.rs                       *)
(***************************************************************************)
EXTENDS SorobanHost, Sequences

CONSTANTS
  FIELDS,          \* bound: settings a call can carry
  SettingValues    \* the values of a setting

VARIABLE store     \* the contract's persistent storage

Setting(i) == <<"Setting", i>>
Fields     == 0..(FIELDS - 1)
Keys       == {Setting(i) : i \in Fields}

Values(k) == SettingValues \cup {Absent}

------------------------------------------------------------------------------
\* The handlers, as functions of the store they run on.

ProvidedMissingLast(values) == 0..(Len(values) - 2)   \* mutant: the loop ends early

\* The settings a call provides; those past its end stay as they are.
Provided(values) == 0..(Len(values) - 1)

set_config(values, st) ==
  Ok([k \in Keys |-> IF k[2] \in Provided(values) THEN values[k[2] + 1] ELSE st[k]], Absent)

get_setting(index, st) == Ok(st, UnwrapOr(st, Setting(index), 0))

Calls ==
  [fn : {"set_config"}, values : UNION {[1..n -> SettingValues] : n \in 0..FIELDS}]
    \cup [fn : {"get_setting"}, index : Fields]

Invoke(c, st) ==
  CASE c.fn = "set_config"  -> set_config(c.values, st)
    [] c.fn = "get_setting" -> get_setting(c.index, st)

Footprint(c, st) ==
  CASE c.fn = "set_config"  ->
         [reads |-> {}, writes |-> {Setting(i) : i \in Provided(c.values)}]
    [] c.fn = "get_setting" -> [reads |-> {Setting(c.index)}, writes |-> {}]
==============================================================================
