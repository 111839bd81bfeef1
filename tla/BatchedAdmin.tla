----------------------------- MODULE BatchedAdmin ----------------------------
(***************************************************************************)
(* Pattern 05, optimized: the whole configuration in one entry.            *)
(* patterns/05-batched-admin-writes/optimized/src/lib.rs                   *)
(***************************************************************************)
EXTENDS SorobanHost

CONSTANTS
  FeeValues,    \* the values of the field fee_bps
  RestValues    \* the values the other five fields can have, taken as one

VARIABLE store   \* the contract's persistent storage

ConfigKey == <<"Config">>
Keys      == {ConfigKey}

Config == [fee_bps : FeeValues, rest : RestValues]

DefaultConfig == [fee_bps |-> 0, rest |-> 0]

Values(k) == Config \cup {Absent}

------------------------------------------------------------------------------
\* The handlers, as functions of the store they run on.

SetConfigMerging(config, st) ==   \* mutant: a zero fee keeps the old one
  Ok(Put(st, ConfigKey,
         [config EXCEPT !.fee_bps = IF @ = 0
                                    THEN UnwrapOr(st, ConfigKey, DefaultConfig).fee_bps
                                    ELSE @]),
     Absent)

set_config(config, st) == Ok(Put(st, ConfigKey, config), Absent)

ConfigOf(st) == UnwrapOr(st, ConfigKey, DefaultConfig)

get_config(st) == Ok(st, ConfigOf(st))

fee_bps(st) == Ok(st, ConfigOf(st).fee_bps)

Calls ==
  [fn : {"set_config"}, config : Config] \cup [fn : {"get_config", "fee_bps"}]

Invoke(c, st) ==
  CASE c.fn = "set_config" -> set_config(c.config, st)
    [] c.fn = "get_config" -> get_config(st)
    [] c.fn = "fee_bps"    -> fee_bps(st)

Footprint(c, st) ==
  IF c.fn = "set_config" THEN [reads |-> {}, writes |-> {ConfigKey}]
  ELSE [reads |-> {ConfigKey}, writes |-> {}]
==============================================================================
