---------------------------- MODULE ShardedCounter ---------------------------
(***************************************************************************)
(* Pattern 01, optimized: a counter kept in SHARDS independent entries.    *)
(* patterns/01-sharded-counter/optimized/src/lib.rs                        *)
(***************************************************************************)
EXTENDS SorobanHost, Sums

CONSTANTS
  SHARDS,    \* the number of shards (8 in the code)
  MaxU64     \* the largest value of a shard's type

VARIABLE store   \* the contract's persistent storage

ShardShared(i) == <<"Shard", 0>>   \* mutant: the index is not part of the key

Shard(i) == <<"Shard", i>>

Shards == 0..(SHARDS - 1)
Keys   == {Shard(i) : i \in Shards}

Values(k) == (0..MaxU64) \cup {Absent}

------------------------------------------------------------------------------
\* The handlers, as functions of the store they run on.

ShardValue(st, i) == UnwrapOr(st, Shard(i), 0)

IncrementWrapping(shard, st) ==   \* mutant: the arithmetic is not checked
  LET value == (ShardValue(st, shard) + 1) % (MaxU64 + 1)
  IN  IF shard >= SHARDS THEN Err(st, "ShardOutOfRange")
      ELSE Ok(Put(st, Shard(shard), value), value)

IncrementUnbounded(shard, st) ==  \* mutant: nobody asks whether the value fits
  LET value == ShardValue(st, shard) + 1
  IN  IF shard >= SHARDS THEN Err(st, "ShardOutOfRange")
      ELSE Ok(Put(st, Shard(shard), value), value)

IncrementByTwo(shard, st) ==      \* mutant: counts the call twice
  LET value == ShardValue(st, shard) + 2
  IN  IF shard >= SHARDS THEN Err(st, "ShardOutOfRange")
      ELSE Require(value <= MaxU64, st, Ok(Put(st, Shard(shard), value), value))

increment(shard, st) ==
  LET value == ShardValue(st, shard) + 1
  IN  IF shard >= SHARDS THEN Err(st, "ShardOutOfRange")
      ELSE Require(value <= MaxU64, st, Ok(Put(st, Shard(shard), value), value))

shard_total(shard, st) ==
  IF shard >= SHARDS THEN Err(st, "ShardOutOfRange")
  ELSE Ok(st, ShardValue(st, shard))

\* The shards of st added up; the code's running sum traps past MaxU64.
ShardSum(st) == SumOver([i \in Shards |-> ShardValue(st, i)], Shards)

TotalMissingLast(st) ==           \* mutant: the loop stops one shard early
  LET sum == ShardSum(st) - ShardValue(st, SHARDS - 1)
  IN  Require(sum <= MaxU64, st, Ok(st, sum))

total(st) == Require(ShardSum(st) <= MaxU64, st, Ok(st, ShardSum(st)))

shards(st) == Ok(st, SHARDS)

Calls ==
  [fn : {"increment", "shard_total"}, shard : 0..SHARDS]
    \cup {[fn |-> "total"], [fn |-> "shards"]}

Invoke(c, st) ==
  CASE c.fn = "increment"   -> increment(c.shard, st)
    [] c.fn = "shard_total" -> shard_total(c.shard, st)
    [] c.fn = "total"       -> total(st)
    [] c.fn = "shards"      -> shards(st)

ReadKeysOfOneShard(c) ==          \* mutant: a footprint too narrow for total()
  CASE c.fn \in {"increment", "shard_total"} -> {Shard(c.shard)} \cap Keys
    [] c.fn = "total"                        -> {Shard(0)} \cap Keys
    [] c.fn = "shards"                       -> {}

ReadKeys(c) ==
  CASE c.fn \in {"increment", "shard_total"} -> {Shard(c.shard)} \cap Keys
    [] c.fn = "total"                        -> Keys
    [] c.fn = "shards"                       -> {}

Footprint(c, st) ==
  [reads |-> ReadKeys(c), writes |-> IF c.fn = "increment" THEN ReadKeys(c) ELSE {}]

------------------------------------------------------------------------------
\* The contract on its own: calls one after another.

Init == store = [k \in Keys |-> Absent]

Increment(shard) == store' = increment(shard, store).store

Next == \E shard \in 0..SHARDS : Increment(shard)

Spec == Init /\ [][Next]_store

------------------------------------------------------------------------------
\* What the shards stand for: a single counter holding their sum, whose type
\* would have room for SHARDS full shards.  No shard written, no counter.
SingleCounter ==
  [k \in {<<"Counter">>} |->
     IF \A s \in Keys : store[s] = Absent THEN Absent ELSE ShardSum(store)]

Naive == INSTANCE NaiveCounter WITH store <- SingleCounter, MaxU64 <- SHARDS * MaxU64

\* Every call on the sharded counter is a step of the naive one or none at
\* all: sharding loses no increment and invents none.
NaiveSpec == Naive!Spec
==============================================================================
