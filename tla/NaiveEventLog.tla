---------------------------- MODULE NaiveEventLog ----------------------------
(***************************************************************************)
(* Pattern 06, naive: one tail pointer for the whole log.                  *)
(* patterns/06-event-log/naive/src/lib.rs                                  *)
(***************************************************************************)
EXTENDS SorobanHost

CONSTANTS
  Messages,   \* what is appended
  MaxU64      \* the largest value of the tail pointer

VARIABLE store   \* the contract's persistent storage

Tail     == <<"Tail">>
Entry(i) == <<"Entry", i>>

\* Entry(MaxU64) is named by an append that finds the tail full, and is undone.
Keys == {Tail} \cup {Entry(i) : i \in 0..MaxU64}

Values(k) == (IF k = Tail THEN 0..MaxU64 ELSE Messages) \cup {Absent}

------------------------------------------------------------------------------
\* The handlers, as functions of the store they run on.

append(msg, st) ==
  LET tail == UnwrapOr(st, Tail, 0)
  IN  Require(tail + 1 <= MaxU64, st,
              Ok(Put(Put(st, Entry(tail), msg), Tail, tail + 1), tail))

entry_count(st) == Ok(st, UnwrapOr(st, Tail, 0))

get(index, st) == Ok(st, st[Entry(index)])

Calls ==
  [fn : {"append"}, msg : Messages]
    \cup [fn : {"get"}, index : 0..MaxU64]
    \cup {[fn |-> "entry_count"]}

Invoke(c, st) ==
  CASE c.fn = "append"      -> append(c.msg, st)
    [] c.fn = "get"         -> get(c.index, st)
    [] c.fn = "entry_count" -> entry_count(st)

\* Which entry an append writes depends on the tail it finds.
Footprint(c, st) ==
  CASE c.fn = "append"      -> [reads  |-> {},
                                writes |-> {Tail, Entry(UnwrapOr(st, Tail, 0))}]
    [] c.fn = "get"         -> [reads |-> {Entry(c.index)}, writes |-> {}]
    [] c.fn = "entry_count" -> [reads |-> {Tail}, writes |-> {}]

------------------------------------------------------------------------------
\* The contract on its own: calls one after another.

Init == store = [k \in Keys |-> Absent]

Append(msg) == store' = append(msg, store).store

Next == \E msg \in Messages : Append(msg)

Spec == Init /\ [][Next]_store
==============================================================================
