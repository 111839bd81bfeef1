-------------------------- MODULE SegmentedEventLog --------------------------
(***************************************************************************)
(* Pattern 06, optimized: SEGMENTS logs, each with a tail of its own.      *)
(* patterns/06-event-log/optimized/src/lib.rs                              *)
(***************************************************************************)
EXTENDS SorobanHost, Sums

CONSTANTS
  SEGMENTS,   \* the number of segments (8 in the code)
  Messages,   \* what is appended
  MaxU64      \* the largest value of a tail pointer

VARIABLE store   \* the contract's persistent storage

SegmentTailShared(s) == <<"SegmentTail", 0>>   \* mutant: one tail for all segments

SegmentTail(s) == <<"SegmentTail", s>>
Entry(s, i)    == <<"Entry", s, i>>

Segments == 0..(SEGMENTS - 1)
Indices  == 0..MaxU64   \* the last is named by an append that finds the tail full

Tails   == {SegmentTail(s) : s \in Segments}
Entries == {Entry(s, i) : s \in Segments, i \in Indices}
Keys    == Tails \cup Entries

Values(k) == (IF k \in Tails THEN 0..MaxU64 ELSE Messages) \cup {Absent}

------------------------------------------------------------------------------
\* The handlers, as functions of the store they run on.

TailOf(st, s) == UnwrapOr(st, SegmentTail(s), 0)

AppendLeavingGap(segment, msg, st) ==   \* mutant: the tail is bumped twice
  LET tail == TailOf(st, segment)
  IN  IF segment >= SEGMENTS THEN Err(st, "SegmentOutOfRange")
      ELSE Require(tail + 2 <= MaxU64, st,
                   Ok(Put(Put(st, Entry(segment, tail), msg), SegmentTail(segment), tail + 2),
                      tail))

AppendUnbumped(segment, msg, st) ==     \* mutant: the tail stays, the next append overwrites
  LET tail == TailOf(st, segment)
  IN  IF segment >= SEGMENTS THEN Err(st, "SegmentOutOfRange")
      ELSE Require(tail + 1 <= MaxU64, st,
                   Ok(Put(Put(st, Entry(segment, tail), msg), SegmentTail(segment), tail),
                      tail))

append(segment, msg, st) ==
  LET tail == TailOf(st, segment)
  IN  IF segment >= SEGMENTS THEN Err(st, "SegmentOutOfRange")
      ELSE Require(tail + 1 <= MaxU64, st,
                   Ok(Put(Put(st, Entry(segment, tail), msg), SegmentTail(segment), tail + 1),
                      tail))

segment_len(segment, st) ==
  IF segment >= SEGMENTS THEN Err(st, "SegmentOutOfRange")
  ELSE Ok(st, TailOf(st, segment))

\* The tails of st added up; the code's running sum traps past MaxU64.
TailSum(st) == SumOver([s \in Segments |-> TailOf(st, s)], Segments)

total_len(st) == Require(TailSum(st) <= MaxU64, st, Ok(st, TailSum(st)))

\* No range check here: an entry no segment has is just not there.
get(segment, index, st) ==
  Ok(st, IF segment \in Segments THEN st[Entry(segment, index)] ELSE Absent)

segments(st) == Ok(st, SEGMENTS)

Calls ==
  [fn : {"append"}, segment : 0..SEGMENTS, msg : Messages]
    \cup [fn : {"segment_len"}, segment : 0..SEGMENTS]
    \cup [fn : {"get"}, segment : 0..SEGMENTS, index : Indices]
    \cup {[fn |-> "total_len"], [fn |-> "segments"]}

Invoke(c, st) ==
  CASE c.fn = "append"      -> append(c.segment, c.msg, st)
    [] c.fn = "segment_len" -> segment_len(c.segment, st)
    [] c.fn = "get"         -> get(c.segment, c.index, st)
    [] c.fn = "total_len"   -> total_len(st)
    [] c.fn = "segments"    -> segments(st)

\* The keys an append writes; which entry depends on the tail it finds.
AppendKeys(segment, st) ==
  IF segment >= SEGMENTS THEN {}
  ELSE {SegmentTail(segment), Entry(segment, TailOf(st, segment))}

Footprint(c, st) ==
  CASE c.fn = "append"      -> [reads |-> {}, writes |-> AppendKeys(c.segment, st)]
    [] c.fn = "segment_len" -> [reads |-> {SegmentTail(c.segment)} \cap Keys, writes |-> {}]
    [] c.fn = "get"         -> [reads |-> {Entry(c.segment, c.index)} \cap Keys, writes |-> {}]
    [] c.fn = "total_len"   -> [reads |-> Tails, writes |-> {}]
    [] c.fn = "segments"    -> [reads |-> {}, writes |-> {}]

------------------------------------------------------------------------------
\* The contract on its own: calls one after another.

Init == store = [k \in Keys |-> Absent]

Append(segment, msg) == store' = append(segment, msg, store).store

Next == \E segment \in 0..SEGMENTS, msg \in Messages : Append(segment, msg)

Spec == Init /\ [][Next]_store

------------------------------------------------------------------------------
\* Segment s by itself, its entries and tail named as in the naive log.
SegmentStore(s) ==
  [k \in {<<"Tail">>} \cup {<<"Entry", i>> : i \in Indices} |->
     IF k = <<"Tail">> THEN store[SegmentTail(s)] ELSE store[Entry(s, k[2])]]

Naive(s) == INSTANCE NaiveEventLog WITH store <- SegmentStore(s)

\* Each segment is a log in its own right, whatever the other segments do.
EachSegmentIsALog ==
  /\ \A s \in Segments : Naive(s)!Init
  /\ [][\A s \in Segments : [Naive(s)!Next]_(SegmentStore(s))]_store
==============================================================================
