---------------------------- MODULE EventLogProofs ---------------------------
(***************************************************************************)
(* The segmented log on the staged ledger, for every number of segments,   *)
(* messages, transactions and every width of a tail pointer: the contract  *)
(* whose footprints go out of date.                                        *)
(***************************************************************************)
EXTENDS MCSegmentedEventLog, SumsProofs

P == INSTANCE StagedLedgerProofs

\* No two of a segment's keys are the same, and neither are two segments'.
LEMMA KeysDiffer ==
  /\ \A s \in Segments : SegmentTail(s) \in Keys /\ SegmentTail(s) \in Tails
  /\ \A s \in Segments, i \in Indices : Entry(s, i) \in Keys /\ Entry(s, i) \in Entries
  /\ \A s, i : Entry(s, i) \notin Tails
  /\ \A s, r, i : SegmentTail(s) # Entry(r, i)
  /\ \A s, r : SegmentTail(s) = SegmentTail(r) => s = r
  /\ \A s, r, i, j : Entry(s, i) = Entry(r, j) => s = r /\ i = j
  /\ \A k \in Keys : \/ \E s \in Segments : k = SegmentTail(s)
                     \/ \E s \in Segments, i \in Indices : k = Entry(s, i)
  /\ \A s, i : Entry(s, i) \in Keys => s \in Segments /\ i \in Indices
  /\ \A s : SegmentTail(s) \in Keys => s \in Segments
<1>1. \A s, r, i : SegmentTail(s) # Entry(r, i)
  <2> SUFFICES ASSUME NEW s, NEW r, NEW i PROVE SegmentTail(s) # Entry(r, i)
    OBVIOUS
  <2>1. SegmentTail(s)[1] # Entry(r, i)[1]
    BY DEF SegmentTail, Entry
  <2> QED BY <2>1
<1>2. \A s, r : SegmentTail(s) = SegmentTail(r) => s = r
  BY DEF SegmentTail
<1>3. \A s, r, i, j : Entry(s, i) = Entry(r, j) => s = r /\ i = j
  BY DEF Entry
<1>4. \A s, i : Entry(s, i) \notin Tails
  BY <1>1 DEF Tails
<1>5. \A s, i : Entry(s, i) \in Keys => s \in Segments /\ i \in Indices
  BY <1>3, <1>4 DEF Keys, Entries
<1>6. \A s : SegmentTail(s) \in Keys => s \in Segments
  BY <1>1, <1>2 DEF Keys, Tails, Entries
<1> QED BY <1>1, <1>2, <1>3, <1>4, <1>5, <1>6 DEF Keys, Tails, Entries

\* What a store of this contract is.
WellTyped(st) ==
  /\ st = [k \in Keys |-> st[k]]
  /\ \A s \in Segments : st[SegmentTail(s)] \in (0..MaxU64) \cup {Absent}
  /\ \A s \in Segments, i \in Indices : st[Entry(s, i)] \in Messages \cup {Absent}

LEMMA StoresAre == \A st : st \in P!Stores <=> WellTyped(st)
<1>1. /\ \A s \in Segments : Values(SegmentTail(s)) = (0..MaxU64) \cup {Absent}
      /\ \A s \in Segments, i \in Indices : Values(Entry(s, i)) = Messages \cup {Absent}
  BY KeysDiffer DEF Values
<1>2. ASSUME NEW st \in P!Stores PROVE WellTyped(st)
  <2>1. st = [k \in Keys |-> st[k]] /\ \A k \in Keys : st[k] \in Values(k)
    BY DEF P!Stores, LedgerKeys, LedgerValues
  <2> QED BY <1>1, <2>1, KeysDiffer DEF WellTyped
<1>3. ASSUME NEW st, WellTyped(st) PROVE st \in P!Stores
  <2>1. st = [k \in Keys |-> st[k]]
    BY <1>3 DEF WellTyped
  <2>2. ASSUME NEW k \in Keys PROVE st[k] \in Values(k)
    <3>1. CASE \E s \in Segments : k = SegmentTail(s)
      <4>1. PICK s \in Segments : k = SegmentTail(s)
        BY <3>1
      <4>2. st[SegmentTail(s)] \in Values(SegmentTail(s))
        BY <1>1, <1>3 DEF WellTyped
      <4> QED BY <4>1, <4>2
    <3>2. CASE \E s \in Segments, i \in Indices : k = Entry(s, i)
      <4>1. PICK s \in Segments, i \in Indices : k = Entry(s, i)
        BY <3>2
      <4>2. st[Entry(s, i)] \in Values(Entry(s, i))
        BY <1>1, <1>3 DEF WellTyped
      <4> QED BY <4>1, <4>2
    <3> QED BY <3>1, <3>2, KeysDiffer
  <2>3. \A k \in Keys : st[k] \in UNION {Values(j) : j \in Keys}
    BY <2>2
  <2>4. st \in [Keys -> UNION {Values(j) : j \in Keys}]
    BY <2>1, <2>3
  <2> QED BY <2>2, <2>4 DEF P!Stores, LedgerKeys, LedgerValues
<1> QED BY <1>2, <1>3

\* A tail pointer is a number, and the tails add up to one.
LEMMA TailTyped ==
  ASSUME NEW st, WellTyped(st)
  PROVE  /\ \A s \in Segments : TailOf(st, s) \in 0..MaxU64
         /\ TailSum(st) \in Nat
<1>1. \A s \in Segments : TailOf(st, s) \in 0..MaxU64
  BY LogAssumption DEF WellTyped, TailOf, UnwrapOr
<1>2. IsFiniteSet(Segments) /\ Segments \in SUBSET Segments
  BY FS_Interval, LogAssumption DEF Segments
<1>3. [s \in Segments |-> TailOf(st, s)] \in [Segments -> Nat]
  BY <1>1, LogAssumption
<1>4. TailSum(st) \in Nat
  BY <1>2, <1>3, SumOverType DEF TailSum
<1> QED BY <1>1, <1>4

\* What an append to segment s does to a store.
LEMMA AppendRuns ==
  ASSUME NEW c \in LedgerCalls, c.fn = "append", c.segment \in Segments, NEW st, WellTyped(st)
  PROVE  LET s    == c.segment
             tail == TailOf(st, s)
             out  == Run(c, st)
         IN  /\ tail \in 0..MaxU64
             /\ WellTyped(out.store)
             /\ tail + 1 <= MaxU64 =>
                  /\ out.status = "ok" /\ out.value = tail
                  /\ tail \in Indices
                  /\ out.store[SegmentTail(s)] = tail + 1
                  /\ out.store[Entry(s, tail)] = c.msg
                  /\ \A k \in Keys \ {SegmentTail(s), Entry(s, tail)} : out.store[k] = st[k]
             /\ ~(tail + 1 <= MaxU64) => out.status = "trap" /\ out.value = Absent /\ out.store = st
<1> DEFINE s    == c.segment
           tail == TailOf(st, s)
           mid  == Put(st, Entry(s, tail), c.msg)
           end  == Put(mid, SegmentTail(s), tail + 1)
<1>1. tail \in 0..MaxU64 /\ ~(s >= SEGMENTS) /\ c.msg \in Messages
  BY TailTyped, LogAssumption DEF Segments, LedgerCalls, Calls
<1>2. Run(c, st) = IF tail + 1 <= MaxU64 THEN Ok(end, tail) ELSE Trap(st)
  BY <1>1 DEF Run, Invoke, append, Require
<1>3. CASE tail + 1 <= MaxU64
  <2>1. tail \in Indices
    BY <1>1, <1>3, LogAssumption DEF Indices
  <2>2. Entry(s, tail) \in Keys /\ SegmentTail(s) \in Keys /\ SegmentTail(s) # Entry(s, tail)
    BY <2>1, KeysDiffer
  <2> HIDE DEF tail
  <2>3. st = [k \in Keys |-> st[k]]
    BY DEF WellTyped
  <2>4. end = [k \in Keys |-> IF k = SegmentTail(s) THEN tail + 1
                              ELSE IF k = Entry(s, tail) THEN c.msg ELSE st[k]]
    BY <2>2, <2>3 DEF Put
  <2> HIDE DEF end
  <2>5. /\ end[SegmentTail(s)] = tail + 1 /\ end[Entry(s, tail)] = c.msg
        /\ \A k \in Keys \ {SegmentTail(s), Entry(s, tail)} : end[k] = st[k]
    BY <2>2, <2>4
  <2>6. WellTyped(end)
    <3>1. end = [k \in Keys |-> end[k]]
      BY <2>4
    <3>2. ASSUME NEW r \in Segments PROVE end[SegmentTail(r)] \in (0..MaxU64) \cup {Absent}
      <4>1. tail + 1 \in 0..MaxU64
        BY <1>1, <1>3, LogAssumption DEF tail
      <4>2. CASE r = s
        BY <2>5, <4>1, <4>2
      <4>3. CASE r # s
        <5>1. SegmentTail(r) \in Keys \ {SegmentTail(s), Entry(s, tail)}
          BY <4>3, KeysDiffer
        <5> QED BY <2>5, <5>1 DEF WellTyped
      <4> QED BY <4>2, <4>3
    <3>3. \A r \in Segments, i \in Indices : end[Entry(r, i)] \in Messages \cup {Absent}
      BY <1>1, <2>4, KeysDiffer DEF WellTyped
    <3> QED BY <3>1, <3>2, <3>3 DEF WellTyped
  <2> QED BY <1>1, <1>2, <1>3, <2>1, <2>5, <2>6 DEF Ok, tail
<1>4. CASE ~(tail + 1 <= MaxU64)
  BY <1>1, <1>2, <1>4 DEF Trap
<1> QED BY <1>3, <1>4

\* All other calls write nothing.
LEMMA OthersRun ==
  ASSUME NEW c \in LedgerCalls, ~(c.fn = "append" /\ c.segment \in Segments), NEW st
  PROVE  Run(c, st).store = st /\ (c.fn = "append" => Run(c, st).status = "err")
<1>1. CASE c.fn = "append"
  <2>1. c.segment >= SEGMENTS
    BY <1>1, LogAssumption DEF LedgerCalls, Calls, Segments
  <2> QED BY <1>1, <2>1 DEF Run, Invoke, append, Err
<1>2. CASE c.fn = "segment_len"
  BY <1>2 DEF Run, Invoke, segment_len, Err, Ok
<1>3. CASE c.fn = "get"
  BY <1>3 DEF Run, Invoke, get, Ok
<1>4. CASE c.fn = "total_len"
  BY <1>4 DEF Run, Invoke, total_len, Require, Trap, Ok
<1>5. CASE c.fn = "segments"
  BY <1>5 DEF Run, Invoke, segments, Ok
<1> QED BY <1>1, <1>2, <1>3, <1>4, <1>5 DEF LedgerCalls, Calls

\* Each call's footprint is sound.  An append's may name an entry that is taken
\* by the time it runs: then the append does not stay inside it.
LEMMA SoundCall ==
  ASSUME NEW c \in LedgerCalls, NEW s0 \in P!Stores, NEW st \in P!Stores
  PROVE  P!SoundOn(c, FootprintOf(c, s0), st)
<1> DEFINE f == FootprintOf(c, s0)
           v == P!Visible(st, f)
<1>1. WellTyped(st) /\ WellTyped(s0)
  BY StoresAre
<1>2. \A k \in Keys : v[k] = IF k \in P!Touched(f) THEN st[k] ELSE Absent
  BY DEF P!Visible, LedgerKeys
<1>3. WellTyped(v)
  <2>1. v = [k \in Keys |-> v[k]]
    BY DEF P!Visible, LedgerKeys
  <2> HIDE DEF v
  <2> QED BY <1>1, <1>2, <2>1, KeysDiffer DEF WellTyped
<1>4. f \in P!Footprints
  <2>1. CASE c.fn = "append" /\ c.segment \in Segments
    <3>1. TailOf(s0, c.segment) \in Indices
      BY <1>1, <2>1, TailTyped DEF Indices
    <3> QED
      BY <2>1, <3>1, KeysDiffer DEF FootprintOf, Footprint, AppendKeys, P!Footprints, LedgerKeys
  <2>2. CASE c.fn = "append" /\ c.segment \notin Segments
    <3>1. c.segment >= SEGMENTS
      BY <2>2, LogAssumption DEF LedgerCalls, Calls, Segments
    <3> QED BY <2>2, <3>1 DEF FootprintOf, Footprint, AppendKeys, P!Footprints
  <2>3. CASE c.fn # "append"
    BY <2>3 DEF LedgerCalls, Calls, FootprintOf, Footprint, P!Footprints, LedgerKeys, Keys
  <2> QED BY <2>1, <2>2, <2>3
<1>5. v \in P!Stores
  BY <1>3, StoresAre
<1>6. CASE c.fn = "append" /\ c.segment \in Segments
  <2> DEFINE seg  == c.segment
             tail == TailOf(st, seg)
  <2>1. f.writes = {SegmentTail(seg), Entry(seg, TailOf(s0, seg))} /\ f.reads = {}
    BY <1>6, LogAssumption DEF FootprintOf, Footprint, AppendKeys, Segments
  <2>2. SegmentTail(seg) \in f.writes
    BY <1>6, <2>1, KeysDiffer
  <2> HIDE DEF f, v
  <2>3. v[SegmentTail(seg)] = st[SegmentTail(seg)]
    BY <1>2, <1>6, <2>2, KeysDiffer DEF P!Touched
  <2>4. TailOf(v, seg) = tail
    BY <2>3 DEF TailOf, UnwrapOr
  <2>5. Run(c, v).store \in P!Stores /\ Run(c, st).store \in P!Stores
    BY <1>1, <1>3, <1>6, AppendRuns, StoresAre
  <2>6. CASE P!Covers(f, c, v) /\ tail + 1 <= MaxU64
    <3>1. /\ tail \in Indices
          /\ Run(c, v).status = Run(c, st).status /\ Run(c, v).value = Run(c, st).value
          /\ Run(c, v).store[SegmentTail(seg)] = Run(c, st).store[SegmentTail(seg)]
          /\ Run(c, v).store[Entry(seg, tail)] = Run(c, st).store[Entry(seg, tail)]
          /\ \A k \in Keys \ {SegmentTail(seg), Entry(seg, tail)} : Run(c, st).store[k] = st[k]
      BY <1>1, <1>3, <1>6, <2>4, <2>6, AppendRuns
    <3>2. f.writes = {SegmentTail(seg), Entry(seg, tail)}
      <4>1. Entry(seg, tail) \in AppendKeys(seg, v)
        BY <1>6, <2>4, <3>1, KeysDiffer, LogAssumption DEF AppendKeys, Segments
      <4>2. Entry(seg, tail) \in f.writes
        BY <1>6, <2>6, <4>1 DEF P!Covers, FootprintOf, Footprint
      <4> QED BY <2>1, <2>2, <4>2, KeysDiffer
    <3>3. \A k \in f.writes : Run(c, v).store[k] = Run(c, st).store[k]
      BY <3>1, <3>2
    <3>4. \A k \in LedgerKeys \ f.writes : Run(c, st).store[k] = st[k]
      BY <3>1, <3>2 DEF LedgerKeys
    <3> QED BY <1>4, <2>5, <3>1, <3>3, <3>4, P!SoundWhen DEF v, f
  <2>7. CASE ~P!Covers(f, c, v)
    BY <1>4, <2>5, <2>7 DEF P!SoundOn, v, f
  <2>8. CASE ~(tail + 1 <= MaxU64)
    <3>1. /\ Run(c, v).status = Run(c, st).status /\ Run(c, v).value = Run(c, st).value
          /\ Run(c, v).store = v /\ Run(c, st).store = st
      BY <1>1, <1>3, <1>6, <2>4, <2>8, AppendRuns
    <3>2. \A k \in f.writes : v[k] = st[k]
      <4>1. f.writes \subseteq Keys
        BY <1>4 DEF P!Footprints, LedgerKeys
      <4> QED BY <1>2, <4>1 DEF P!Touched
    <3> QED BY <1>4, <2>5, <3>1, <3>2, P!SoundWhen DEF v, f
  <2> QED BY <2>6, <2>7, <2>8
<1>7. CASE ~(c.fn = "append" /\ c.segment \in Segments)
  <2>1. Run(c, v).store = v /\ Run(c, st).store = st
    BY <1>7, OthersRun
  <2>2. f.writes = {}
    <3>1. c.fn = "append" => c.segment >= SEGMENTS
      BY <1>7, LogAssumption DEF LedgerCalls, Calls, Segments
    <3> QED BY <3>1 DEF LedgerCalls, Calls, FootprintOf, Footprint, AppendKeys
  <2>3. Run(c, v).status = Run(c, st).status /\ Run(c, v).value = Run(c, st).value
    <3>1. CASE c.fn = "append"
      <4>1. c.segment >= SEGMENTS
        BY <1>7, <3>1, LogAssumption DEF LedgerCalls, Calls, Segments
      <4> QED BY <3>1, <4>1 DEF Run, Invoke, append, Err
    <3>2. CASE c.fn = "segment_len"
      <4>1. CASE c.segment >= SEGMENTS
        BY <3>2, <4>1 DEF Run, Invoke, segment_len, Err
      <4>2. CASE ~(c.segment >= SEGMENTS)
        <5>1. c.segment \in Segments
          BY <3>2, <4>2, LogAssumption DEF LedgerCalls, Calls, Segments
        <5>2. SegmentTail(c.segment) \in Keys /\ f.reads = {SegmentTail(c.segment)}
          BY <3>2, <5>1, KeysDiffer DEF FootprintOf, Footprint
        <5>3. v[SegmentTail(c.segment)] = st[SegmentTail(c.segment)]
          BY <1>2, <5>2 DEF P!Touched
        <5>4. TailOf(v, c.segment) = TailOf(st, c.segment)
          BY <5>3 DEF TailOf, UnwrapOr
        <5> QED BY <3>2, <4>2, <5>4 DEF Run, Invoke, segment_len, Ok
      <4> QED BY <4>1, <4>2
    <3>3. CASE c.fn = "get"
      <4>1. CASE c.segment \in Segments
        <5>1. Entry(c.segment, c.index) \in Keys /\ f.reads = {Entry(c.segment, c.index)}
          BY <3>3, <4>1, KeysDiffer DEF LedgerCalls, Calls, FootprintOf, Footprint
        <5>2. v[Entry(c.segment, c.index)] = st[Entry(c.segment, c.index)]
          BY <1>2, <5>1 DEF P!Touched
        <5> QED BY <3>3, <4>1, <5>2 DEF Run, Invoke, get, Ok
      <4>2. CASE c.segment \notin Segments
        BY <3>3, <4>2 DEF Run, Invoke, get, Ok
      <4> QED BY <4>1, <4>2
    <3>4. CASE c.fn = "total_len"
      <4>1. f.reads = Tails
        BY <3>4 DEF FootprintOf, Footprint
      <4>2. \A s \in Segments : v[SegmentTail(s)] = st[SegmentTail(s)]
        BY <1>2, <4>1, KeysDiffer DEF P!Touched
      <4>3. \A s \in Segments : TailOf(v, s) = TailOf(st, s)
        BY <4>2 DEF TailOf, UnwrapOr
      <4>4. TailSum(v) = TailSum(st)
        <5>1. [s \in Segments |-> TailOf(v, s)] = [s \in Segments |-> TailOf(st, s)]
          BY <4>3
        <5> QED BY <5>1 DEF TailSum
      <4> QED BY <3>4, <4>4 DEF Run, Invoke, total_len, Require, Ok, Trap
    <3>5. CASE c.fn = "segments"
      BY <3>5 DEF Run, Invoke, segments, Ok
    <3> QED BY <3>1, <3>2, <3>3, <3>4, <3>5 DEF LedgerCalls, Calls
  <2> HIDE DEF f, v
  <2> QED BY <1>4, <1>5, <2>1, <2>2, <2>3, P!SoundWhen DEF f, v
<1> QED BY <1>6, <1>7

LEMMA FootprintsSound == P!LedgerAssumption
<1>1. \A k \in LedgerKeys : Absent \in LedgerValues(k)
  BY DEF LedgerValues, Values
<1> QED BY <1>1, SoundCall DEF P!LedgerAssumption, P!FootprintSound

------------------------------------------------------------------------------
\* The module's ledger is the one StagedLedgerProofs is about.
LEMMA SameStep == [L!Next]_(L!vars) => [P!Next]_(P!vars)
BY Zenon DEF L!vars, P!vars, L!Next, P!Next, L!Submit, P!Submit, L!Resubmit, P!Resubmit,
   L!OpenStage, P!OpenStage, L!Load, P!Load, L!Commit, P!Commit, L!Reject, P!Reject,
   L!InStage, P!InStage, L!Conflict, P!Conflict, L!Touched, P!Touched, L!Visible, P!Visible,
   L!Covers, P!Covers, L!WriteBack, P!WriteBack, L!ReceiptOf, P!ReceiptOf,
   L!EmptyStore, P!EmptyStore, L!NoKeys, P!NoKeys

LEMMA SameLedger == LedgerSpec => P!Spec
<1>1. L!Init => P!Init
  BY DEF L!Init, P!Init, L!EmptyStore, P!EmptyStore, L!NoKeys, P!NoKeys
<1> QED BY <1>1, SameStep, PTL DEF LedgerSpec, L!Spec, P!Spec

\* ... and so is the serial ledger it implements.
LEMMA SameSerial == P!SerialSpec => SerialSpec
<1>1. P!Serial!Init => L!Serial!Init
  BY DEF L!Serial!Init, P!Serial!Init
<1>2. [P!Serial!Next]_(P!Serial!vars) => [L!Serial!Next]_(L!Serial!vars)
  BY Zenon DEF L!Serial!vars, P!Serial!vars, L!Serial!Next, P!Serial!Next,
     L!Serial!Execute, P!Serial!Execute, L!Serial!ReceiptOf, P!Serial!ReceiptOf
<1> QED BY <1>1, <1>2, PTL
        DEF SerialSpec, L!SerialSpec, P!SerialSpec, L!Serial!Spec, P!Serial!Spec

\* Out-of-date footprints and retries do not show: the log's receipts and
\* entries are those of calls run one after another.
THEOREM LogIsSerial == LedgerSpec => SerialSpec
BY FootprintsSound, SameLedger, SameSerial, P!StagedIsSerial

------------------------------------------------------------------------------
\* Every outcome is a store and a receipt.
LEMMA RunTyped ==
  ASSUME NEW c \in LedgerCalls, NEW st, WellTyped(st)
  PROVE  /\ WellTyped(Run(c, st).store)
         /\ P!Serial!ReceiptOf(c, Run(c, st)) \in Receipts
         /\ P!Serial!ReceiptOf(c, Run(c, st)) # Absent
<1>1. WellTyped(Run(c, st).store)
  BY AppendRuns, OthersRun
<1>2. /\ Run(c, st).status \in {"ok", "err", "trap"}
      /\ Run(c, st).value \in Int \cup Messages \cup {Absent, "SegmentOutOfRange"}
  <2>1. \A s \in Segments : TailOf(st, s) \in Int
    BY TailTyped, LogAssumption
  <2>2. CASE c.fn \in {"append", "segment_len"}
    <3>1. CASE c.segment >= SEGMENTS
      BY <2>2, <3>1 DEF Run, Invoke, append, segment_len, Err
    <3>2. CASE ~(c.segment >= SEGMENTS)
      <4>1. c.segment \in Segments
        BY <2>2, <3>2, LogAssumption DEF LedgerCalls, Calls, Segments
      <4> QED BY <2>1, <2>2, <3>2, <4>1 DEF Run, Invoke, append, segment_len, Require, Ok, Trap
    <3> QED BY <3>1, <3>2
  <2>3. CASE c.fn = "get"
    <3>1. c.index \in Indices
      BY <2>3 DEF LedgerCalls, Calls
    <3> QED BY <2>3, <3>1 DEF Run, Invoke, get, Ok, WellTyped
  <2>4. CASE c.fn = "total_len"
    BY <2>4, TailTyped DEF Run, Invoke, total_len, Require, Ok, Trap
  <2>5. CASE c.fn = "segments"
    BY <2>5, LogAssumption DEF Run, Invoke, segments, Ok
  <2> QED BY <2>2, <2>3, <2>4, <2>5 DEF LedgerCalls, Calls
<1>3. P!Serial!ReceiptOf(c, Run(c, st)) \in Receipts
  BY <1>2 DEF P!Serial!ReceiptOf, Receipts
<1> QED BY <1>1, <1>3, ReceiptAssumption

\* Whoever was told an index was told one below its segment's tail.
ToldBelowTail ==
  \A t \in Appended :
    LET s == receipt[t].call.segment
    IN  s \in Segments /\ receipt[t].value \in Indices /\ receipt[t].value < TailOf(store, s)

\* What every serial step preserves.
LogInv ==
  /\ WellTyped(store)
  /\ receipt \in [Txs -> Receipts \cup {Absent}]
  /\ ToldBelowTail
  /\ LogIsWhatWasAppended

LEMMA InitLogInv == P!Serial!Init => LogInv
<1> SUFFICES ASSUME P!Serial!Init PROVE LogInv
  OBVIOUS
<1>1. store = [k \in Keys |-> Absent] /\ receipt = [t \in Txs |-> Absent]
  BY DEF P!Serial!Init, LedgerKeys
<1>2. WellTyped(store)
  BY <1>1, KeysDiffer DEF WellTyped
<1>3. Appended = {}
  BY <1>1 DEF Appended
<1>4. \A s \in Segments, i \in Indices : store[Entry(s, i)] = Absent
  BY <1>1, KeysDiffer
<1>5. \A s \in Segments : TailOf(store, s) = 0
  BY <1>1, KeysDiffer DEF TailOf, UnwrapOr
<1>6. \A i \in Indices : ~(i < 0)
  BY LogAssumption DEF Indices
<1>7. LogIsWhatWasAppended
  BY <1>3, <1>4, <1>5, <1>6 DEF LogIsWhatWasAppended
<1> QED BY <1>1, <1>2, <1>3, <1>7 DEF LogInv, ToldBelowTail

\* What one execution does to the receipts.
LEMMA ExecuteReceipts ==
  ASSUME LogInv, NEW t \in Txs, NEW c \in LedgerCalls, P!Serial!Execute(t, c)
  PROVE  LET out == Run(c, store)
         IN  /\ receipt[t] = Absent /\ receipt'[t] # Absent
             /\ receipt'[t].call = c
             /\ receipt'[t].status = out.status /\ receipt'[t].value = out.value
             /\ store' = out.store
             /\ receipt' \in [Txs -> Receipts \cup {Absent}]
             /\ \A u \in Txs \ {t} : receipt'[u] = receipt[u]
             /\ t \notin Appended
             /\ Appended' = IF c.fn = "append" /\ out.status = "ok"
                            THEN Appended \cup {t} ELSE Appended
             /\ \A u \in Appended : receipt'[u] = receipt[u] /\ EntryOf(u)' = EntryOf(u)
<1> DEFINE out == Run(c, store)
           r   == P!Serial!ReceiptOf(c, out)
<1>1. /\ r \in Receipts /\ r # Absent
      /\ r.call = c /\ r.status = out.status /\ r.value = out.value
  BY RunTyped DEF LogInv, P!Serial!ReceiptOf
<1>2. receipt[t] = Absent /\ receipt' = [receipt EXCEPT ![t] = r] /\ store' = out.store
  BY DEF P!Serial!Execute
<1>3. receipt \in [Txs -> Receipts \cup {Absent}]
  BY DEF LogInv
<1> HIDE DEF r, out
<1>4. /\ receipt'[t] = r /\ \A u \in Txs \ {t} : receipt'[u] = receipt[u]
      /\ receipt' \in [Txs -> Receipts \cup {Absent}]
  BY <1>1, <1>2, <1>3
<1>5. t \notin Appended /\ Appended \subseteq Txs /\ Appended' \subseteq Txs
  BY <1>2 DEF Appended
<1>6. ASSUME NEW u \in Txs
      PROVE  u \in Appended' <=> \/ u \in Appended
                                 \/ u = t /\ c.fn = "append" /\ out.status = "ok"
  <2>1. CASE u = t
    BY <1>1, <1>4, <1>5, <2>1 DEF Appended
  <2>2. CASE u # t
    <3>1. receipt'[u] = receipt[u]
      BY <1>4, <2>2
    <3> QED BY <2>2, <3>1 DEF Appended
  <2> QED BY <2>1, <2>2
<1>7. Appended' = IF c.fn = "append" /\ out.status = "ok" THEN Appended \cup {t} ELSE Appended
  <2> DEFINE D == Appended
             E == Appended'
  <2>1. D \subseteq Txs /\ E \subseteq Txs
    BY <1>5
  <2>2. \A u \in Txs : u \in E <=> u \in D \/ (u = t /\ c.fn = "append" /\ out.status = "ok")
    BY <1>6
  <2> HIDE DEF D, E
  <2>3. E = IF c.fn = "append" /\ out.status = "ok" THEN D \cup {t} ELSE D
    BY <2>1, <2>2
  <2> QED BY <2>3 DEF D, E
<1>8. \A u \in Appended : receipt'[u] = receipt[u] /\ EntryOf(u)' = EntryOf(u)
  BY <1>4, <1>5 DEF EntryOf
<1> QED BY <1>1, <1>2, <1>4, <1>5, <1>7, <1>8 DEF out

\* An append that goes through: the next free entry, and the tail past it.
LEMMA AppendSteps ==
  ASSUME LogInv, NEW t \in Txs, NEW c \in LedgerCalls, P!Serial!Execute(t, c), store' # store
  PROVE  LET s == c.segment
             i == TailOf(store, s)
         IN  /\ c.fn = "append" /\ Run(c, store).status = "ok" /\ Run(c, store).value = i
             /\ s \in Segments /\ i \in Indices /\ c.msg \in Messages
             /\ i \in Nat /\ i + 1 <= MaxU64
             /\ store'[SegmentTail(s)] = i + 1 /\ store'[Entry(s, i)] = c.msg
             /\ \A k \in Keys \ {SegmentTail(s), Entry(s, i)} : store'[k] = store[k]
             /\ TailOf(store', s) = i + 1
             /\ \A r \in Segments \ {s} : TailOf(store', r) = TailOf(store, r)
<1> DEFINE s == c.segment
           i == TailOf(store, s)
<1>1. store' = Run(c, store).store /\ WellTyped(store)
  BY DEF LogInv, P!Serial!Execute
<1>2. c.fn = "append" /\ s \in Segments
  BY <1>1, OthersRun
<1>3. i \in 0..MaxU64 /\ i + 1 <= MaxU64
  BY <1>1, <1>2, AppendRuns
<1>4. /\ Run(c, store).status = "ok" /\ Run(c, store).value = i
      /\ i \in Indices
      /\ store'[SegmentTail(s)] = i + 1 /\ store'[Entry(s, i)] = c.msg
      /\ \A k \in Keys \ {SegmentTail(s), Entry(s, i)} : store'[k] = store[k]
  BY <1>1, <1>2, <1>3, AppendRuns
<1>5. c.msg \in Messages
  BY <1>2 DEF LedgerCalls, Calls
<1>6. TailOf(store', s) = i + 1
  BY <1>3, <1>4, AbsentAssumption DEF TailOf, UnwrapOr
<1>7. \A r \in Segments \ {s} : store'[SegmentTail(r)] = store[SegmentTail(r)]
  BY <1>2, <1>4, KeysDiffer
<1>8. \A r \in Segments \ {s} : TailOf(store', r) = TailOf(store, r)
  BY <1>7 DEF TailOf, UnwrapOr
<1> QED BY <1>2, <1>3, <1>4, <1>5, <1>6, <1>8

\* Other calls, and appends that fail, are not among those told an index.
LEMMA NothingAppended ==
  ASSUME LogInv, NEW t \in Txs, NEW c \in LedgerCalls, P!Serial!Execute(t, c), store' = store
  PROVE  ~(c.fn = "append" /\ Run(c, store).status = "ok")
<1> SUFFICES ASSUME c.fn = "append", Run(c, store).status = "ok" PROVE FALSE
  OBVIOUS
<1>1. c.segment \in Segments
  BY OthersRun
<1>2. store' = Run(c, store).store /\ WellTyped(store)
  BY DEF LogInv, P!Serial!Execute
<1>3. TailOf(store, c.segment) + 1 <= MaxU64 /\ TailOf(store, c.segment) \in 0..MaxU64
  BY <1>1, <1>2, AppendRuns
<1>4. store[SegmentTail(c.segment)] = TailOf(store, c.segment) + 1
  BY <1>1, <1>2, <1>3, AppendRuns
<1> QED BY <1>3, <1>4, AbsentAssumption, LogAssumption DEF TailOf, UnwrapOr

LEMMA NextLogInv == LogInv /\ [P!Serial!Next]_(P!Serial!vars) => LogInv'
<1> SUFFICES ASSUME LogInv, [P!Serial!Next]_(P!Serial!vars) PROVE LogInv'
  OBVIOUS
<1>1. ASSUME NEW t \in Txs, NEW c \in LedgerCalls, P!Serial!Execute(t, c), store' # store
      PROVE  LogInv'
  <2> DEFINE s == c.segment
             i == TailOf(store, s)
  <2>1. /\ c.fn = "append" /\ Run(c, store).status = "ok" /\ Run(c, store).value = i
        /\ s \in Segments /\ i \in Indices /\ c.msg \in Messages /\ i \in Nat
        /\ store'[Entry(s, i)] = c.msg
        /\ \A k \in Keys \ {SegmentTail(s), Entry(s, i)} : store'[k] = store[k]
        /\ TailOf(store', s) = i + 1
        /\ \A r \in Segments \ {s} : TailOf(store', r) = TailOf(store, r)
    BY <1>1, AppendSteps
  <2>2. /\ Appended' = Appended \cup {t} /\ t \notin Appended
        /\ receipt' \in [Txs -> Receipts \cup {Absent}]
        /\ receipt'[t].call = c /\ receipt'[t].value = i
        /\ \A u \in Appended : receipt'[u] = receipt[u] /\ EntryOf(u)' = EntryOf(u)
    BY <1>1, <2>1, ExecuteReceipts
  <2>3. WellTyped(store')
    BY <1>1, RunTyped, ExecuteReceipts DEF LogInv
  <2>4. EntryOf(t)' = Entry(s, i)
    BY <2>2 DEF EntryOf
  <2>5. ASSUME NEW u \in Appended
        PROVE  /\ EntryOf(u) \in Keys \ {SegmentTail(s), Entry(s, i)}
               /\ store'[EntryOf(u)] = receipt[u].call.msg
    <3>1. /\ receipt[u].call.segment \in Segments /\ receipt[u].value \in Indices
          /\ receipt[u].value < TailOf(store, receipt[u].call.segment)
          /\ store[EntryOf(u)] = receipt[u].call.msg
      BY DEF LogInv, ToldBelowTail, LogIsWhatWasAppended
    <3>2. receipt[u].value \in Int
      BY <3>1, LogAssumption DEF Indices
    <3>3. EntryOf(u) # Entry(s, i)
      BY <2>1, <3>1, <3>2, KeysDiffer DEF EntryOf
    <3> QED BY <2>1, <3>1, <3>3, KeysDiffer DEF EntryOf
  <2> HIDE DEF i, s
  <2>6. ToldBelowTail'
    <3> SUFFICES ASSUME NEW u \in Appended'
                 PROVE  /\ receipt'[u].call.segment \in Segments /\ receipt'[u].value \in Indices
                        /\ receipt'[u].value < TailOf(store', receipt'[u].call.segment)
      BY DEF ToldBelowTail
    <3>1. CASE u = t
      BY <2>1, <2>2, <3>1 DEF s
    <3>2. CASE u # t
      <4>1. u \in Appended /\ receipt'[u] = receipt[u]
        BY <2>2, <3>2
      <4>2. /\ receipt[u].call.segment \in Segments /\ receipt[u].value \in Indices
            /\ receipt[u].value < TailOf(store, receipt[u].call.segment)
        BY <4>1 DEF LogInv, ToldBelowTail
      <4>3. receipt[u].value \in Int
        BY <4>2, LogAssumption DEF Indices
      <4> QED BY <2>1, <4>1, <4>2, <4>3 DEF i
    <3> QED BY <3>1, <3>2
  <2>7. \A u \in Appended' : store'[EntryOf(u)'] = receipt'[u].call.msg
    BY <2>1, <2>2, <2>4, <2>5
  <2>8. \A u, w \in Appended' : u # w => EntryOf(u)' # EntryOf(w)'
    <3>1. \A u, w \in Appended : u # w => EntryOf(u) # EntryOf(w)
      BY DEF LogInv, LogIsWhatWasAppended
    <3> QED BY <2>2, <2>4, <2>5, <3>1
  <2>9. ASSUME NEW r \in Segments, NEW j \in Indices
        PROVE  /\ store'[Entry(r, j)] # Absent <=> j < TailOf(store', r)
               /\ store'[Entry(r, j)] # Absent => \E u \in Appended' : EntryOf(u)' = Entry(r, j)
    <3>1. /\ store[Entry(r, j)] # Absent <=> j < TailOf(store, r)
          /\ store[Entry(r, j)] # Absent => \E u \in Appended : EntryOf(u) = Entry(r, j)
      BY DEF LogInv, LogIsWhatWasAppended
    <3>2. CASE r = s /\ j = i
      <4>1. store'[Entry(r, j)] # Absent
        BY <2>1, <3>2, LogAssumption
      <4> QED BY <2>1, <2>2, <2>4, <3>2, <4>1
    <3>3. CASE ~(r = s /\ j = i)
      <4>1. store'[Entry(r, j)] = store[Entry(r, j)]
        BY <2>1, <3>3, KeysDiffer
      <4>2. j < TailOf(store', r) <=> j < TailOf(store, r)
        <5>1. j \in Int
          BY LogAssumption DEF Indices
        <5>2. CASE r = s
          BY <2>1, <3>3, <5>1, <5>2 DEF i
        <5>3. CASE r # s
          BY <2>1, <5>3
        <5> QED BY <5>2, <5>3
      <4> QED BY <2>2, <3>1, <4>1, <4>2
    <3> QED BY <3>2, <3>3
  <2>10. LogIsWhatWasAppended'
    BY <2>7, <2>8, <2>9 DEF LogIsWhatWasAppended
  <2> QED BY <2>2, <2>3, <2>6, <2>10 DEF LogInv
<1>2. ASSUME NEW t \in Txs, NEW c \in LedgerCalls, P!Serial!Execute(t, c), store' = store
      PROVE  LogInv'
  <2>1. /\ Appended' = Appended /\ receipt' \in [Txs -> Receipts \cup {Absent}]
        /\ \A u \in Appended : receipt'[u] = receipt[u] /\ EntryOf(u)' = EntryOf(u)
    BY <1>2, ExecuteReceipts, NothingAppended
  <2>2. ToldBelowTail'
    BY <1>2, <2>1 DEF LogInv, ToldBelowTail
  <2>3. LogIsWhatWasAppended'
    <3>1. /\ \A u \in Appended : store[EntryOf(u)] = receipt[u].call.msg
          /\ \A u, w \in Appended : u # w => EntryOf(u) # EntryOf(w)
          /\ \A s \in Segments, i \in Indices :
               /\ store[Entry(s, i)] # Absent <=> i < TailOf(store, s)
               /\ store[Entry(s, i)] # Absent => \E u \in Appended : EntryOf(u) = Entry(s, i)
      BY DEF LogInv, LogIsWhatWasAppended
    <3> QED BY <1>2, <2>1, <3>1 DEF LogIsWhatWasAppended
  <2> QED BY <1>2, <2>1, <2>2, <2>3 DEF LogInv
<1>3. CASE UNCHANGED P!Serial!vars
  BY <1>3 DEF P!Serial!vars, LogInv, ToldBelowTail, LogIsWhatWasAppended, Appended, EntryOf
<1> QED BY <1>1, <1>2, <1>3 DEF P!Serial!Next

LEMMA SerialLedgerSpec == LedgerSpec => P!SerialSpec
BY FootprintsSound, SameLedger, P!StagedIsSerial

\* What is known of store and receipts in every reachable state.
THEOREM Invariant == LedgerSpec => []LogInv
BY SerialLedgerSpec, InitLogInv, NextLogInv, PTL DEF P!SerialSpec, P!Serial!Spec

\* Every append that was told an index has its message there, alone, and the
\* log holds nothing else.
THEOREM AppendsAreTheLog == LedgerSpec => []LogIsWhatWasAppended
BY Invariant, PTL DEF LogInv

------------------------------------------------------------------------------
\* A step that changes the store writes one entry that nobody had.
LEMMA StepKeepsEntries == LogInv /\ [P!Serial!Next]_(P!Serial!vars) => [EntriesStay]_store
<1> SUFFICES ASSUME LogInv, [P!Serial!Next]_(P!Serial!vars), store' # store,
                    NEW e \in Entries, store[e] # Absent
             PROVE  store'[e] = store[e]
  BY DEF EntriesStay
<1>1. PICK t \in Txs, c \in LedgerCalls : P!Serial!Execute(t, c)
  BY DEF P!Serial!Next, P!Serial!vars
<1>2. PICK s \in Segments, i \in Indices :
        /\ i = TailOf(store, s)
        /\ \A k \in Keys \ {SegmentTail(s), Entry(s, i)} : store'[k] = store[k]
  BY <1>1, AppendSteps
<1>3. ~(i < TailOf(store, s))
  BY <1>2, LogAssumption DEF Indices
<1>4. e # Entry(s, i)
  BY <1>3 DEF LogInv, LogIsWhatWasAppended
<1> QED BY <1>2, <1>4, KeysDiffer DEF Keys, Entries

\* An entry, once readable, never changes.
THEOREM EntriesFinal == LedgerSpec => EntriesAreFinal
BY SerialLedgerSpec, Invariant, StepKeepsEntries, PTL
   DEF EntriesAreFinal, P!SerialSpec, P!Serial!Spec

------------------------------------------------------------------------------
\* An append to a segment is an append to the naive log it stands for; to the
\* others it is nothing.
LEMMA StepIsNaive ==
  LogInv /\ [P!Serial!Next]_(P!Serial!vars)
    => [\A s \in Segments : [Naive(s)!Next]_(SegmentStore(s))]_store
<1> SUFFICES ASSUME LogInv, [P!Serial!Next]_(P!Serial!vars), store' # store,
                    NEW r \in Segments
             PROVE  Naive(r)!Next \/ SegmentStore(r)' = SegmentStore(r)
  OBVIOUS
<1>1. PICK t \in Txs, c \in LedgerCalls : P!Serial!Execute(t, c)
  BY DEF P!Serial!Next, P!Serial!vars
<1> DEFINE s == c.segment
           i == TailOf(store, s)
<1>2. /\ s \in Segments /\ i \in Indices /\ c.msg \in Messages
      /\ i \in Nat /\ i + 1 <= MaxU64
      /\ store'[SegmentTail(s)] = i + 1 /\ store'[Entry(s, i)] = c.msg
      /\ \A k \in Keys \ {SegmentTail(s), Entry(s, i)} : store'[k] = store[k]
  BY <1>1, AppendSteps
<1>3. CASE r # s
  <2>1. /\ store'[SegmentTail(r)] = store[SegmentTail(r)]
        /\ \A j \in Indices : store'[Entry(r, j)] = store[Entry(r, j)]
    BY <1>2, <1>3, KeysDiffer
  <2> QED BY <2>1 DEF SegmentStore
<1>4. CASE r = s
  <2> DEFINE keys == {<<"Tail">>} \cup {<<"Entry", j>> : j \in Indices}
             log  == SegmentStore(r)
  <2>1. /\ log = [k \in keys |-> log[k]]
        /\ log[<<"Tail">>] = store[SegmentTail(r)]
        /\ \A j \in Indices : log[<<"Entry", j>>] = store[Entry(r, j)]
    BY DEF SegmentStore
  <2>2. UnwrapOr(log, <<"Tail">>, 0) = i
    BY <1>4, <2>1 DEF UnwrapOr, TailOf
  <2>3. log' = [k \in keys |-> IF k = <<"Tail">> THEN i + 1
                               ELSE IF k = <<"Entry", i>> THEN c.msg ELSE log[k]]
    <3>1. \A j \in Indices : j # i => store'[Entry(r, j)] = store[Entry(r, j)]
      BY <1>2, <1>4, KeysDiffer
    <3> QED BY <1>2, <1>4, <2>1, <3>1 DEF SegmentStore
  <2> HIDE DEF log, i
  <2>4. log' = [[log EXCEPT ![<<"Entry", i>>] = c.msg] EXCEPT ![<<"Tail">>] = i + 1]
    BY <1>2, <2>1, <2>3
  <2>5. Naive(r)!append(c.msg, log).store = log'
    BY <1>2, <2>2, <2>4
       DEF Naive!append, Naive!Require, Naive!Ok, Naive!Put, Naive!UnwrapOr, UnwrapOr,
           Naive!Tail, Naive!Entry
  <2> QED BY <1>2, <2>5 DEF Naive!Next, Naive!Append, log
<1> QED BY <1>3, <1>4

\* Each segment is a log in its own right, whatever the other segments do.
THEOREM SegmentsIndependent == LedgerSpec => SegmentsAreLogs
<1>1. P!Serial!Init => \A s \in Segments : Naive(s)!Init
  <2> SUFFICES ASSUME P!Serial!Init, NEW s \in Segments PROVE Naive(s)!Init
    OBVIOUS
  <2>1. /\ store[SegmentTail(s)] = Absent
        /\ \A i \in Indices : store[Entry(s, i)] = Absent
    BY KeysDiffer DEF P!Serial!Init, LedgerKeys
  <2>2. SegmentStore(s) = [k \in {<<"Tail">>} \cup {<<"Entry", i>> : i \in Indices} |-> Absent]
    BY <2>1 DEF SegmentStore
  <2> QED BY <2>2 DEF Naive!Init, Naive!Keys, Naive!Tail, Naive!Entry, Indices
<1> QED BY <1>1, SerialLedgerSpec, Invariant, StepIsNaive, PTL
        DEF SegmentsAreLogs, EachSegmentIsALog, P!SerialSpec, P!Serial!Spec

------------------------------------------------------------------------------
\* Calls and the footprints they were sent with: an append names its segment's
\* tail, and an entry that was free when it was simulated.
FootprintLags(t) ==
  LET s == call[t].segment
  IN  \E i \in 0..TailOf(store, s) : footprint[t].writes = {SegmentTail(s), Entry(s, i)}

FootprintsLag ==
  \A t \in Txs :
    /\ phase[t] \in {"pending", "staged", "loaded"}
    /\ call[t].fn = "append" /\ call[t].segment \in Segments
    => FootprintLags(t)

\* What every step of the staged log preserves.
StagedLogInv == P!IInv /\ LogInv /\ FootprintsLag

\* A simulation names the entry that is free at the time.
LEMMA SimulationNamesFreeEntry ==
  ASSUME WellTyped(store), NEW c \in LedgerCalls, c.fn = "append", c.segment \in Segments
  PROVE  \E i \in 0..TailOf(store, c.segment) :
           FootprintOf(c, store).writes = {SegmentTail(c.segment), Entry(c.segment, i)}
<1>1. TailOf(store, c.segment) \in 0..TailOf(store, c.segment)
  BY TailTyped, LogAssumption
<1>2. FootprintOf(c, store).writes
        = {SegmentTail(c.segment), Entry(c.segment, TailOf(store, c.segment))}
  BY LogAssumption DEF FootprintOf, Footprint, AppendKeys, Segments
<1> QED BY <1>1, <1>2

\* Tails only grow, so a footprint that lags keeps lagging.
LEMMA StillLags ==
  ASSUME LogInv, [P!Serial!Next]_(P!Serial!vars), NEW t \in Txs, call[t].segment \in Segments,
         FootprintLags(t), call'[t] = call[t], footprint'[t] = footprint[t]
  PROVE  FootprintLags(t)'
<1> DEFINE s == call[t].segment
<1>1. TailOf(store, s) \in 0..MaxU64
  BY TailTyped DEF LogInv
<1>2. TailOf(store', s) \in {TailOf(store, s), TailOf(store, s) + 1}
  <2>1. CASE store' = store
    BY <2>1
  <2>2. CASE store' # store
    <3>1. PICK u \in Txs, c \in LedgerCalls : P!Serial!Execute(u, c)
      BY <2>2 DEF P!Serial!Next, P!Serial!vars
    <3> QED BY <2>2, <3>1, AppendSteps
  <2> QED BY <2>1, <2>2
<1>3. PICK i \in 0..TailOf(store, s) :
        footprint[t].writes = {SegmentTail(s), Entry(s, i)}
  BY DEF FootprintLags
<1>4. i \in 0..TailOf(store', s)
  BY <1>1, <1>2, <1>3, LogAssumption
<1> QED BY <1>3, <1>4 DEF FootprintLags

LEMMA InitStagedLogInv == P!Init => StagedLogInv
<1>1. P!Init => P!Serial!Init
  BY DEF P!Init, P!EmptyStore, P!Serial!Init
<1>2. P!Init => FootprintsLag
  BY DEF P!Init, FootprintsLag
<1> QED BY <1>1, <1>2, FootprintsSound, P!InitIInv, InitLogInv DEF StagedLogInv

LEMMA NextStagedLogInv == StagedLogInv /\ [P!Next]_(P!vars) => StagedLogInv'
<1> SUFFICES ASSUME StagedLogInv, [P!Next]_(P!vars) PROVE StagedLogInv'
  OBVIOUS
<1>1. P!IInv' /\ [P!Serial!Next]_(P!Serial!vars)
  BY FootprintsSound, P!NextIInv, P!StepIsSerial DEF StagedLogInv
<1>2. LogInv'
  BY <1>1, NextLogInv DEF StagedLogInv
<1>3. FootprintsLag'
  <2> SUFFICES ASSUME NEW t \in Txs, phase'[t] \in {"pending", "staged", "loaded"},
                      call'[t].fn = "append", call'[t].segment \in Segments
               PROVE  FootprintLags(t)'
    BY DEF FootprintsLag
  <2>1. /\ phase \in [Txs -> P!Phases] /\ DOMAIN call = Txs /\ DOMAIN footprint = Txs
        /\ phase[t] = "rejected" => call[t] \in LedgerCalls
        /\ WellTyped(store)
    BY DEF StagedLogInv, P!IInv, P!TypeOK, LogInv
  <2>2. CASE \E c \in LedgerCalls : P!Submit(t, c) \/ P!Resubmit(t)
    <3>1. PICK c \in LedgerCalls : call'[t] = c /\ footprint'[t] = FootprintOf(c, store)
                                   /\ store' = store
      BY <2>1, <2>2 DEF P!Submit, P!Resubmit
    <3> QED BY <2>1, <3>1, SimulationNamesFreeEntry DEF FootprintLags
  <2>3. CASE ~ \E c \in LedgerCalls : P!Submit(t, c) \/ P!Resubmit(t)
    <3>1. /\ phase[t] \in {"pending", "staged", "loaded"}
          /\ call'[t] = call[t] /\ footprint'[t] = footprint[t]
      BY <2>1, <2>3
         DEF P!vars, P!Next, P!Submit, P!Resubmit, P!OpenStage, P!Load, P!Commit, P!Reject
    <3>2. FootprintLags(t)
      BY <3>1 DEF StagedLogInv, FootprintsLag
    <3> QED BY <1>1, <3>1, <3>2, StillLags DEF StagedLogInv
  <2> QED BY <2>2, <2>3
<1> QED BY <1>1, <1>2, <1>3 DEF StagedLogInv

\* What is known of the log and of the transactions on their way to it.
THEOREM StagedInvariant == LedgerSpec => []StagedLogInv
BY SameLedger, InitStagedLogInv, NextStagedLogInv, PTL DEF P!Spec

\* What other calls touch does not depend on the store: they run as planned.
LEMMA OthersNeverTurnedDown ==
  ASSUME P!IInv, NEW t \in Txs, P!Reject(t)
  PROVE  call[t] \in LedgerCalls /\ call[t].fn = "append" /\ call[t].segment \in Segments
<1>1. call[t] \in LedgerCalls /\ phase[t] = "loaded"
  BY DEF P!IInv, P!TypeOK, P!Reject
<1>2. PICK s0 \in P!Stores : footprint[t] = FootprintOf(call[t], s0)
  BY <1>1 DEF P!IInv, P!Simulated
<1>3. ASSUME ~(call[t].fn = "append" /\ call[t].segment \in Segments)
      PROVE  FootprintOf(call[t], view[t]) = footprint[t]
  <2>1. call[t].fn = "append" => call[t].segment >= SEGMENTS
    BY <1>1, <1>3, LogAssumption DEF LedgerCalls, Calls, Segments
  <2> QED BY <1>1, <1>2, <2>1 DEF LedgerCalls, Calls, FootprintOf, Footprint, AppendKeys
<1>4. FootprintOf(call[t], view[t]) = footprint[t] => FALSE
  BY DEF P!Reject, P!Covers, P!Touched
<1> QED BY <1>1, <1>3, <1>4

\* Who is turned down finds the entry of its footprint below the tail: taken.
LEMMA RejectedByRival ==
  ASSUME StagedLogInv, NEW t \in Txs, P!Reject(t)
  PROVE  \E u \in Appended : EntryOf(u) \in footprint[t].writes
<1> DEFINE s    == call[t].segment
           tail == TailOf(store, s)
           f    == footprint[t]
<1>1. /\ P!IInv /\ LogInv /\ call[t] \in LedgerCalls /\ call[t].fn = "append" /\ s \in Segments
      /\ phase[t] = "loaded" /\ ~P!Covers(f, call[t], view[t])
  BY OthersNeverTurnedDown DEF StagedLogInv, P!Reject
<1>2. PICK i \in 0..tail : f.writes = {SegmentTail(s), Entry(s, i)}
  BY <1>1 DEF StagedLogInv, FootprintsLag, FootprintLags
<1>3. tail \in 0..MaxU64
  BY <1>1, TailTyped DEF LogInv
<1>4. SegmentTail(s) \in f.writes /\ SegmentTail(s) \in Keys
  BY <1>1, <1>2, KeysDiffer
<1>5. TailOf(view[t], s) = tail
  <2>1. view[t] = P!Visible(store, f)
    BY <1>1 DEF P!IInv, P!NoStaleView
  <2> HIDE DEF f
  <2>2. view[t][SegmentTail(s)] = store[SegmentTail(s)]
    BY <1>4, <2>1 DEF P!Visible, P!Touched, LedgerKeys
  <2> QED BY <2>2 DEF TailOf, UnwrapOr
<1>6. i # tail
  <2>1. SUFFICES ASSUME i = tail PROVE P!Covers(f, call[t], view[t])
    BY <1>1
  <2>2. ~(s >= SEGMENTS)
    BY <1>1, LogAssumption DEF Segments
  <2>3. AppendKeys(s, view[t]) = f.writes
    BY <1>2, <1>5, <2>1, <2>2 DEF AppendKeys
  <2>4. FootprintOf(call[t], view[t]) = [reads |-> {}, writes |-> f.writes]
    BY <1>1, <2>3 DEF FootprintOf, Footprint
  <2> QED BY <2>4 DEF P!Covers
<1>7. i \in Indices /\ i < tail
  BY <1>2, <1>3, <1>6, LogAssumption DEF Indices
<1>8. store[Entry(s, i)] # Absent
  BY <1>1, <1>7 DEF LogInv, LogIsWhatWasAppended
<1>9. PICK u \in Appended : EntryOf(u) = Entry(s, i)
  BY <1>1, <1>7, <1>8 DEF LogInv, LogIsWhatWasAppended
<1> QED BY <1>1, <1>2, <1>7, <1>9, KeysDiffer

LEMMA StepRejectsByRival == StagedLogInv /\ [P!Next]_(P!vars) => [OnlyByRivals]_(L!vars)
<1> SUFFICES ASSUME StagedLogInv, [P!Next]_(P!vars), NEW t \in Txs,
                    phase[t] = "loaded", phase'[t] = "rejected"
             PROVE  \E u \in Appended : EntryOf(u) \in footprint[t].writes
  BY DEF OnlyByRivals
<1>1. phase \in [Txs -> P!Phases]
  BY DEF StagedLogInv, P!IInv, P!TypeOK
<1>2. P!Reject(t)
  BY <1>1 DEF P!vars, P!Next, P!Submit, P!Resubmit, P!OpenStage, P!Load, P!Commit, P!Reject
<1> QED BY <1>2, RejectedByRival

\* An append is turned down only when a rival got the very entry it had found
\* free.
THEOREM RejectionsExplained == LedgerSpec => TurnedDownByRivalOnly
<1>1. [P!Next]_(P!vars) /\ StagedLogInv => [OnlyByRivals]_(L!vars)
  BY StepRejectsByRival
<1> QED BY <1>1, SameLedger, StagedInvariant, PTL DEF TurnedDownByRivalOnly, P!Spec
==============================================================================
