-------------------------------- MODULE Harness ------------------------------
(***************************************************************************)
(* The slipstream-harness command: its preflight, its batch of analyses,   *)
(* the table it prints, and the BENCH.md files `bench` writes.  One        *)
(* process at a time, run again and again over the same checkout; it can   *)
(* die between any two steps, every subprocess and file operation can      *)
(* fail, and the checkout can move to another commit at any time.          *)
(* harness/src/main.rs, harness/src/lib.rs                                 *)
(***************************************************************************)
EXTENDS PatternRuns, BenchFile, Sums

CONSTANTS
  Commits,        \* commits the checkout can be at, in their order
  Measured,       \* commit -> entry -> what the analyzer counts on its sides
  Mishaps,        \* outputs explored of analyses that go wrong
  Unknown,        \* provenance that could not be found out
  Times,          \* run times
  Trees,          \* commit -> directory contents explored
  Listings,       \* entries of it explored that read_dir comes up with
  FirstFiles,     \* entry -> BENCH.md contents explored, None for no file
  MaxCuts         \* bound: writes cut short in a behaviour

\* The bodies of measured blocks, and what else is in a file.
Stamps == [contracts_sha : Commits \cup {Unknown}, run_time : Times]
Cells  == [sign : {"+", "-", ""}, digits : Nat]
Bodies == [pattern : Entries, cells : [Metrics -> Cells], stamp : Stamps]

Marks       == {BENCH_BEGIN, BENCH_END, Newline, Fragment, Garbled}
FirstPieces == UNION {IF f[e] = None THEN {} ELSE Range(f[e]) : f \in FirstFiles, e \in Entries}

\* f has one measured block at most, and nothing that looks like half of one.
OneBlock(f) ==
  LET begin == Find(f, BENCH_BEGIN)
  IN  /\ begin # 0 => begin + 2 \in DOMAIN f /\ f[begin + 2] = BENCH_END
      /\ \A i \in DOMAIN f :
           f[i] \in {BENCH_BEGIN, BENCH_END} => begin # 0 /\ i \in {begin, begin + 2}

ASSUME HarnessAssumption ==
  /\ MaxCuts \in Nat
  /\ Commits \subseteq Nat /\ Commits # {}
  /\ Entries \subseteq Nat /\ IsFiniteSet(Entries)
  /\ \A c \in Commits, e \in Entries :
       Measured[c][e].left \in Counts /\ Measured[c][e].right \in Counts
  /\ \A output \in Mishaps : analyze_pair(output).error # None
  /\ Listings \subseteq SUBSET Entries
  /\ \A c \in Commits : \A t \in Trees[c], e \in Entries :
       t[e].dir \in BOOLEAN /\ t[e].sides \subseteq Sides
  /\ \A f \in FirstFiles : f \in [Entries -> {None} \cup Seq(FirstPieces)]
  /\ \A f \in FirstFiles, e \in Entries : f[e] # None => OneBlock(f[e])
  /\ \A x \in Marks \cup FirstPieces : x \notin Bodies
  /\ BENCH_BEGIN # BENCH_END
  /\ {Newline, Fragment, Garbled} \cap {BENCH_BEGIN, BENCH_END} = {}
  /\ Garbled \notin {Newline, Fragment}
  /\ None \notin Int /\ None \notin Deltas \cup Errors
  /\ None \notin Seq(Marks \cup FirstPieces \cup Bodies)

VARIABLES
  tree,       \* entry -> whether it is a directory, and its sides
  files,      \* entry -> its BENCH.md, None if there is none
  head,       \* the commit the checkout is at
  pc,         \* where the process stands; "idle" when none runs
  cmd,        \* the command it was given
  patterns,   \* what it discovered
  results,    \* run_all's results so far
  prov,       \* the provenance of this run
  todo,       \* what is to be written to the file and is not out yet
  tally,      \* bench's counters
  exit,       \* the exit code of the last process, None if it was killed
  stdout,     \* the rows it printed
  original,   \* entry -> its BENCH.md in the beginning
  before,     \* entry -> its BENCH.md when this process was started
  written,    \* entry -> the block this process put there, None if it did not
  moved,      \* whether the checkout ever moved in the middle of a batch
  cuts        \* entry -> writes of its BENCH.md that were cut short

batch  == <<patterns, results>>
said   == <<exit, stdout>>
past   == <<before, written, moved>>
shared == <<tree, files, head, original, cuts>>
own    == <<pc, cmd, batch, prov, todo, tally, said, past>>
vars   == <<shared, own>>

NoTally == [updated |-> 0, unchanged |-> 0, skipped |-> 0, failed |-> 0]

Sum(t) == t.updated + t.unchanged + t.skipped + t.failed

Cuts == SumOver(cuts, Entries)

Contents(e) == IF files[e] = None THEN <<>> ELSE files[e]

\* `read_to_string` takes UTF-8 only.
Readable(e) == ~Contains(Contents(e), Garbled)

\* The loop is at the pattern after those already counted.
At      == Sum(tally) + 1
Here    == patterns[At].name

BlockOfLast ==   \* mutant: the numbers of the last pattern that has some
  render_bench_block(Here, Last(SelectSeq(results, LAMBDA r : r.delta # None)).delta, prov)

Block == render_bench_block(Here, results[At].delta, prov)

NewContentsUnread == Updated(<<>>, Block)   \* mutant: emptied before it is read

NewContents == Updated(Contents(Here), Block)

\* What the analyzer counts on e's sides, reading one at the commit sides[1] and
\* the other at sides[2].
Reading(sides, e) == [left |-> Measured[sides[1]][e].left, right |-> Measured[sides[2]][e].right]

\* What an analysis of e prints, or how it fails, if the checkout has gone on
\* to c by its end.
Outputs(e, c) ==
  {Output(TRUE, TRUE, json) :
     json \in UNION {Printed(Reading(sides, e)) : sides \in {head, c} \X {head, c}}} \cup Mishaps

------------------------------------------------------------------------------
Init ==
  /\ head = Min(Commits)
  /\ tree \in Trees[head]
  /\ files \in FirstFiles
  /\ pc = "idle" /\ cmd = "usage" /\ exit = None /\ stdout = <<>>
  /\ patterns = <<>> /\ results = <<>> /\ todo = <<>>
  /\ prov = None /\ tally = NoTally
  /\ original = files
  /\ before = files
  /\ written = [e \in Entries |-> None]
  /\ moved = FALSE
  /\ cuts = [e \in Entries |-> 0]

Exit(code, rows) ==
  /\ pc' = "idle"
  /\ exit' = code
  /\ stdout' = rows

Launch(c) ==
  /\ pc = "idle"
  /\ cmd' = c
  /\ patterns' = <<>> /\ results' = <<>> /\ tally' = NoTally /\ prov' = None
  /\ before' = files /\ written' = [e \in Entries |-> None]
  /\ UNCHANGED <<files, original, cuts, todo>>

\* The checkout is at c from now on, with whatever patterns that commit has.
GoesOn(c) ==
  /\ c >= head
  /\ head' = c
  /\ IF c = head THEN UNCHANGED tree ELSE tree' \in Trees[c]

\* No argument.
Usage == Launch("usage") /\ Exit(2, <<>>) /\ UNCHANGED <<tree, head, moved>>

\* A pattern directory: one analysis, whatever sides it has.
RunPair(e, c) ==
  /\ Launch("pair")
  /\ GoesOn(c)
  /\ moved' = (moved \/ c # head)
  /\ \E output \in Outputs(e, c) :
       LET outcome == analyze_pair(output)
       IN  \/ outcome.error = None  /\ Exit(0, <<report(e, outcome.delta)>>)
           \/ outcome.error # None  /\ Exit(1, <<>>)

\* `all` and `bench` first ask for the binary.
Start(c) ==
  /\ c \in {"all", "bench"}
  /\ Launch(c)
  /\ pc' = "preflight" /\ exit' = None /\ stdout' = <<>>
  /\ UNCHANGED <<tree, head, moved>>

Preflight(available, listed) ==
  /\ pc = "preflight"
  /\ IF available /\ discover_patterns(listed, tree) # <<>>
     THEN /\ patterns' = discover_patterns(listed, tree)
          /\ pc' = "analyzing"
          /\ UNCHANGED said
     ELSE /\ Exit(2, <<>>)
          /\ UNCHANGED patterns
  /\ UNCHANGED <<shared, cmd, results, prov, todo, tally, past>>

Analyze(c) ==
  /\ pc = "analyzing"
  /\ Len(results) < Len(patterns)
  /\ GoesOn(c)
  /\ moved' = (moved \/ c # head)
  /\ LET p == patterns[Len(results) + 1]
     IN  \E output \in Outputs(p.name, c) :
           results' = Append(results, ResultOf(p, analyze_pair(output)))
  /\ UNCHANGED <<files, original, cuts, pc, cmd, patterns, prov, todo, tally, said, before, written>>

FinishAll ==
  /\ pc = "analyzing" /\ cmd = "all"
  /\ Len(results) = Len(patterns)
  /\ Exit(AllExitCode(results), render_table(results))
  /\ UNCHANGED <<shared, cmd, batch, prov, todo, tally, past>>

\* Only now, with all the analyses over, is git asked for the commit.
CollectProvenance(time) ==
  /\ pc = "analyzing" /\ cmd = "bench"
  /\ Len(results) = Len(patterns)
  /\ pc' = "updating"
  /\ \E sha \in {head, Unknown} : prov' = [contracts_sha |-> sha, run_time |-> time]
  /\ UNCHANGED <<shared, cmd, batch, todo, tally, said, past>>

Counted(outcome) == tally' = [tally EXCEPT ![outcome] = @ + 1]

SkipUncounted ==   \* mutant: no way past a pattern without numbers
  /\ pc = "updating"
  /\ At <= Len(patterns)
  /\ results[At].delta = None
  /\ UNCHANGED vars

Skip ==
  /\ pc = "updating"
  /\ At <= Len(patterns)
  /\ results[At].delta = None
  /\ Counted("skipped")
  /\ UNCHANGED <<shared, pc, cmd, batch, prov, todo, said, past>>

Updating ==
  /\ pc = "updating"
  /\ At <= Len(patterns)
  /\ results[At].delta # None

\* The file cannot be read, or not be opened for writing.
UpdateFails ==
  /\ Updating \/ pc = "opening"
  /\ pc' = "updating"
  /\ todo' = <<>>
  /\ Counted("failed")
  /\ UNCHANGED <<shared, cmd, batch, prov, said, past>>

Current ==
  /\ Updating /\ Readable(Here)
  /\ NewContents = Contents(Here)
  /\ Counted("unchanged")
  /\ written' = [written EXCEPT ![Here] = Block]
  /\ UNCHANGED <<shared, pc, cmd, batch, prov, todo, said, before, moved>>

\* The new contents are made from what is in the file now ...
Read ==
  /\ Updating /\ Readable(Here)
  /\ NewContents # Contents(Here)
  /\ pc' = "opening"
  /\ todo' = NewContents
  /\ UNCHANGED <<shared, cmd, batch, prov, tally, said, past>>

\* ... and replace what is in it then: `std::fs::write` empties the file,
\* and writes piece by piece.
Truncate ==
  /\ pc = "opening"
  /\ pc' = "writing"
  /\ files' = [files EXCEPT ![Here] = <<>>]
  /\ written' = [written EXCEPT ![Here] = None]
  /\ UNCHANGED <<tree, head, cmd, batch, prov, todo, tally, said, original, before, moved, cuts>>

WritePiece ==
  /\ pc = "writing" /\ todo # <<>>
  /\ files' = [files EXCEPT ![Here] = Append(@, Head(todo))]
  /\ todo' = Tail(todo)
  /\ UNCHANGED <<tree, head, pc, cmd, batch, prov, tally, said, original, past, cuts>>

EndWrite ==
  /\ pc = "writing" /\ todo = <<>>
  /\ pc' = "updating"
  /\ Counted("updated")
  /\ written' = [written EXCEPT ![Here] = Block]
  /\ UNCHANGED <<shared, cmd, batch, prov, todo, said, before, moved>>

CutWrite ==
  /\ pc = "writing" /\ todo # <<>>
  /\ Cuts < MaxCuts
  /\ \E rest \in Rests(Head(todo)) : files' = [files EXCEPT ![Here] = @ \o rest]
  /\ cuts' = [cuts EXCEPT ![Here] = @ + 1]
  /\ todo' = <<>>

\* An I/O error in the middle of a file: reported, and on to the next pattern.
WriteFails ==
  /\ CutWrite
  /\ pc' = "updating"
  /\ Counted("failed")
  /\ UNCHANGED <<tree, head, cmd, batch, prov, said, original, past>>

\* The process is killed, between two files or in the middle of one.
Crash ==
  /\ pc # "idle"
  /\ IF pc = "writing" /\ todo # <<>> THEN CutWrite ELSE todo' = <<>> /\ UNCHANGED <<files, cuts>>
  /\ pc' = "idle" /\ exit' = None /\ stdout' = <<>>
  /\ patterns' = <<>> /\ results' = <<>> /\ prov' = None /\ tally' = NoTally
  /\ before' = files' /\ written' = [e \in Entries |-> None]
  /\ UNCHANGED <<tree, head, cmd, original, moved>>

BenchExitCodeByFailures(t) == IF t.failed > 0 THEN 1 ELSE 0   \* mutant

BenchExitCode(t) == IF t.updated > 0 THEN 0 ELSE 1

FinishBench ==
  /\ pc = "updating" /\ At > Len(patterns)
  /\ Exit(BenchExitCode(tally), <<>>)
  /\ UNCHANGED <<shared, cmd, batch, prov, todo, tally, past>>

\* Somebody goes on to another commit.  The analyzer does not read BENCH.md.
Checkout(c) ==
  /\ c # head
  /\ GoesOn(c)
  /\ moved' = (moved \/ (pc = "analyzing" /\ results # <<>>))
  /\ UNCHANGED <<files, pc, cmd, batch, prov, todo, tally, said, original, before, written, cuts>>

Step ==
  \/ \E available \in BOOLEAN, listed \in Listings : Preflight(available, listed)
  \/ \E c \in Commits : Analyze(c)
  \/ \E time \in Times : CollectProvenance(time)
  \/ FinishAll \/ FinishBench
  \/ Skip \/ UpdateFails \/ Current
  \/ Read \/ Truncate \/ WritePiece \/ EndWrite \/ WriteFails

Next ==
  \/ Usage
  \/ \E e \in Entries, c \in Commits : RunPair(e, c)
  \/ \E c \in {"all", "bench"} : Start(c)
  \/ Step
  \/ Crash
  \/ \E c \in Commits : Checkout(c)

Spec == Init /\ [][Next]_vars

\* A process that was started gets to run, and so do the subprocesses it waits
\* for: `Command::output` has no time limit.
FairSpec == Spec /\ WF_vars(Step)

------------------------------------------------------------------------------
Writing(e) == pc = "writing" /\ Here = e

TypeOK ==
  /\ tree \in Trees[head]
  /\ DOMAIN files = Entries
  /\ head \in Commits
  /\ pc \in {"idle", "preflight", "analyzing", "updating", "opening", "writing"}
  /\ cmd \in {"usage", "pair", "all", "bench"}
  /\ Len(results) <= Len(patterns)
  /\ \A i \in DOMAIN results : WellFormed(results[i])
  /\ prov \in Stamps \cup {None}
  /\ tally \in [DOMAIN NoTally -> 0..Len(patterns)]
  /\ Sum(tally) <= Len(patterns)
  /\ exit \in {None, 0, 1, 2}
  /\ \A e \in Entries : cuts[e] \in 0..MaxCuts
  /\ todo # <<>> => pc \in {"opening", "writing"}

\* "The rest of the file is never touched" (harness/src/lib.rs:397): whatever
\* runs there were, with whatever results, and killed or not, as long as no
\* write of it was cut short a file is as it was in the beginning, or has a
\* block in it, and around the block what was around the first one; if there
\* was none, all that was there comes first, and line ends are all that is new.
KeepsTheRest ==
  \A e \in Entries :
    cuts[e] = 0 /\ ~Writing(e) =>
      LET f     == Contents(e)
          o     == IF original[e] = None THEN <<>> ELSE original[e]
          begin == Find(o, BENCH_BEGIN)
      IN  \/ f = o
          \/ \E i \in 1..(Len(f) - 2) :
               /\ f[i] = BENCH_BEGIN /\ f[i + 2] = BENCH_END
               /\ begin # 0 => /\ SubSeq(f, 1, i - 1) = SubSeq(o, 1, begin - 1)
                              /\ SubSeq(f, i + 3, Len(f)) = SubSeq(o, begin + 3, Len(o))
               /\ begin = 0 => /\ Len(o) < i /\ SubSeq(f, 1, Len(o)) = o
                              /\ \A j \in DOMAIN f \ (1..Len(o) \cup i..(i + 2)) : f[j] = Newline

\* `bench` does to the files what it promises, and nothing else: with what a
\* write has still to put out taken as done, every step of every process changes
\* no file, or changes one as a whole, from what was in it to the same with a
\* measured block of that pattern, or leaves a beginning of that.
Intended == IF pc = "writing" THEN [files EXCEPT ![Here] = @ \o todo] ELSE files

Updates == INSTANCE BenchUpdates WITH files <- Intended

ImplementsUpdates ==   \* Updates!Spec, its stutters first
  Updates!Init /\ [][UNCHANGED Updates!vars \/ Updates!Next]_vars

\* Updates never pile up: between writes no BENCH.md has two blocks.
BlocksStayWhole ==
  \A e \in Entries : cuts[e] = 0 /\ ~Writing(e) => OneBlock(Contents(e))

\* Patterns and results are walked side by side (main.rs:182), and the commit
\* is asked for after the analyses (main.rs:176): however many of them fail or
\* are left out, a pattern's file never has the numbers of another, and as long
\* as the checkout stays where it is during a batch the numbers are the ones of
\* the commit the block names, left-out zeros included.
Number(cell) == IF cell.sign = "-" THEN -cell.digits ELSE cell.digits

OwnNumbers ==
  \A e \in Entries : \A i \in DOMAIN Contents(e) :
    LET body == Contents(e)[i]
    IN  body \in Bodies =>
          /\ body.pattern = e
          /\ \E sides \in Commits \X Commits :
               /\ \A m \in Metrics : Number(body.cells[m]) =
                    Reading(sides, e).right[m] - Reading(sides, e).left[m]
               /\ \/ moved
                  \/ sides[1] = sides[2] /\ body.stamp.contracts_sha \in {sides[1], Unknown}

\* What is printed: one row per pattern in order, or one for the pattern that
\* was asked for; a row without numbers says why, one with numbers has the
\* pattern's own and the verdict its two sides deserve, all at one commit if
\* the checkout stayed there.
RowIsTrue(row, counts) ==
  LET left == counts.left  right == counts.right
  IN  /\ row.writes   = right.writes - left.writes
      /\ row.reads    = right.reads - left.reads
      /\ row.findings = right.findings - left.findings
      /\ row.verdict = IF right.writes < left.writes /\ right.findings <= left.findings
                       THEN "IMPROVEMENT" ELSE "NO IMPROVEMENT"

RowsAreTrue ==
  LET Numbered   == {i \in DOMAIN stdout : stdout[i].verdict \notin {"missing", "error"}}
      True(sides, I) == \A i \in I : RowIsTrue(stdout[i], Reading(sides, stdout[i].pattern))
  IN  /\ cmd = "all" /\ exit \in {0, 1} =>
           [i \in DOMAIN stdout |-> stdout[i].pattern] = [i \in DOMAIN patterns |-> patterns[i].name]
      /\ cmd = "pair" => (exit = 0 <=> Len(stdout) = 1 /\ Numbered = {1})
      /\ \A i \in DOMAIN stdout \ Numbered :
           stdout[i].writes = None /\ stdout[i].reads = None /\ stdout[i].findings = None
      /\ \A i \in Numbered : \E sides \in Commits \X Commits : True(sides, {i})
      /\ moved \/ \E c \in Commits : True(<<c, c>>, Numbered)

\* The exit code of `all`, the verdicts of its table and the numbers of its
\* summary are computed apart from each other, and tell the same story.
AllAgrees ==
  pc = "idle" /\ cmd = "all" /\ exit \in {0, 1} =>
    LET Judged(v) == Count(results, LAMBDA r : verdict(r) = v)
        numbered  == Judged("IMPROVEMENT") + Judged("NO IMPROVEMENT")
    IN  /\ Len(results) = Len(patterns)
        /\ exit = 0 <=> numbered = Len(patterns)
        /\ Judged("unknown") = 0
        /\ summarize(results) =
             IF numbered = 0 THEN None
             ELSE [ok       |-> numbered,
                   missing  |-> Judged("missing"),
                   failed   |-> Judged("error"),
                   improved |-> Judged("IMPROVEMENT")]

\* What `bench` reports is what happened to the files: every pattern is
\* counted once, one without numbers keeps its file, one whose file cannot be
\* read has failed, every change is counted as an update or as a failure, and
\* exit code 0 means that something changed.
BenchReportIsTrue ==
  pc = "idle" /\ cmd = "bench" /\ exit \in {0, 1} =>
    LET changed == {i \in DOMAIN patterns :
                      files[patterns[i].name] # before[patterns[i].name]}
        barred  == {i \in DOMAIN patterns :
                      results[i].delta # None /\ ~Readable(patterns[i].name)}
    IN  /\ Sum(tally) = Len(patterns)
        /\ Cardinality(barred) <= tally.failed
        /\ \A i \in changed : results[i].delta # None
        /\ tally.updated <= Cardinality(changed)
        /\ Cardinality(changed) <= tally.updated + tally.failed
        /\ Cuts = 0 => Cardinality(changed) = tally.updated
        /\ exit = 0 <=> tally.updated > 0

\* "Insert or replace the measured block in a BENCH.md, idempotently"
\* (harness/src/lib.rs:394): the block that was just put there successfully
\* leaves nothing to change when it is put there again.
NothingToChange(e) ==
  written[e] # None /\ ~Writing(e) => Updated(Contents(e), written[e]) = Contents(e)

Idempotent == \A e \in Entries : NothingToChange(e)

\* ... which is so for every file none of whose writes was cut short.
IdempotentUncut == \A e \in Entries : cuts[e] = 0 => NothingToChange(e)

\* Wherever writes of a BENCH.md were cut short, two undisturbed updates later
\* it has one whole block again, unless the cut went through a character: no
\* update can read that file any more.
BlocksFor(e) ==
  {render_bench_block(e, Diff(Reading(<<c, c>>, e)), [contracts_sha |-> c, run_time |-> time]) :
     c \in Commits, time \in Times}

HealsInTwo ==
  \A e \in Entries : cuts[e] > 0 /\ ~Writing(e) /\ Readable(e) =>
    \A b, c \in BlocksFor(e) :
      LET healed == Updated(Updated(Contents(e), b), c)
      IN  OneBlock(healed) /\ Find(healed, BENCH_BEGIN) # 0

\* No outcome of the preflight, an analysis or a file operation leaves a
\* process without a next step: it comes to an exit code, or is killed.
EveryRunEnds == pc # "idle" ~> pc = "idle"
==============================================================================
