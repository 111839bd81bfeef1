----------------------------- MODULE BenchUpdates ----------------------------
(***************************************************************************)
(* What `bench` promises of the BENCH.md files: whoever runs it, how often *)
(* and with whatever failures, a file only ever changes by a whole update  *)
(* with a measured block of its own pattern, or by a write that stops.     *)
(* harness/src/lib.rs, update_bench_md                                     *)
(***************************************************************************)
EXTENDS Reports, BenchFile

CONSTANTS
  Entries, Commits, Measured, Unknown, Times,   \* as in Harness
  FirstFiles, MaxCuts

VARIABLES
  files,      \* entry -> its BENCH.md, None if there is none
  cuts        \* entry -> writes of its BENCH.md that were cut short

vars == <<files, cuts>>

Init ==
  /\ files \in FirstFiles
  /\ cuts = [e \in Entries |-> 0]

Stamps == [contracts_sha : Commits \cup {Unknown}, run_time : Times]

\* What the analyzer counts on e's sides, each at one commit.
Reading(sides, e) == [left |-> Measured[sides[1]][e].left, right |-> Measured[sides[2]][e].right]

Update(e) ==
  /\ \E sides \in Commits \X Commits, stamp \in Stamps :
       LET existing == IF files[e] = None THEN <<>> ELSE files[e]
       IN  files' = [files EXCEPT ![e] =
                       Updated(existing, render_bench_block(e, Diff(Reading(sides, e)), stamp))]
  /\ UNCHANGED cuts

\* Of an update a beginning is all that got to the file.
Stop(e) ==
  /\ files[e] # None
  /\ cuts[e] < MaxCuts
  /\ \E i \in DOMAIN files[e] : \E rest \in Rests(files[e][i]) :
       files' = [files EXCEPT ![e] = SubSeq(@, 1, i - 1) \o rest]
  /\ cuts' = [cuts EXCEPT ![e] = @ + 1]

Next == \E e \in Entries : Update(e) \/ Stop(e)

Spec == Init /\ [][Next]_vars
==============================================================================
