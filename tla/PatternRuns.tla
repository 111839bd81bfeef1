------------------------------ MODULE PatternRuns ----------------------------
(***************************************************************************)
(* The pure part of the harness: which directories are patterns, what one  *)
(* analysis ends in, how a batch of them is judged.                        *)
(* harness/src/lib.rs, harness/src/main.rs                                 *)
(*                                                                         *)
(* A directory entry is a number, the place of its name in byte order.     *)
(***************************************************************************)
EXTENDS Reports, Sequences, FiniteSets, SequencesExt

CONSTANTS
  Entries,     \* entries the patterns directory may hold
  NNNames      \* those whose name is two digits, a dash and a rest

Sides == {"naive", "optimized"}

\* The entry e as discovered in tree, which gives every entry what it is.
Pattern(e, tree) == [name |-> e, sides |-> tree[e].sides]

is_complete(p) == p.sides = Sides

\* The place of e among the entries in S.
Place(e, S) == Cardinality({d \in S : d <= e})

\* listed is what read_dir comes up with, nothing if it fails: an entry it
\* cannot read is passed over, and so are files, and directories of another
\* name; its order does not show.
discover_patterns(listed, tree) ==
  LET found == {e \in listed : tree[e].dir /\ e \in NNNames}
  IN  [i \in 1..Cardinality(found) |->
         Pattern(CHOOSE e \in found : Place(e, found) = i, tree)]

------------------------------------------------------------------------------
Result(p, delta, missing, error) ==
  [pattern |-> p.name, delta |-> delta, missing_sides |-> missing, error |-> error]

ResultUnreturned(p, outcome) ==   \* mutant: a missing side is noted, and analyzed
  Result(p, outcome.delta, Sides \ p.sides, outcome.error)

\* One element of run_all's result; outcome is what analyze_pair came back with.
ResultOf(p, outcome) ==
  IF is_complete(p) THEN Result(p, outcome.delta, {}, outcome.error)
  ELSE Result(p, None, Sides \ p.sides, None)

\* Every result says one thing: its numbers, what is missing, or what failed.
WellFormed(r) ==
  /\ r.delta \in Deltas \cup {None}
  /\ Cardinality({x \in {1, 2, 3} : CASE x = 1 -> r.delta # None
                                      [] x = 2 -> r.missing_sides # {}
                                      [] x = 3 -> r.error # None}) = 1

VerdictErrorsLast(r) ==   \* mutant: a failed analysis is none of the cases
  CASE r.missing_sides # {} -> "missing"
    [] r.missing_sides = {} /\ r.delta = None -> "unknown"
    [] r.missing_sides = {} /\ r.delta # None ->
         IF is_improvement(r.delta) THEN "IMPROVEMENT" ELSE "NO IMPROVEMENT"

verdict(r) ==
  IF r.missing_sides # {}      THEN "missing"
  ELSE IF r.error # None       THEN "error"
  ELSE IF r.delta = None       THEN "unknown"
  ELSE IF is_improvement(r.delta) THEN "IMPROVEMENT"
  ELSE "NO IMPROVEMENT"

Count(results, Test(_)) == Cardinality({i \in DOMAIN results : Test(results[i])})

\* The cell of a number: `-`, here None, if there is none.
cell_delta(d, m) == IF d = None THEN None ELSE d[m]

Row(pattern, delta, judgement) ==
  [pattern  |-> pattern,
   writes   |-> cell_delta(delta, "writes"),
   reads    |-> cell_delta(delta, "reads"),
   findings |-> cell_delta(delta, "findings"),
   verdict  |-> judgement]

\* The rows of the table `all` prints.
render_table(results) ==
  [i \in DOMAIN results |-> Row(results[i].pattern, results[i].delta, verdict(results[i]))]

\* What is printed of a single pattern.
report(pattern, delta) ==
  Row(pattern, delta, IF is_improvement(delta) THEN "IMPROVEMENT" ELSE "NO IMPROVEMENT")

\* The numbers of `summary: ...`, or None: nothing was analyzed.
summarize(results) ==
  LET ok == Count(results, LAMBDA r : r.delta # None)
  IN  IF ok > 0
      THEN [ok       |-> ok,
            missing  |-> Count(results, LAMBDA r : r.delta = None /\ r.missing_sides # {}),
            failed   |-> Count(results, LAMBDA r : r.delta = None /\ r.missing_sides = {}),
            improved |-> Count(results, LAMBDA r : r.delta # None /\ is_improvement(r.delta))]
      ELSE None

incomplete(results) ==
  \E i \in DOMAIN results : results[i].missing_sides # {} \/ results[i].error # None

AllExitCode(results) == IF incomplete(results) THEN 1 ELSE 0
==============================================================================
