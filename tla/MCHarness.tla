------------------------------- MODULE MCHarness -----------------------------
(***************************************************************************)
(* The harness over a directory with two patterns and two other entries.   *)
(***************************************************************************)
EXTENDS Harness

CONSTANTS T1, T2, OldBody   \* pieces of the BENCH.md files

Dir(sides) == [dir |-> TRUE, sides |-> sides]

File       == [dir |-> FALSE, sides |-> {}]

\* Entry 0 is a directory of another name, 3 a file that is called like a
\* pattern, 1 and 2 are the patterns; 2 loses a side with the second commit.
Tree(two) == [e \in 0..3 |-> IF e = 3 THEN File ELSE IF e = 2 THEN Dir(two) ELSE Dir(Sides)]

SomeTrees  == [c \in {1, 2} |-> {Tree(IF c = 1 THEN Sides ELSE {"naive"})}]
OnePattern == [c \in {1, 2} |-> {[e \in 0..3 |-> IF e = 1 THEN Dir(Sides) ELSE File]}]

\* The directory cannot be read, an entry of it cannot, or all is well.
AllListed    == {0..3}
SomeListings == AllListed \cup {{}, {0, 2, 3}}

Unmarked == <<T1>>
Marked   == <<T1, BENCH_BEGIN, OldBody, BENCH_END, T2>>

FilesOf(One, Two) ==
  {[e \in 0..3 |-> IF e = 1 THEN f ELSE IF e = 2 THEN g ELSE None] : f \in One, g \in Two}

SomeFiles == FilesOf({Marked}, {Unmarked})
OneFile   == FilesOf({None, Unmarked, Marked}, {None})

Zero      == [m \in Metrics |-> 0]
Pair(l, r) == [left |-> l, right |-> r]
Worse     == Pair([Zero EXCEPT !.writes = 1], [Zero EXCEPT !.writes = 1, !.findings = 1])
Better    == Pair([Zero EXCEPT !.writes = 2], [Zero EXCEPT !.writes = 1, !.reads = 1])
Cleaner   == Pair([Zero EXCEPT !.writes = 1], Zero)

\* The second commit improves both patterns.
SomeMeasured == [c \in {1, 2} |-> [e \in 0..3 |->
  IF c = 1 THEN (IF e = 1 THEN Better ELSE Worse)
  ELSE Cleaner]]

NoKeysOut == [k \in {} |-> None]

NoStart  == {Output(FALSE, FALSE, NoKeysOut)}
BadExit  == {Output(TRUE, FALSE, NoKeysOut)}
\* Empty output, and a report without its summary.
NoReport == {Output(TRUE, TRUE, NoKeysOut), Output(TRUE, TRUE, Worse)}
==============================================================================
