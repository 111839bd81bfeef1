----------------------------- MODULE StagePlanning ---------------------------
(***************************************************************************)
(* The arithmetic behind the "stages" the benchmark notes speak of         *)
(* (patterns/*/BENCH.md): a batch of transactions, the conflict graph over *)
(* their footprints, and the fewest stages that graph allows.  The counts  *)
(* themselves are slipstream-core's, which is not in this repository.      *)
(***************************************************************************)
EXTENDS Conflicts, Naturals, Sequences, FiniteSets

\* The edges of the conflict graph of a batch, a sequence of footprints.
Edges(fs) ==
  {e \in (DOMAIN fs) \X (DOMAIN fs) : e[1] < e[2] /\ Conflict(fs[e[1]], fs[e[2]])}

\* A way to run the batch in n stages: no two of one stage conflict.
IsPlan(plan, fs) == \A e \in Edges(fs) : plan[e[1]] # plan[e[2]]

\* The fewest stages the batch can run in.
StagesOf(fs) ==
  CHOOSE n \in 0..Len(fs) :
    /\ \E plan \in [DOMAIN fs -> 1..n] : IsPlan(plan, fs)
    /\ \A m \in 0..(n - 1) : ~ \E plan \in [DOMAIN fs -> 1..m] : IsPlan(plan, fs)
==============================================================================
