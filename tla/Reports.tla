-------------------------------- MODULE Reports -------------------------------
(***************************************************************************)
(* What `slipstream diff naive optimized --json` says of a pair, and what  *)
(* the harness takes from it.                                              *)
(* harness/src/model.rs, harness/src/lib.rs                                *)
(*                                                                         *)
(* A JSON object is a function from the keys it has.  Standard output that *)
(* is no such object, or has a field of a wrong type in it, has no keys.   *)
(***************************************************************************)
EXTENDS Integers

CONSTANT None     \* the Rust None

Metrics == {"writes", "reads", "findings"}

Counts == [Metrics -> Nat]

\* The analyzer's part: optimized less naive, metric by metric.
Diff(counts) == [m \in Metrics |-> counts.right[m] - counts.left[m]]

\* Core "omits empty ones" (model.rs:4): of the summary, deltas that are 0.
Printed(counts) ==
  LET diff == Diff(counts)
  IN  {[left |-> counts.left, right |-> counts.right, summary |-> [m \in stated |-> diff[m]]] :
         stated \in {S \in SUBSET Metrics : \A m \in Metrics \ S : diff[m] = 0}}

Required == {"left", "right", "summary"}

OrZeroAltogether(summary, m) ==   \* mutant: one field left out empties the summary
  IF DOMAIN summary = Metrics THEN summary[m] ELSE 0

\* `#[serde(default)]`
OrZero(summary, m) == IF m \in DOMAIN summary THEN summary[m] ELSE 0

contention_delta(report) == [m \in Metrics |-> OrZero(report.summary, m)]

is_improvement(d) == d.writes < 0 /\ d.findings <= 0

\* What running the binary can come to: it does not start, it ends with a
\* failure, or it ends well and has printed something.
Output(launched, success, stdout) ==
  [launched |-> launched, success |-> success, stdout |-> stdout]

Deltas == [Metrics -> Int]
Errors == {"Spawn", "Command", "Parse"}

Delta(d)     == [delta |-> d, error |-> None]
Error(error) == [delta |-> None, error |-> error]

analyze_pair(output) ==
  IF ~output.launched     THEN Error("Spawn")
  ELSE IF ~output.success THEN Error("Command")
  ELSE IF Required \subseteq DOMAIN output.stdout
       THEN Delta(contention_delta(output.stdout))
       ELSE Error("Parse")
==============================================================================
