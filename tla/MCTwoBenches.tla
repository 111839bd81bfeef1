----------------------------- MODULE MCTwoBenches ----------------------------
(***************************************************************************)
(* Two processes of the harness on one checkout.  They share the directory *)
(* and its BENCH.md files; there is no lock.                               *)
(*                                                                         *)
(* What two writers leave of one file when their writes overlap is up to   *)
(* the file system: here they never do, one waits until the other has put  *)
(* everything out.  What one reads while the other writes is what is there.*)
(***************************************************************************)
EXTENDS MCHarness

VARIABLES
  pc2, cmd2, patterns2, results2, prov2, todo2, tally2, exit2, stdout2, before2, written2, moved2

own2 == <<pc2, cmd2, patterns2, results2, prov2, todo2, tally2, exit2, stdout2, before2, written2, moved2>>

Other ==
  INSTANCE Harness WITH
    pc <- pc2, cmd <- cmd2, patterns <- patterns2, results <- results2, prov <- prov2,
    todo <- todo2, tally <- tally2, exit <- exit2, stdout <- stdout2, before <- before2,
    written <- written2, moved <- moved2

TwoInit == Init /\ Other!Init

OneWriter == ~(pc' = "writing" /\ pc2' = "writing")

TwoNext ==
  /\ \/ UNCHANGED own2 /\ Next
     \/ UNCHANGED own  /\ Other!Next
  /\ OneWriter

TwoSpec == TwoInit /\ [][TwoNext]_<<vars, own2>>

------------------------------------------------------------------------------
\* "The rest of the file is never touched" (harness/src/lib.rs:397), whoever
\* else runs the same command meanwhile: once both are through and report
\* success, an author's text is all there and in its place.
RestIsKept ==
  /\ pc = "idle" /\ pc2 = "idle"
  /\ exit = 0 /\ exit2 = 0
  => KeepsTheRest
==============================================================================
