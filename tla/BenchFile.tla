------------------------------- MODULE BenchFile -----------------------------
(***************************************************************************)
(* A BENCH.md and the measured block `harness bench` keeps in it.          *)
(* harness/src/lib.rs, update_bench_md                                     *)
(*                                                                         *)
(* A file is a sequence of pieces: the two markers, the bodies of measured *)
(* blocks, line ends, and authors' text, which is anything else.           *)
(***************************************************************************)
EXTENDS Sequences, Integers, SequencesExt

CONSTANTS
  BENCH_BEGIN, BENCH_END,   \* the markers
  Newline,                  \* a line end
  Texts,                    \* authors' pieces of a file
  Fragment,                 \* the rest of a piece cut in the middle
  Garbled                   \* the rest of a text cut inside a character: not UTF-8

\* `existing.find(marker)`: the first place it occurs; 0 for None.
Find(existing, marker) ==
  IF Contains(existing, marker)
  THEN CHOOSE i \in DOMAIN existing :
         existing[i] = marker /\ \A j \in 1..(i - 1) : existing[j] # marker
  ELSE 0

\* `+8`, `-1`, `0`
signed_delta(n) ==
  [sign   |-> IF n > 0 THEN "+" ELSE IF n < 0 THEN "-" ELSE "",
   digits |-> IF n < 0 THEN -n ELSE n]

render_bench_block(pattern, delta, prov) ==
  <<BENCH_BEGIN,
    [pattern |-> pattern, cells |-> [m \in DOMAIN delta |-> signed_delta(delta[m])], stamp |-> prov],
    BENCH_END>>

\* The line ends that set a new block apart from the text before it.
Gap(existing) ==
  (IF existing # <<>> /\ Last(existing) # Newline THEN <<Newline>> ELSE <<>>)
    \o (IF existing # <<>> THEN <<Newline>> ELSE <<>>)

Appended(existing, block) == existing \o Gap(existing) \o block \o <<Newline>>

UpdateAppending(existing, block) == Appended(existing, block)   \* mutant: never replaces

UpdateToTheEnd(existing, block) ==   \* mutant: what follows the old block goes with it
  LET begin == Find(existing, BENCH_BEGIN)
  IN  IF begin # 0 THEN SubSeq(existing, 1, begin - 1) \o block
      ELSE Appended(existing, block)

UpdateKeepingEnd(existing, block) ==   \* mutant: the old end marker is not skipped
  LET begin == Find(existing, BENCH_BEGIN)
      end   == Find(existing, BENCH_END)
  IN  IF begin # 0 /\ end # 0
      THEN SubSeq(existing, 1, begin - 1) \o block
             \o SubSeq(existing, end, Len(existing))
      ELSE Appended(existing, block)

\* What update_bench_md makes of the file it read.
Updated(existing, block) ==
  LET begin == Find(existing, BENCH_BEGIN)
      end   == Find(existing, BENCH_END)
  IN  IF begin # 0 /\ end # 0
      THEN SubSeq(existing, 1, begin - 1) \o block
             \o SubSeq(existing, end + 1, Len(existing))
      ELSE Appended(existing, block)

\* What may be out of a piece the write stops in.
Rests(piece) ==
  {<<>>} \cup {<<Fragment>> : x \in {piece} \ {Newline}} \cup {<<Garbled>> : x \in {piece} \cap Texts}
==============================================================================
