------------------------------- MODULE Conflicts -----------------------------
(***************************************************************************)
(* When two footprints conflict, as docs/PLAYBOOK.md ("Background") has it *)
(* from CAP-0063: one transaction writes a key that the other one reads or *)
(* writes.  A footprint is a record of two sets of keys, reads and writes. *)
(***************************************************************************)
Touched(f) == f.reads \cup f.writes

WriteConflict(f, g) == f.writes \cap g.writes # {}   \* mutant: reads never conflict

Conflict(f, g) ==
  \/ f.writes \cap Touched(g) # {}
  \/ g.writes \cap Touched(f) # {}
==============================================================================
