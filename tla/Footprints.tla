------------------------------ MODULE Footprints -----------------------------
(***************************************************************************)
(* A transaction's footprint: the ledger keys it may read and the keys it  *)
(* may write.  What it sees of the ledger, what it can change, and what it *)
(* takes for a contract's footprints to be right.  The contract is a       *)
(* parameter: its calls, its handlers (Run) and the footprints its doc     *)
(* comments claim (FootprintOf).                                           *)
(***************************************************************************)
EXTENDS Conflicts

CONSTANTS
  LedgerCalls,         \* the contract calls a transaction can carry
  LedgerKeys,          \* the contract's ledger keys
  LedgerValues(_),     \* LedgerValues(key): what the key can hold, Absent included
  Absent,              \* content of a key never written; also "no receipt yet"
  Run(_, _),           \* Run(call, store): status, value and new store
  FootprintOf(_, _)    \* FootprintOf(call, store): keys read and keys written

Stores ==
  {st \in [LedgerKeys -> UNION {LedgerValues(k) : k \in LedgerKeys}] :
     \A k \in LedgerKeys : st[k] \in LedgerValues(k)}

Footprints == [reads : SUBSET LedgerKeys, writes : SUBSET LedgerKeys]

NoKeys     == [reads |-> {}, writes |-> {}]
EmptyStore == [k \in LedgerKeys |-> Absent]

\* The entries of st that a transaction with footprint f gets to see.
Visible(st, f) == [k \in LedgerKeys |-> IF k \in Touched(f) THEN st[k] ELSE Absent]

\* Running c on st stays inside the footprint f.
Covers(f, c, st) ==
  /\ FootprintOf(c, st).reads  \subseteq Touched(f)
  /\ FootprintOf(c, st).writes \subseteq f.writes

\* st once the entries f may write are taken from the working copy.
WriteBack(st, f, copy) ==
  [k \in LedgerKeys |-> IF k \in f.writes THEN copy[k] ELSE st[k]]

\* What a contract's footprint claims amount to.  Run on st with footprint f,
\* a call that stays inside f ends on the visible entries the way it ends on
\* the whole of st, and changes nothing outside f.
SoundOn(c, f, st) ==
  LET v == Visible(st, f)
  IN  /\ f \in Footprints
      /\ Run(c, v).store \in Stores
      /\ Covers(f, c, v) =>
           /\ Run(c, v).status = Run(c, st).status
           /\ Run(c, v).value  = Run(c, st).value
           /\ Run(c, st).store = WriteBack(st, f, Run(c, v).store)

\* ... for every footprint a simulation can come up with, on whatever store.
FootprintSound(SomeStores) ==
  \A c \in LedgerCalls :
    \A f \in {FootprintOf(c, s) : s \in SomeStores}, st \in SomeStores : SoundOn(c, f, st)
==============================================================================
