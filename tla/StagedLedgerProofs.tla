-------------------------- MODULE StagedLedgerProofs -------------------------
(***************************************************************************)
(* Staged execution is serial execution, for every contract whose          *)
(* footprints are sound (LedgerAssumption), every number of transactions   *)
(* and every interleaving of loads and write-backs within a stage.         *)
(***************************************************************************)
EXTENDS StagedLedger, TLAPS

\* Where a footprint comes from: a simulation of the call on some store, maybe
\* no longer the current one.
Simulated ==
  \A t \in Txs : phase[t] \in {"pending", "staged", "loaded"} =>
    \E s \in Stores : footprint[t] = FootprintOf(call[t], s)

\* What running a stage concurrently rests on: nothing a transaction may
\* write is readable or writable by another one of the stage.
StageConflictFree ==
  \A t, u \in InStage : t # u => ~Conflict(footprint[t], footprint[u])

\* However long a transaction works on its copy, whatever the others of its
\* stage write back meanwhile, the entries it loaded are still current when
\* it writes back itself: read-modify-write in a handler loses no update.
NoStaleView ==
  \A t \in Txs : phase[t] = "loaded" => view[t] = Visible(store, footprint[t])

\* What every step preserves.  NoStaleView needs StageConflictFree, to know a
\* write-back misses the other copies; TypeOK needs both and Simulated, to
\* know that what is written back is a store at all.
IInv == TypeOK /\ Simulated /\ StageConflictFree /\ NoStaleView

------------------------------------------------------------------------------
\* Nothing written, nothing seen and one store written over another are stores.
LEMMA StoresClosed ==
  ASSUME LedgerAssumption
  PROVE  /\ EmptyStore \in Stores
         /\ \A st \in Stores, f \in Footprints : Visible(st, f) \in Stores
         /\ \A st, copy \in Stores, f \in Footprints : WriteBack(st, f, copy) \in Stores
BY DEF LedgerAssumption, EmptyStore, Stores, Visible, WriteBack

\* A footprint is a set of keys read and a set of keys written.
LEMMA FootprintsTyped ==
  ASSUME LedgerAssumption
  PROVE  /\ NoKeys \in Footprints
         /\ \A c \in LedgerCalls, s \in Stores : FootprintOf(c, s) \in Footprints
BY DEF LedgerAssumption, NoKeys, Footprints, FootprintSound, SoundOn

\* How a contract's footprints are shown sound: run on what is visible and on
\* all of the store, the call says the same, leaves the same in the entries it
\* may write, and leaves the others alone.
LEMMA SoundWhen ==
  ASSUME NEW c, NEW f \in Footprints, NEW st \in Stores,
         Run(c, Visible(st, f)).store \in Stores,
         Run(c, st).store \in Stores,
         Run(c, Visible(st, f)).status = Run(c, st).status,
         Run(c, Visible(st, f)).value = Run(c, st).value,
         \A k \in f.writes : Run(c, Visible(st, f)).store[k] = Run(c, st).store[k],
         \A k \in LedgerKeys \ f.writes : Run(c, st).store[k] = st[k]
  PROVE  SoundOn(c, f, st)
<1> DEFINE after == Run(c, st).store
           back  == WriteBack(st, f, Run(c, Visible(st, f)).store)
<1>1. \A k \in LedgerKeys : after[k] = back[k]
  BY DEF WriteBack
<1>2. after = [k \in LedgerKeys |-> after[k]] /\ back = [k \in LedgerKeys |-> back[k]]
  BY DEF Stores, WriteBack
<1>3. after = back
  BY <1>1, <1>2
<1> QED BY <1>3 DEF SoundOn

\* A write-back outside what f touches does not show through f.
LEMMA WriteBackUnseen ==
  ASSUME NEW st \in Stores, NEW copy \in Stores,
         NEW f \in Footprints, NEW g \in Footprints, ~Conflict(f, g)
  PROVE  Visible(WriteBack(st, g, copy), f) = Visible(st, f)
BY DEF Visible, WriteBack, Conflict, Touched

\* What Commit does to the store and tells the submitter is what the call does
\* when it runs whole, on the store as it is.
LEMMA CommitIsSerial ==
  ASSUME LedgerAssumption, IInv, NEW t \in Txs, Commit(t)
  PROVE  /\ call[t] \in LedgerCalls
         /\ receipt[t] = Absent
         /\ Run(call[t], view[t]).store \in Stores
         /\ store' = Run(call[t], store).store
         /\ receipt' = [receipt EXCEPT ![t] = ReceiptOf(call[t], Run(call[t], store))]
<1> DEFINE c == call[t]
<1>1. phase[t] = "loaded" /\ Covers(footprint[t], c, view[t])
  BY DEF Commit
<1>2. c \in LedgerCalls /\ receipt[t] = Absent /\ store \in Stores
  BY <1>1 DEF IInv, TypeOK
<1>3. PICK s \in Stores : footprint[t] = FootprintOf(c, s)
  BY <1>1 DEF IInv, Simulated
<1>4. view[t] = Visible(store, footprint[t])
  BY <1>1 DEF IInv, NoStaleView
<1>5. SoundOn(c, footprint[t], store)
  BY <1>2, <1>3 DEF LedgerAssumption, FootprintSound
<1>6. /\ Run(c, view[t]).store \in Stores
      /\ Run(c, view[t]).status = Run(c, store).status
      /\ Run(c, view[t]).value  = Run(c, store).value
      /\ Run(c, store).store = WriteBack(store, footprint[t], Run(c, view[t]).store)
  BY <1>1, <1>4, <1>5 DEF SoundOn
<1> QED
  BY <1>2, <1>6 DEF Commit, ReceiptOf

------------------------------------------------------------------------------
LEMMA InitIInv ==
  ASSUME LedgerAssumption PROVE Init => IInv
BY StoresClosed, FootprintsTyped
   DEF Init, IInv, TypeOK, Simulated, StageConflictFree, NoStaleView, InStage, Phases

LEMMA NextIInv ==
  ASSUME LedgerAssumption PROVE IInv /\ [Next]_vars => IInv'
<1> SUFFICES ASSUME IInv, [Next]_vars PROVE IInv'
  OBVIOUS
<1> USE StoresClosed, FootprintsTyped
<1>1. ASSUME NEW t \in Txs, NEW c \in LedgerCalls, Submit(t, c) PROVE IInv'
  <2>1. TypeOK'
    BY <1>1 DEF IInv, TypeOK, Submit, Phases
  <2>2. Simulated'
    BY <1>1 DEF IInv, TypeOK, Simulated, Submit
  <2>3. StageConflictFree' /\ NoStaleView'
    BY <1>1 DEF IInv, TypeOK, StageConflictFree, NoStaleView, InStage, Submit
  <2> QED BY <2>1, <2>2, <2>3 DEF IInv
<1>2. ASSUME NEW t \in Txs, Resubmit(t) PROVE IInv'
  <2>1. TypeOK'
    BY <1>2 DEF IInv, TypeOK, Resubmit, Phases
  <2>2. Simulated'
    BY <1>2 DEF IInv, TypeOK, Simulated, Resubmit
  <2>3. StageConflictFree' /\ NoStaleView'
    BY <1>2 DEF IInv, TypeOK, StageConflictFree, NoStaleView, InStage, Resubmit
  <2> QED BY <2>1, <2>2, <2>3 DEF IInv
<1>3. ASSUME NEW S \in SUBSET Txs, OpenStage(S) PROVE IInv'
  <2>1. TypeOK' /\ Simulated'
    BY <1>3 DEF IInv, TypeOK, Simulated, OpenStage, Phases
  <2>2. InStage' = S
    BY <1>3 DEF IInv, TypeOK, InStage, OpenStage
  <2>3. StageConflictFree'
    BY <1>3, <2>2 DEF StageConflictFree, OpenStage
  <2>4. NoStaleView'
    BY <1>3 DEF IInv, TypeOK, NoStaleView, InStage, OpenStage
  <2> QED BY <2>1, <2>3, <2>4 DEF IInv
<1>4. ASSUME NEW t \in Txs, Load(t) PROVE IInv'
  <2>1. TypeOK' /\ Simulated'
    BY <1>4 DEF IInv, TypeOK, Simulated, Load, Phases
  <2>2. InStage' = InStage
    BY <1>4 DEF IInv, TypeOK, InStage, Load
  <2>3. StageConflictFree'
    BY <1>4, <2>2 DEF IInv, StageConflictFree, Load
  <2>4. NoStaleView'
    BY <1>4 DEF IInv, TypeOK, NoStaleView, Load
  <2> QED BY <2>1, <2>3, <2>4 DEF IInv
<1>5. ASSUME NEW t \in Txs, Commit(t) PROVE IInv'
  <2> DEFINE copy == Run(call[t], view[t]).store
  <2>1. /\ copy \in Stores
        /\ phase[t] = "loaded"
        /\ store' = WriteBack(store, footprint[t], copy)
    BY <1>5, CommitIsSerial DEF Commit
  <2>2. TypeOK'
    <3>1. /\ store \in Stores /\ footprint \in [Txs -> Footprints]
          /\ view \in [Txs -> Stores] /\ phase \in [Txs -> Phases]
          /\ call \in [Txs -> LedgerCalls \cup {Absent}]
      BY DEF IInv, TypeOK
    <3>2. store' \in Stores
      BY <2>1, <3>1
    <3>3. /\ phase' \in [Txs -> Phases] /\ call' \in [Txs -> LedgerCalls \cup {Absent}]
          /\ footprint' \in [Txs -> Footprints] /\ view' \in [Txs -> Stores]
      BY <1>5, <3>1 DEF Commit, Phases
    <3>4. /\ DOMAIN receipt' = Txs
          /\ \A u \in Txs : /\ phase'[u] \notin {"new", "done"} => call'[u] \in LedgerCalls
                            /\ phase'[u] # "done" => receipt'[u] = Absent
      BY <1>5 DEF Commit, IInv, TypeOK
    <3> QED BY <3>2, <3>3, <3>4 DEF TypeOK
  <2>3. Simulated'
    BY <1>5 DEF IInv, TypeOK, Simulated, Commit
  <2>4. InStage' = InStage \ {t}
    BY <1>5 DEF IInv, TypeOK, InStage, Commit
  <2>5. StageConflictFree'
    BY <1>5, <2>4 DEF IInv, TypeOK, StageConflictFree, InStage, Commit
  <2>6. NoStaleView'
    <3> SUFFICES ASSUME NEW u \in Txs, phase'[u] = "loaded"
                 PROVE  view'[u] = Visible(store', footprint'[u])
      BY DEF NoStaleView
    <3>1. u # t /\ phase[u] = "loaded" /\ view'[u] = view[u] /\ footprint'[u] = footprint[u]
      BY <1>5 DEF IInv, TypeOK, Commit
    <3>2. ~Conflict(footprint[u], footprint[t])
      BY <2>1, <3>1 DEF IInv, StageConflictFree, InStage
    <3>3. Visible(store', footprint[u]) = Visible(store, footprint[u])
      <4>1. store \in Stores /\ footprint[u] \in Footprints /\ footprint[t] \in Footprints
        BY DEF IInv, TypeOK
      <4> HIDE DEF copy
      <4>2. PICK f \in Footprints, g \in Footprints : f = footprint[u] /\ g = footprint[t]
        BY <4>1
      <4>3. copy \in Stores /\ ~Conflict(f, g)
        BY <2>1, <3>2, <4>2
      <4>4. Visible(WriteBack(store, g, copy), f) = Visible(store, f)
        BY ONLY <4>1, <4>3, WriteBackUnseen
      <4> QED BY <2>1, <4>2, <4>4
    <3> QED BY <3>1, <3>3 DEF IInv, NoStaleView
  <2> QED BY <2>2, <2>3, <2>5, <2>6 DEF IInv
<1>6. ASSUME NEW t \in Txs, Reject(t) PROVE IInv'
  <2>1. TypeOK' /\ Simulated'
    BY <1>6 DEF IInv, TypeOK, Simulated, Reject, Phases
  <2>2. InStage' = InStage \ {t}
    BY <1>6 DEF IInv, TypeOK, InStage, Reject
  <2>3. StageConflictFree'
    BY <1>6, <2>2 DEF IInv, TypeOK, StageConflictFree, InStage, Reject
  <2>4. NoStaleView'
    BY <1>6 DEF IInv, TypeOK, NoStaleView, Reject
  <2> QED BY <2>1, <2>3, <2>4 DEF IInv
<1>7. CASE UNCHANGED vars
  BY <1>7 DEF vars, IInv, TypeOK, Simulated, StageConflictFree, NoStaleView, InStage
<1> QED
  BY <1>1, <1>2, <1>3, <1>4, <1>5, <1>6, <1>7 DEF Next

\* The invariant, for every contract with sound footprints.
THEOREM Invariant ==
  ASSUME LedgerAssumption PROVE Spec => []IInv
BY InitIInv, NextIInv, PTL DEF Spec

\* Type correctness of the staged ledger.
THEOREM TypeCorrect ==
  ASSUME LedgerAssumption PROVE Spec => []TypeOK
BY Invariant, PTL DEF IInv

------------------------------------------------------------------------------
\* Only Commit shows, and it is one whole call on the current store.
LEMMA StepIsSerial ==
  ASSUME LedgerAssumption PROVE IInv /\ [Next]_vars => [Serial!Next]_(Serial!vars)
<1> SUFFICES ASSUME IInv, [Next]_vars PROVE [Serial!Next]_(Serial!vars)
  OBVIOUS
<1>1. ASSUME NEW t \in Txs, Commit(t) PROVE Serial!Next
  <2>1. Serial!Execute(t, call[t])
    BY <1>1, CommitIsSerial DEF Serial!Execute, Serial!ReceiptOf, ReceiptOf
  <2> QED BY <1>1, <2>1, CommitIsSerial DEF Serial!Next
<1>2. CASE \/ \E t \in Txs, c \in LedgerCalls : Submit(t, c)
           \/ \E t \in Txs : Resubmit(t)
           \/ \E S \in SUBSET Txs : OpenStage(S)
           \/ \E t \in Txs : Load(t)
           \/ \E t \in Txs : Reject(t)
           \/ UNCHANGED vars
  BY <1>2 DEF Submit, Resubmit, OpenStage, Load, Reject, vars, Serial!vars
<1> QED
  BY <1>1, <1>2 DEF Next

\* Every receipt and every store of a staged behaviour is one that running the
\* calls whole, one after another, gives as well.
THEOREM StagedIsSerial ==
  ASSUME LedgerAssumption PROVE Spec => SerialSpec
<1>1. Init => Serial!Init
  BY DEF Init, EmptyStore, Serial!Init
<1> QED
  BY <1>1, StepIsSerial, Invariant, PTL DEF Spec, SerialSpec, Serial!Spec

------------------------------------------------------------------------------
\* What a call touches does not depend on what is in the store.
FixedFootprints ==
  \A c \in LedgerCalls : \A s, st \in Stores : FootprintOf(c, s) = FootprintOf(c, st)

NoneRejected == \A t \in Txs : phase[t] # "rejected"

\* Run on what its footprint shows of the store, such a call reaches for what
\* it was simulated to reach for.
LEMMA NoReject ==
  ASSUME LedgerAssumption, FixedFootprints, IInv, NEW t \in Txs PROVE ~Reject(t)
<1> SUFFICES ASSUME phase[t] = "loaded" PROVE Covers(footprint[t], call[t], view[t])
  BY DEF Reject
<1>1. call[t] \in LedgerCalls /\ view[t] \in Stores /\ footprint[t] \in Footprints
  BY DEF IInv, TypeOK
<1>2. PICK s \in Stores : footprint[t] = FootprintOf(call[t], s)
  BY DEF IInv, Simulated
<1>3. FootprintOf(call[t], view[t]) = footprint[t]
  BY <1>1, <1>2 DEF FixedFootprints
<1> QED BY <1>3 DEF Covers, Touched

LEMMA StepRejectsNone ==
  ASSUME LedgerAssumption, FixedFootprints
  PROVE  IInv /\ NoneRejected /\ [Next]_vars => NoneRejected'
<1> SUFFICES ASSUME IInv, NoneRejected, [Next]_vars, NEW u \in Txs PROVE phase'[u] # "rejected"
  BY DEF NoneRejected
<1>1. phase \in [Txs -> Phases] /\ phase[u] # "rejected"
  BY DEF IInv, TypeOK, NoneRejected
<1>2. CASE \/ \E t \in Txs, c \in LedgerCalls : Submit(t, c)
           \/ \E t \in Txs : Resubmit(t) \/ Load(t) \/ Commit(t)
           \/ UNCHANGED vars
  BY <1>1, <1>2 DEF Submit, Resubmit, Load, Commit, vars
<1>3. ASSUME NEW S \in SUBSET Txs, OpenStage(S) PROVE phase'[u] # "rejected"
  BY <1>1, <1>3 DEF OpenStage
<1> QED BY <1>2, <1>3, NoReject DEF Next

\* Only footprints read off the store, like the tail of a log, can be out of
\* date: no call of a contract without any is ever stopped by the host, and
\* none has to be sent in again.
THEOREM NobodyTurnedDown ==
  ASSUME LedgerAssumption, FixedFootprints PROVE Spec => []NoneRejected
<1>1. Init => NoneRejected
  BY DEF Init, NoneRejected
<1> QED BY <1>1, StepRejectsNone, Invariant, PTL DEF Spec
==============================================================================
