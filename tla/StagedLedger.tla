----------------------------- MODULE StagedLedger ----------------------------
(***************************************************************************)
(* CAP-0063 execution as the documentation of this repository describes    *)
(* it (docs/PLAYBOOK.md, "Background"): a transaction carries a footprint, *)
(* the keys it may read and write; the scheduler puts transactions with    *)
(* pairwise non-conflicting footprints in one stage; the transactions of a *)
(* stage run concurrently; the next stage starts when this one is over.    *)
(*                                                                         *)
(* The footprint is fixed at submission, by running the call against the   *)
(* ledger as it was then.  When the transaction runs, it loads its         *)
(* footprint's entries, works on that copy, and writes back.  Between the  *)
(* load and the write-back, others of the same stage load and write too.   *)
(*                                                                         *)
(* The contract is a parameter: its calls, its handlers (Run) and the      *)
(* footprints its doc comments claim (FootprintOf).                        *)
(***************************************************************************)
EXTENDS Footprints

CONSTANT Txs         \* transaction identities

VARIABLES
  store,             \* ledger key -> value
  phase,             \* transaction -> where it stands
  call,              \* transaction -> the call it carries
  footprint,         \* transaction -> the footprint it was submitted with
  view,              \* transaction -> its copy of the footprint's entries
  receipt            \* transaction -> what its submitter was told, or Absent

vars == <<store, phase, call, footprint, view, receipt>>

Phases == {"new", "pending", "staged", "loaded", "done", "rejected"}

\* What the submitter of call c is told when it ends with outcome out.
ReceiptOf(c, out) == [call |-> c, status |-> out.status, value |-> out.value]

\* What this takes of the contract it runs.  The *Proofs module of every
\* contract that runs on the ledger proves it.
LedgerAssumption ==
  /\ \A k \in LedgerKeys : Absent \in LedgerValues(k)
  /\ FootprintSound(Stores)

------------------------------------------------------------------------------
Init ==
  /\ store     = EmptyStore
  /\ phase     = [t \in Txs |-> "new"]
  /\ call      = [t \in Txs |-> Absent]
  /\ footprint = [t \in Txs |-> NoKeys]
  /\ view      = [t \in Txs |-> EmptyStore]
  /\ receipt   = [t \in Txs |-> Absent]

\* A client simulates c on the current ledger and sends it in.
Submit(t, c) ==
  /\ phase[t] = "new"
  /\ phase'     = [phase EXCEPT ![t] = "pending"]
  /\ call'      = [call EXCEPT ![t] = c]
  /\ footprint' = [footprint EXCEPT ![t] = FootprintOf(c, store)]
  /\ UNCHANGED <<store, view, receipt>>

ResubmitUnsimulated(t) ==   \* mutant: the old footprint is not replaced
  /\ phase[t] = "rejected"
  /\ phase' = [phase EXCEPT ![t] = "pending"]
  /\ UNCHANGED <<store, call, footprint, view, receipt>>

\* ... and once more, with a fresh footprint, after it was turned down.
Resubmit(t) ==
  /\ phase[t] = "rejected"
  /\ phase'     = [phase EXCEPT ![t] = "pending"]
  /\ footprint' = [footprint EXCEPT ![t] = FootprintOf(call[t], store)]
  /\ UNCHANGED <<store, call, view, receipt>>

InStage == {t \in Txs : phase[t] \in {"staged", "loaded"}}

\* The scheduler opens a stage of transactions that do not conflict.
OpenStage(S) ==
  /\ InStage = {}
  /\ S # {}
  /\ \A t \in S : phase[t] = "pending"
  /\ \A t, u \in S : t # u => ~Conflict(footprint[t], footprint[u])
  /\ phase' = [t \in Txs |-> IF t \in S THEN "staged" ELSE phase[t]]
  /\ UNCHANGED <<store, call, footprint, view, receipt>>

Load(t) ==
  /\ phase[t] = "staged"
  /\ phase' = [phase EXCEPT ![t] = "loaded"]
  /\ view'  = [view EXCEPT ![t] = Visible(store, footprint[t])]
  /\ UNCHANGED <<store, call, footprint, receipt>>

Commit(t) ==
  LET out == Run(call[t], view[t])
  IN  /\ phase[t] = "loaded"
      /\ Covers(footprint[t], call[t], view[t])
      /\ phase'   = [phase EXCEPT ![t] = "done"]
      /\ store'   = WriteBack(store, footprint[t], out.store)
      /\ receipt' = [receipt EXCEPT ![t] = ReceiptOf(call[t], out)]
      /\ call'      = [call EXCEPT ![t] = Absent]
      /\ footprint' = [footprint EXCEPT ![t] = NoKeys]
      /\ view'      = [view EXCEPT ![t] = EmptyStore]

\* The run reached for a key outside its footprint: the host stops it.
Reject(t) ==
  /\ phase[t] = "loaded"
  /\ ~Covers(footprint[t], call[t], view[t])
  /\ phase'     = [phase EXCEPT ![t] = "rejected"]
  /\ footprint' = [footprint EXCEPT ![t] = NoKeys]
  /\ view'      = [view EXCEPT ![t] = EmptyStore]
  /\ UNCHANGED <<store, call, receipt>>

Next ==
  \/ \E t \in Txs, c \in LedgerCalls : Submit(t, c)
  \/ \E t \in Txs : Resubmit(t)
  \/ \E S \in SUBSET Txs : OpenStage(S)
  \/ \E t \in Txs : Load(t)
  \/ \E t \in Txs : Commit(t)
  \/ \E t \in Txs : Reject(t)

Spec == Init /\ [][Next]_vars

\* The network is not in this repository.  Assumed of it: a transaction that
\* can be scheduled, and stays so, is scheduled; one that runs ends; a client
\* whose transaction was turned down tries again.
Served(t) == \E S \in SUBSET Txs : t \in S /\ OpenStage(S)

FairSpec ==
  /\ Spec
  /\ \A t \in Txs :
       /\ WF_vars(Load(t)) /\ WF_vars(Commit(t)) /\ WF_vars(Reject(t))
       /\ WF_vars(Resubmit(t))
       /\ WF_vars(Served(t))

------------------------------------------------------------------------------
TypeOK ==
  /\ store     \in Stores
  /\ phase     \in [Txs -> Phases]
  /\ call      \in [Txs -> LedgerCalls \cup {Absent}]
  /\ footprint \in [Txs -> Footprints]
  /\ view      \in [Txs -> Stores]
  /\ DOMAIN receipt = Txs
  /\ \A t \in Txs :
       /\ phase[t] \notin {"new", "done"} => call[t] \in LedgerCalls
       /\ phase[t] # "done" => receipt[t] = Absent

\* Copies, stages and retries do not show: every receipt and every store is
\* one that running the calls whole, one after another, gives as well.
Serial == INSTANCE SerialLedger

SerialSpec == Serial!Spec
==============================================================================
