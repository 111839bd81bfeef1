------------------------- MODULE MCSegmentedEventLog -------------------------
(***************************************************************************)
(* Pattern 06, optimized, on the staged ledger.  An append's footprint     *)
(* names the entry its simulation found free, so it can be out of date by  *)
(* the time the append runs: this is the contract on which transactions    *)
(* are turned down and submitted again.                                    *)
(***************************************************************************)
EXTENDS SegmentedEventLog

CONSTANTS Txs,
          CallNames   \* the functions that are called in this run

ASSUME LogAssumption ==
  /\ SEGMENTS \in Nat /\ MaxU64 \in Nat
  /\ Absent \notin Messages

VARIABLES phase, call, footprint, view, receipt

LedgerKeys        == Keys
LedgerValues(k)   == Values(k)
LedgerCalls       == {c \in Calls : c.fn \in CallNames}
Run(c, st)        == Invoke(c, st)
FootprintOf(c, s) == Footprint(c, s)

L == INSTANCE StagedLedger

LedgerSpec     == L!Spec
FairLedgerSpec == L!FairSpec
SerialSpec     == L!SerialSpec

Receipts == [call : LedgerCalls, status : {"ok", "err", "trap"},
             value : Int \cup Messages \cup {Absent, "SegmentOutOfRange"}]

\* No transaction that has a receipt looks as if it had none.
ASSUME ReceiptAssumption == Absent \notin Receipts

------------------------------------------------------------------------------
Appended ==
  {t \in Txs : receipt[t] # Absent /\ receipt[t].call.fn = "append" /\ receipt[t].status = "ok"}

EntryOf(t) == Entry(receipt[t].call.segment, receipt[t].value)

\* Every append that was told an index has its message there, alone; and the
\* log holds nothing else: no gap below a tail, nothing at or above it.
LogIsWhatWasAppended ==
  /\ \A t \in Appended : store[EntryOf(t)] = receipt[t].call.msg
  /\ \A t, u \in Appended : t # u => EntryOf(t) # EntryOf(u)
  /\ \A s \in Segments, i \in Indices :
       /\ store[Entry(s, i)] # Absent <=> i < TailOf(store, s)
       /\ store[Entry(s, i)] # Absent => \E t \in Appended : EntryOf(t) = Entry(s, i)

\* No call takes an entry away, or replaces its message.
EntriesStay == \A e \in Entries : store[e] # Absent => store'[e] = store[e]

\* An entry, once readable, never changes.
EntriesAreFinal == [][EntriesStay]_store

\* Whoever is turned down had planned to write an entry that is taken by now.
OnlyByRivals ==
  \A t \in Txs :
    phase[t] = "loaded" /\ phase'[t] = "rejected" =>
      \E u \in Appended : EntryOf(u) \in footprint[t].writes

\* Segments are independent for retries as well: an append is turned down
\* only if another append got the very entry it had found free.
TurnedDownByRivalOnly == [][OnlyByRivals]_(L!vars)

\* Retrying works: on a network that serves who keeps asking, every append
\* and every read gets its receipt, however often it was overtaken.
EveryCallAnswered == \A t \in Txs : phase[t] = "pending" ~> phase[t] = "done"

\* Appended to side by side, each segment is still one log.
SegmentsAreLogs == EachSegmentIsALog
==============================================================================
