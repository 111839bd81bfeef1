----------------------------- MODULE SerialLedger ----------------------------
(***************************************************************************)
(* What the users of a contract are promised: every transaction takes      *)
(* effect at one instant, on the store all earlier ones left behind, and   *)
(* its submitter gets one receipt for it.  Stages, footprints and the      *)
(* copies transactions work on do not appear here.                         *)
(***************************************************************************)
CONSTANTS
  Txs,             \* transaction identities
  LedgerCalls,     \* the contract calls a transaction can carry
  LedgerKeys,      \* the contract's ledger keys
  Absent,          \* content of a key never written; also "no receipt yet"
  Run(_, _)        \* Run(call, store): status, value and new store

VARIABLES
  store,           \* ledger key -> value
  receipt          \* transaction -> call, status and value, or Absent

vars == <<store, receipt>>

Init ==
  /\ store   = [k \in LedgerKeys |-> Absent]
  /\ receipt = [t \in Txs |-> Absent]

\* What the submitter of call c is told when it ends with outcome out.
ReceiptOf(c, out) == [call |-> c, status |-> out.status, value |-> out.value]

Execute(t, c) ==
  /\ receipt[t] = Absent
  /\ store'   = Run(c, store).store
  /\ receipt' = [receipt EXCEPT ![t] = ReceiptOf(c, Run(c, store))]

Next == \E t \in Txs, c \in LedgerCalls : Execute(t, c)

Spec == Init /\ [][Next]_vars
==============================================================================
