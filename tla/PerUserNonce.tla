----------------------------- MODULE PerUserNonce ----------------------------
(***************************************************************************)
(* Pattern 04, optimized: every account its own nonce, in temporary        *)
(* storage.  patterns/04-temporary-nonce/optimized/src/lib.rs              *)
(*                                                                         *)
(* Temporary storage is the host's.  Of it this is assumed: an entry lives *)
(* TTL ledgers, the one it was created in being the first, and may be gone *)
(* in any ledger after them.  Writing to an entry that is there does not   *)
(* give it more time; extend_ttl would, but the contract never calls it.   *)
(* Others may, which is why an entry that is due need not go.              *)
(***************************************************************************)
EXTENDS SorobanHost, Sequences

CONSTANTS
  Accounts,    \* the addresses calls name
  MaxU64,      \* the largest nonce
  TTL,         \* ledgers an entry lives that nobody extends
  MaxLedger,   \* bound: ledgers closed in a behaviour
  MaxIssued    \* bound: nonces issued to one account in a behaviour

ASSUME NonceAssumption == MaxU64 \in Nat \ {0} /\ TTL \in Nat \ {0}

VARIABLES
  store,     \* the contract's temporary storage
  created,   \* key -> ledger its entry was created in, the last time
  ledger,    \* the ledger being built
  issued     \* account -> the nonces it was handed, each with the ledger it
             \* was handed out in, and the one its entry was created in

vars == <<store, created, ledger, issued>>

Nonce(a) == <<"Nonce", a>>
Keys     == {Nonce(a) : a \in Accounts}

Values(k) == (0..MaxU64) \cup {Absent}

------------------------------------------------------------------------------
\* The handlers, as functions of the store they run on.

NextUnadvanced(who, signed, st) ==   \* mutant: hands out the counter, then bumps a copy
  LET nonce == UnwrapOr(st, Nonce(who), 0) + 1
  IN  Require(signed /\ nonce <= MaxU64, st, Ok(st, nonce))

NextSharedKey(who, signed, st) ==    \* mutant: everybody's entry moves
  LET nonce == UnwrapOr(st, Nonce(who), 0) + 1
  IN  Require(signed /\ nonce <= MaxU64, st, Ok([k \in Keys |-> nonce], nonce))

next(who, signed, st) ==
  LET nonce == UnwrapOr(st, Nonce(who), 0) + 1
  IN  Require(signed /\ nonce <= MaxU64, st, Ok(Put(st, Nonce(who), nonce), nonce))

current(who, st) == Ok(st, UnwrapOr(st, Nonce(who), 0))

\* signed: who's authorization comes with the call.
Calls ==
  [fn : {"next"}, who : Accounts, signed : BOOLEAN]
    \cup [fn : {"current"}, who : Accounts]

Invoke(c, st) ==
  CASE c.fn = "next"    -> next(c.who, c.signed, st)
    [] c.fn = "current" -> current(c.who, st)

Footprint(c, st) ==
  [reads |-> {Nonce(c.who)}, writes |-> IF c.fn = "next" THEN {Nonce(c.who)} ELSE {}]

------------------------------------------------------------------------------
Init ==
  /\ store   = [k \in Keys |-> Absent]
  /\ created = [k \in Keys |-> 0]
  /\ ledger  = 0
  /\ issued  = [a \in Accounts |-> <<>>]

\* The ledger a write to k leaves its entry created in.
Creation(k) == IF store[k] = Absent THEN ledger ELSE created[k]

NextNonce(who, signed) ==
  LET out   == next(who, signed, store)
      since == Creation(Nonce(who))
  IN  /\ Len(issued[who]) < MaxIssued
      /\ store' = out.store
      /\ IF out.status = "ok"
         THEN /\ created' = [created EXCEPT ![Nonce(who)] = since]
              /\ issued'  = [issued EXCEPT ![who] =
                               Append(@, [nonce |-> out.value, at |-> ledger, since |-> since])]
         ELSE UNCHANGED <<created, issued>>
      /\ UNCHANGED ledger

\* The entries that have lived their TTL ledgers when this one is closed.
Due == {k \in Keys : store[k] # Absent /\ ledger + 1 - created[k] >= TTL}

\* The next ledger: the entries in gone are not there any more.
CloseLedger(gone) ==
  /\ ledger < MaxLedger
  /\ gone \subseteq Due
  /\ ledger' = ledger + 1
  /\ store' = [k \in Keys |-> IF k \in gone THEN Absent ELSE store[k]]
  /\ UNCHANGED <<created, issued>>

Next ==
  \/ \E who \in Accounts, signed \in BOOLEAN : NextNonce(who, signed)
  \/ \E gone \in SUBSET Keys : CloseLedger(gone)

Spec == Init /\ [][Next]_vars

------------------------------------------------------------------------------
\* How far uniqueness per signer (BENCH.md:21) goes: nothing an account is
\* handed in the TTL ledgers from the one in which the entry was created that
\* an earlier nonce was counted in repeats that nonce or falls below it.  It
\* is the creation that counts, and not the last use.
NoRepeatWhileEntryLives ==
  \A a \in Accounts : \A i, j \in DOMAIN issued[a] :
    i < j /\ issued[a][j].at - issued[a][i].since < TTL =>
      issued[a][i].nonce < issued[a][j].nonce

\* Until its entry is evicted, each account has a naive nonce counter to
\* itself: nothing other accounts do reaches it.
Naive(a) == INSTANCE NaiveNonce WITH store <- [k \in {<<"Nonce">>} |-> store[Nonce(a)]]

EachAccountOwnCounter ==
  /\ \A a \in Accounts : Naive(a)!Init
  /\ [][\A a \in Accounts :
         \/ Naive(a)!Next
         \/ UNCHANGED store[Nonce(a)]
         \/ \E gone \in SUBSET Keys : Nonce(a) \in gone /\ CloseLedger(gone)]_vars

\* "Nonces are only guaranteed monotonic per account" (lib.rs:11), with the
\* entry "evicted once it stops being touched" (lib.rs:8): as long as never TTL
\* ledgers pass from one request of an account to its next, so that its entry
\* does not stop being touched, its nonces grow.
MonotonicWhileTouched ==
  \A a \in Accounts : \A i, j \in DOMAIN issued[a] :
    /\ i < j
    /\ \A k \in i..(j - 1) : issued[a][k + 1].at - issued[a][k].at < TTL
    => issued[a][i].nonce < issued[a][j].nonce
==============================================================================
