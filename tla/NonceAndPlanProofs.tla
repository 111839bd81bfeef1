-------------------------- MODULE NonceAndPlanProofs -------------------------
(***************************************************************************)
(* The two specifications that stand by themselves, off the staged ledger: *)
(* the per-account nonces of pattern 04 in entries that get evicted, for   *)
(* every number of accounts, every time to live and every counter width;   *)
(* and the stages of batches, of any length and any mix of operations.     *)
(***************************************************************************)
EXTENDS PerUserNonce, MCStagePlanning, SequenceTheorems, FiniteSetTheorems,
        WellFoundedInduction, TLAPS


\* The counter an account's next nonce is counted from.
LastOf(a) == UnwrapOr(store, Nonce(a), 0)

NoncesTyped ==
  /\ store   \in [Keys -> (0..MaxU64) \cup {Absent}]
  /\ created \in [Keys -> Nat]
  /\ ledger  \in Nat
  /\ issued  \in [Accounts -> Seq([nonce : Nat, at : Nat, since : Nat])]

\* What keeps nonces apart: the entry there is now was created no earlier than
\* any that nonces were counted in, so while one that something was handed out
\* of is younger than TTL, it is the one there is, and has counted up to it.
EntryCovers ==
  \A a \in Accounts :
    /\ created[Nonce(a)] <= ledger
    /\ \A i \in DOMAIN issued[a] :
         /\ issued[a][i].since <= created[Nonce(a)]
         /\ ledger - issued[a][i].since < TTL => issued[a][i].nonce <= LastOf(a)

NInv == NoncesTyped /\ EntryCovers /\ NoRepeatWhileEntryLives

LEMMA NoncesDiffer ==
  /\ \A a, b : Nonce(a) = Nonce(b) => a = b
  /\ \A a \in Accounts : Nonce(a) \in Keys
  /\ \A k \in Keys : \E a \in Accounts : k = Nonce(a)
BY DEF Nonce, Keys

LEMMA IssuedTyped ==
  ASSUME NoncesTyped, NEW a \in Accounts
  PROVE  \A i \in DOMAIN issued[a] :
           issued[a][i].at \in Nat /\ issued[a][i].since \in Nat /\ issued[a][i].nonce \in Nat
<1>1. issued[a] \in Seq([nonce : Nat, at : Nat, since : Nat])
  BY DEF NoncesTyped
<1>2. \A i \in DOMAIN issued[a] : issued[a][i] \in [nonce : Nat, at : Nat, since : Nat]
  BY <1>1, ElementOfSeq, LenProperties
<1> QED BY <1>2

\* What the handler does: it counts its caller's entry up, or nothing happens.
LEMMA NextIs ==
  ASSUME NoncesTyped, NEW who \in Accounts, NEW signed \in BOOLEAN
  PROVE  LET n   == LastOf(who) + 1
             out == next(who, signed, store)
         IN  /\ LastOf(who) \in Nat
             /\ IF signed /\ n <= MaxU64
                THEN /\ out.status = "ok" /\ out.value = n
                     /\ out.store = [store EXCEPT ![Nonce(who)] = n]
                ELSE out.status = "trap" /\ out.store = store
<1>1. LastOf(who) \in Nat
  <2>1. store[Nonce(who)] \in (0..MaxU64) \cup {Absent}
    BY NoncesDiffer DEF NoncesTyped
  <2> QED BY <2>1, NonceAssumption DEF LastOf, UnwrapOr
<1> QED BY <1>1 DEF next, LastOf, Require, Ok, Trap, Put

LEMMA InitNInv == Init => NInv
<1> SUFFICES ASSUME Init PROVE NInv
  OBVIOUS
<1>1. NoncesTyped
  BY DEF Init, NoncesTyped
<1>2. \A a \in Accounts : DOMAIN issued[a] = {} /\ created[Nonce(a)] = 0 /\ ledger = 0
  BY NoncesDiffer DEF Init
<1> QED BY <1>1, <1>2 DEF NInv, EntryCovers, NoRepeatWhileEntryLives

\* One element more at the end of a sequence.
LEMMA AppendIs ==
  ASSUME NEW S, NEW s \in Seq(S), NEW r \in S
  PROVE  /\ Append(s, r) \in Seq(S)
         /\ DOMAIN Append(s, r) = DOMAIN s \cup {Len(s) + 1}
         /\ \A i \in DOMAIN s : Append(s, r)[i] = s[i]
         /\ Append(s, r)[Len(s) + 1] = r
         /\ DOMAIN s = 1..Len(s) /\ Len(s) \in Nat
<1>1. DOMAIN s = 1..Len(s) /\ Len(s) \in Nat
  OBVIOUS
<1>2. /\ Append(s, r) \in Seq(S) /\ Len(Append(s, r)) = Len(s) + 1
      /\ Append(s, r)[Len(s) + 1] = r
      /\ \A i \in 1..Len(s) : Append(s, r)[i] = s[i]
  BY AppendProperties
<1>3. DOMAIN Append(s, r) = 1..(Len(s) + 1)
  BY <1>2, LenProperties
<1>4. 1..(Len(s) + 1) = 1..Len(s) \cup {Len(s) + 1}
  BY <1>1
<1> QED BY <1>1, <1>2, <1>3, <1>4

\* One account's entry counted up, and what it was handed.
LEMMA CountedUp ==
  ASSUME NInv, NEW who \in Accounts,
         LET n  == LastOf(who) + 1
             c0 == Creation(Nonce(who))
         IN  /\ n <= MaxU64
             /\ store' = [store EXCEPT ![Nonce(who)] = n]
             /\ created' = [created EXCEPT ![Nonce(who)] = c0]
             /\ issued' = [issued EXCEPT ![who] =
                             Append(@, [nonce |-> n, at |-> ledger, since |-> c0])]
             /\ ledger' = ledger
  PROVE  NInv'
<1> DEFINE n == LastOf(who) + 1
           c == Creation(Nonce(who))
           r == [nonce |-> n, at |-> ledger, since |-> c]
           s == issued[who]
           m == Len(s) + 1
<1>1. NoncesTyped /\ EntryCovers /\ NoRepeatWhileEntryLives
  BY DEF NInv
<1>2. Nonce(who) \in Keys /\ store[Nonce(who)] \in (0..MaxU64) \cup {Absent} /\ MaxU64 \in Nat
  BY <1>1, NoncesDiffer, NonceAssumption DEF NoncesTyped
<1>3. n \in Nat /\ n \in 0..MaxU64 /\ LastOf(who) \in Nat
  BY <1>2, NonceAssumption DEF LastOf, UnwrapOr
<1>13. /\ c \in Nat /\ created[Nonce(who)] \in Nat
       /\ created[Nonce(who)] <= c /\ c <= ledger /\ ledger \in Nat
  <2>1. created[Nonce(who)] \in Nat /\ ledger \in Nat /\ created[Nonce(who)] <= ledger
    BY <1>1, <1>2 DEF NoncesTyped, EntryCovers
  <2> QED BY <2>1 DEF Creation
<1>4. s \in Seq([nonce : Nat, at : Nat, since : Nat]) /\ r \in [nonce : Nat, at : Nat, since : Nat] /\ ledger \in Nat
  BY <1>1, <1>3, <1>13 DEF NoncesTyped
<1>5. /\ Append(s, r) \in Seq([nonce : Nat, at : Nat, since : Nat])
      /\ DOMAIN Append(s, r) = DOMAIN s \cup {m}
      /\ \A i \in DOMAIN s : Append(s, r)[i] = s[i]
      /\ Append(s, r)[m] = r
      /\ DOMAIN s = 1..Len(s) /\ Len(s) \in Nat
  <2> HIDE DEF s, r
  <2> QED BY <1>4, AppendIs, Zenon DEF m
<1> HIDE DEF n, c, r, s, m
<1>6. /\ store' = [store EXCEPT ![Nonce(who)] = n]
      /\ created' = [created EXCEPT ![Nonce(who)] = c]
      /\ issued' = [issued EXCEPT ![who] = Append(s, r)]
      /\ ledger' = ledger
  BY DEF n, c, r, s
<1>7. NoncesTyped'
  BY <1>1, <1>2, <1>3, <1>5, <1>6, <1>13 DEF NoncesTyped
<1>8. /\ issued'[who] = Append(s, r) /\ created'[Nonce(who)] = c
      /\ LastOf(who)' = n
      /\ \A a \in Accounts \ {who} : /\ issued'[a] = issued[a]
                                     /\ created'[Nonce(a)] = created[Nonce(a)]
                                     /\ LastOf(a)' = LastOf(a)
  <2>1. issued'[who] = Append(s, r) /\ \A a \in Accounts \ {who} : issued'[a] = issued[a]
    BY <1>1, <1>6 DEF NoncesTyped
  <2>2. /\ created'[Nonce(who)] = c
        /\ \A a \in Accounts \ {who} : created'[Nonce(a)] = created[Nonce(a)]
    BY <1>1, <1>2, <1>6, NoncesDiffer DEF NoncesTyped
  <2>3. store'[Nonce(who)] = n /\ \A a \in Accounts \ {who} : store'[Nonce(a)] = store[Nonce(a)]
    BY <1>1, <1>2, <1>6, NoncesDiffer DEF NoncesTyped
  <2>4. n # Absent
    BY <1>3, AbsentAssumption
  <2> QED BY <2>1, <2>2, <2>3, <2>4 DEF LastOf, UnwrapOr
<1>9. /\ \A i \in DOMAIN s :
           /\ s[i].since <= created[Nonce(who)]
           /\ s[i].since \in Nat /\ s[i].at \in Nat /\ s[i].nonce \in Nat
           /\ ledger - s[i].since < TTL => s[i].nonce <= LastOf(who)
      /\ \A i, j \in DOMAIN s : i < j /\ s[j].at - s[i].since < TTL => s[i].nonce < s[j].nonce
      /\ LastOf(who) < n
  <2>1. \A i \in DOMAIN s : s[i].at \in Nat /\ s[i].since \in Nat /\ s[i].nonce \in Nat
    BY <1>1, IssuedTyped DEF s
  <2>2. LastOf(who) < n
    BY <1>3 DEF n
  <2> QED BY <1>1, <2>1, <2>2 DEF EntryCovers, NoRepeatWhileEntryLives, s
<1>10. r.nonce = n /\ r.at = ledger /\ r.since = c
  BY DEF r
<1>11. EntryCovers'
  <2> SUFFICES ASSUME NEW a \in Accounts
               PROVE  /\ created'[Nonce(a)] <= ledger'
                      /\ \A i \in DOMAIN issued'[a] :
                           /\ issued'[a][i].since <= created'[Nonce(a)]
                           /\ ledger' - issued'[a][i].since < TTL =>
                                issued'[a][i].nonce <= LastOf(a)'
    BY DEF EntryCovers
  <2>1. CASE a # who
    BY <1>1, <1>6, <1>8, <2>1 DEF EntryCovers
  <2>2. CASE a = who
    <3>1. ASSUME NEW i \in DOMAIN issued'[who]
          PROVE  /\ issued'[who][i].since <= c
                 /\ ledger - issued'[who][i].since < TTL => issued'[who][i].nonce <= n
      <4>1. CASE i \in DOMAIN s
        <5>1. issued'[who][i] = s[i]
          BY <1>5, <1>8, <4>1
        <5>2. s[i].since \in Nat /\ s[i].nonce \in Nat /\ s[i].since <= created[Nonce(who)]
          BY <1>9, <4>1
        <5>3. s[i].since <= c
          BY <1>13, <5>2
        <5>4. ledger - s[i].since < TTL => s[i].nonce <= LastOf(who)
          BY <1>9, <4>1
        <5>5. ledger - s[i].since < TTL => s[i].nonce <= n
          BY <1>3, <1>9, <5>2, <5>4
        <5> QED BY <5>1, <5>3, <5>5
      <4>2. CASE i = m
        <5>1. issued'[who][i] = r
          BY <1>5, <1>8, <4>2
        <5> QED BY <1>3, <1>10, <1>13, <5>1
      <4> QED BY <1>5, <1>8, <3>1, <4>1, <4>2
    <3> QED BY <1>6, <1>8, <1>13, <2>2, <3>1
  <2> QED BY <2>1, <2>2
<1>12. NoRepeatWhileEntryLives'
  <2> SUFFICES ASSUME NEW a \in Accounts, NEW i \in DOMAIN issued'[a], NEW j \in DOMAIN issued'[a],
                      i < j, issued'[a][j].at - issued'[a][i].since < TTL
               PROVE  issued'[a][i].nonce < issued'[a][j].nonce
    BY DEF NoRepeatWhileEntryLives
  <2>1. CASE a # who
    <3>1. issued'[a] = issued[a]
      BY <1>8, <2>1
    <3>2. /\ i \in DOMAIN issued[a] /\ j \in DOMAIN issued[a]
          /\ issued[a][j].at - issued[a][i].since < TTL
      BY <3>1
    <3>3. issued[a][i].nonce < issued[a][j].nonce
      BY <1>1, <3>2, Zenon DEF NoRepeatWhileEntryLives
    <3> QED BY <3>1, <3>3
  <2>2. CASE a = who
    <3>1. issued'[a] = Append(s, r)
      BY <1>8, <2>2
    <3>2. i \in DOMAIN s \cup {m} /\ j \in DOMAIN s \cup {m}
      BY <1>5, <3>1, Zenon
    <3>3. i \in DOMAIN s
      <4>1. \A k \in DOMAIN s \cup {m} : k \in 1..m
        BY <1>5 DEF m
      <4>2. i \in 1..m /\ j \in 1..m /\ m \in Nat
        BY <1>5, <3>2, <4>1 DEF m
      <4>3. i # m
        BY <4>2
      <4> QED BY <3>2, <4>3
    <3>4. CASE j \in DOMAIN s
      <4>1. issued'[a][i] = s[i] /\ issued'[a][j] = s[j]
        BY <1>5, <3>1, <3>3, <3>4
      <4>2. s[j].at - s[i].since < TTL
        BY <4>1
      <4>3. s[i].nonce < s[j].nonce
        BY <1>9, <3>3, <3>4, <4>2
      <4> QED BY <4>1, <4>3
    <3>5. CASE j = m
      <4>0. issued'[a][i] = s[i] /\ issued'[a][j] = r
        BY <1>5, <3>1, <3>3, <3>5
      <4>1. ledger - s[i].since < TTL
        BY <1>10, <4>0
      <4>2. s[i].nonce \in Nat /\ s[i].nonce <= LastOf(who)
        BY <1>9, <3>3, <4>1
      <4>3. s[i].nonce < n
        BY <1>3, <1>9, <4>2
      <4> QED BY <1>10, <4>0, <4>3
    <3> QED BY <3>2, <3>4, <3>5
  <2> QED BY <2>1, <2>2
<1> QED BY <1>7, <1>11, <1>12 DEF NInv

LEMMA NextNInv == NInv /\ [Next]_vars => NInv'
<1> SUFFICES ASSUME NInv, [Next]_vars PROVE NInv'
  OBVIOUS
<1>1. ASSUME NEW who \in Accounts, NEW signed \in BOOLEAN, NextNonce(who, signed) PROVE NInv'
  <2> DEFINE n == LastOf(who) + 1
  <2>1. CASE signed /\ n <= MaxU64
    <3>1. /\ next(who, signed, store).status = "ok"
          /\ next(who, signed, store).value = n
          /\ next(who, signed, store).store = [store EXCEPT ![Nonce(who)] = n]
      BY <2>1, NextIs DEF NInv
    <3> QED BY <1>1, <2>1, <3>1, CountedUp DEF NextNonce
  <2>2. CASE ~(signed /\ n <= MaxU64)
    <3>1. UNCHANGED vars
      BY <1>1, <2>2, NextIs DEF NextNonce, vars, NInv
    <3> QED BY <3>1 DEF vars, NInv, NoncesTyped, EntryCovers, NoRepeatWhileEntryLives, LastOf, UnwrapOr
  <2> QED BY <2>1, <2>2
<1>2. ASSUME NEW gone \in SUBSET Keys, CloseLedger(gone) PROVE NInv'
  <2>1. /\ UNCHANGED <<created, issued>> /\ ledger' = ledger + 1 /\ ledger \in Nat
        /\ store' = [k \in Keys |-> IF k \in gone THEN Absent ELSE store[k]]
        /\ \A k \in gone : ledger + 1 - created[k] >= TTL
    BY <1>2 DEF CloseLedger, Due, NInv, NoncesTyped
  <2>2. NoncesTyped' /\ NoRepeatWhileEntryLives'
    BY <2>1 DEF NInv, NoncesTyped, NoRepeatWhileEntryLives
  <2>3. EntryCovers'
    <3> SUFFICES ASSUME NEW a \in Accounts
                 PROVE  /\ created[Nonce(a)] <= ledger + 1
                        /\ \A i \in DOMAIN issued[a] :
                             /\ issued[a][i].since <= created[Nonce(a)]
                             /\ (ledger + 1) - issued[a][i].since < TTL =>
                                  issued[a][i].nonce <= LastOf(a)'
      BY <2>1 DEF EntryCovers
    <3>1. created[Nonce(a)] \in Nat /\ Nonce(a) \in Keys /\ TTL \in Nat
      BY NoncesDiffer, NonceAssumption DEF NInv, NoncesTyped
    <3>2. \A i \in DOMAIN issued[a] : issued[a][i].since \in Nat
      BY IssuedTyped DEF NInv
    <3>3. /\ created[Nonce(a)] <= ledger
          /\ \A i \in DOMAIN issued[a] :
               /\ issued[a][i].since <= created[Nonce(a)]
               /\ ledger - issued[a][i].since < TTL => issued[a][i].nonce <= LastOf(a)
      BY DEF NInv, EntryCovers
    <3>4. CASE Nonce(a) \in gone
      BY <2>1, <3>1, <3>2, <3>3, <3>4
    <3>5. CASE Nonce(a) \notin gone
      <4>1. LastOf(a)' = LastOf(a)
        BY <2>1, <3>1, <3>5 DEF LastOf, UnwrapOr
      <4> QED BY <2>1, <3>1, <3>2, <3>3, <4>1
    <3> QED BY <3>4, <3>5
  <2> QED BY <2>2, <2>3 DEF NInv
<1>3. CASE UNCHANGED vars
  BY <1>3 DEF vars, NInv, NoncesTyped, EntryCovers, NoRepeatWhileEntryLives, LastOf, UnwrapOr
<1> QED BY <1>1, <1>2, <1>3 DEF Next

\* The invariant of every run, evictions and all.
THEOREM Invariant == Spec => []NInv
BY InitNInv, NextNInv, PTL DEF Spec

\* For TTL ledgers from the one its entry was created in, an account is not
\* handed the same nonce twice, and the later one is the larger.
THEOREM NoncesDoNotRepeat == Spec => []NoRepeatWhileEntryLives
BY Invariant, PTL DEF NInv

------------------------------------------------------------------------------
LEMMA InitOwnCounter == Init => \A a \in Accounts : Naive(a)!Init
BY NoncesDiffer DEF Init, Naive!Init, Naive!Keys, Naive!Nonce

LEMMA StepOwnCounter ==
  NInv /\ [Next]_vars =>
    [\A a \in Accounts :
       \/ Naive(a)!Next
       \/ UNCHANGED store[Nonce(a)]
       \/ \E gone \in SUBSET Keys : Nonce(a) \in gone /\ CloseLedger(gone)]_vars
<1> SUFFICES ASSUME NInv, Next, NEW a \in Accounts
             PROVE  \/ Naive(a)!Next
                    \/ UNCHANGED store[Nonce(a)]
                    \/ \E gone \in SUBSET Keys : Nonce(a) \in gone /\ CloseLedger(gone)
  OBVIOUS
<1>1. store \in [Keys -> (0..MaxU64) \cup {Absent}] /\ Nonce(a) \in Keys
  BY NoncesDiffer DEF NInv, NoncesTyped
<1>2. ASSUME NEW who \in Accounts, NEW signed \in BOOLEAN, NextNonce(who, signed)
      PROVE  Naive(a)!Next \/ UNCHANGED store[Nonce(a)]
  <2> DEFINE n   == LastOf(who) + 1
             one == [k \in {<<"Nonce">>} |-> store[Nonce(a)]]
  <2>1. store' = next(who, signed, store).store
    BY <1>2 DEF NextNonce
  <2>2. CASE signed /\ n <= MaxU64
    <3>1. store' = [store EXCEPT ![Nonce(who)] = n]
      BY <2>1, <2>2, NextIs DEF NInv
    <3>2. CASE a # who
      BY <1>1, <3>1, <3>2, NoncesDiffer
    <3>3. CASE a = who
      <4>1. store'[Nonce(a)] = n
        BY <1>1, <3>1, <3>3
      <4>2. Naive(a)!UnwrapOr(one, Naive(a)!Nonce, 0) + 1 = n
        BY <3>3 DEF Naive!UnwrapOr, Naive!Nonce, LastOf, UnwrapOr
      <4> HIDE DEF n
      <4>3. Naive(a)!next(one).store = Naive(a)!Put(one, Naive(a)!Nonce, n)
        BY <2>2, <4>2 DEF Naive!next, Naive!Require, Naive!Ok
      <4>4. Naive(a)!Put(one, Naive(a)!Nonce, n) = [k \in {<<"Nonce">>} |-> n]
        BY DEF Naive!Put, Naive!Nonce
      <4>5. [k \in {<<"Nonce">>} |-> store'[Nonce(a)]] = Naive(a)!next(one).store
        BY <4>1, <4>3, <4>4
      <4> QED BY <4>5 DEF Naive!Next, Naive!NextNonce
    <3> QED BY <3>2, <3>3
  <2>3. CASE ~(signed /\ n <= MaxU64)
    BY <2>1, <2>3, NextIs DEF NInv
  <2> QED BY <2>2, <2>3
<1>3. ASSUME NEW gone \in SUBSET Keys, CloseLedger(gone), Nonce(a) \notin gone
      PROVE  UNCHANGED store[Nonce(a)]
  BY <1>1, <1>3 DEF CloseLedger
<1> QED BY <1>2, <1>3 DEF Next

\* Nothing other accounts do reaches an account's counter: until its entry is
\* evicted it is a naive nonce contract of its own.
THEOREM CountersAreSeparate == Spec => EachAccountOwnCounter
BY Invariant, InitOwnCounter, StepOwnCounter, PTL DEF Spec, EachAccountOwnCounter

------------------------------------------------------------------------------
\* There is one fewest number of stages.
LEMMA StagesAre ==
  ASSUME NEW fs, Len(fs) \in Nat, NEW k \in 0..Len(fs),
         \E plan \in [DOMAIN fs -> 1..k] : IsPlan(plan, fs),
         \A m \in 0..(k - 1) : ~ \E plan \in [DOMAIN fs -> 1..m] : IsPlan(plan, fs)
  PROVE  StagesOf(fs) = k
<1> DEFINE P(n) == \E plan \in [DOMAIN fs -> 1..n] : IsPlan(plan, fs)
           F(n) == P(n) /\ \A m \in 0..(n - 1) : ~P(m)
<1> HIDE DEF P
<1>1. F(k)
  BY DEF P
<1>2. ASSUME NEW n \in 0..Len(fs), F(n) PROVE n = k
  <2>1. CASE n < k
    BY <1>1, <1>2, <2>1
  <2>2. CASE k < n
    BY <1>1, <1>2, <2>2
  <2> QED BY <2>1, <2>2
<1>3. StagesOf(fs) = CHOOSE n \in 0..Len(fs) : F(n)
  BY DEF P, StagesOf
<1>4. F(CHOOSE n \in 0..Len(fs) : F(n))
  BY <1>1
<1> HIDE DEF F
<1> QED BY <1>1, <1>2, <1>3

\* A clique takes a stage for each of its members, at least.
LEMMA CliqueBound ==
  ASSUME NEW fs, NEW S \in SUBSET (DOMAIN fs), IsFiniteSet(S), NEW m \in Nat,
         DOMAIN fs \subseteq Int, m < Cardinality(S),
         \A i, j \in S : i < j => Conflict(fs[i], fs[j]),
         NEW plan \in [DOMAIN fs -> 1..m]
  PROVE  ~IsPlan(plan, fs)
<1> DEFINE small == [i \in S |-> plan[i]]
<1>1. IsFiniteSet(1..m) /\ Cardinality(1..m) = m
  BY FS_Interval
<1>2. small \in [S -> 1..m]
  OBVIOUS
<1>3. \E x, y \in S : x # y /\ small[x] = small[y]
  <2> HIDE DEF small
  <2>1. Cardinality(1..m) < Cardinality(S)
    BY <1>1
  <2> QED BY <1>1, <1>2, <2>1, FS_PigeonHole, Zenon
<1>4. PICK x, y \in S : x < y /\ plan[x] = plan[y]
  BY <1>3
<1>5. <<x, y>> \in Edges(fs)
  BY <1>4 DEF Edges
<1> QED BY <1>4, <1>5 DEF IsPlan

\* Operations on one another's way take a stage each.
LEMMA OneStageEach ==
  ASSUME NEW fs, NEW n \in Nat, Len(fs) = n, DOMAIN fs = 1..n,
         \A i, j \in 1..n : i < j => Conflict(fs[i], fs[j])
  PROVE  StagesOf(fs) = n
<1> DEFINE inOrder == [i \in 1..n |-> i]
<1>1. inOrder \in [DOMAIN fs -> 1..n] /\ IsPlan(inOrder, fs)
  BY DEF IsPlan, Edges
<1>2. ASSUME NEW m \in 0..(n - 1), NEW plan \in [DOMAIN fs -> 1..m]
      PROVE  ~IsPlan(plan, fs)
  <2>1. IsFiniteSet(1..n) /\ Cardinality(1..n) = n
    BY FS_Interval
  <2>2. 1..n \in SUBSET (DOMAIN fs) /\ DOMAIN fs \subseteq Int /\ m \in Nat /\ m < Cardinality(1..n)
    BY <2>1
  <2> QED BY <2>1, <2>2, <1>2, CliqueBound
<1> HIDE DEF inOrder
<1>3. \E plan \in [DOMAIN fs -> 1..n] : IsPlan(plan, fs)
  BY <1>1
<1>4. \A m \in 0..(n - 1) : ~ \E plan \in [DOMAIN fs -> 1..m] : IsPlan(plan, fs)
  BY <1>2
<1>5. n \in 0..Len(fs) /\ Len(fs) \in Nat
  OBVIOUS
<1> QED BY <1>3, <1>4, <1>5, StagesAre, Zenon

\* A set of numbers that are no larger than n has a largest one.
LEMMA MaxIsMax ==
  ASSUME NEW n \in Nat, NEW S \in SUBSET (0..n), S # {}
  PROVE  Max(S) \in S /\ \A x \in S : x <= Max(S)
<1> DEFINE below == {n - x : x \in S}
<1>1. below \subseteq Nat /\ below # {}
  <2>1. \A x \in S : x \in 0..n
    OBVIOUS
  <2>2. below \subseteq Nat
    BY <2>1
  <2>3. PICK x \in S : TRUE
    OBVIOUS
  <2>4. n - x \in below
    BY <2>3
  <2> QED BY <2>2, <2>4
<1>2. PICK d \in below : \A e \in below : ~(<<e, d>> \in OpToRel(<, Nat))
  <2> HIDE DEF below
  <2> QED BY <1>1, NatLessThanWellFounded, WFMin
<1>3. \A e \in below : d <= e
  <2> SUFFICES ASSUME NEW e \in below PROVE d <= e
    OBVIOUS
  <2>1. ~(<<e, d>> \in OpToRel(<, Nat))
    BY <1>2
  <2>2. e \in Nat /\ d \in Nat
    BY <1>1, <1>2
  <2>3. ~(e < d)
    BY <2>1, <2>2 DEF OpToRel
  <2> QED BY <2>2, <2>3
<1>4. PICK x \in S : d = n - x
  BY <1>2
<1>5. \A y \in S : x >= y
  BY <1>3, <1>4
<1>6. \E z \in S : \A y \in S : z >= y
  BY <1>5
<1>7. Max(S) \in S /\ \A y \in S : Max(S) >= y
  BY <1>6 DEF Max
<1>8. \A z \in S : z \in 0..n
  OBVIOUS
<1> HIDE DEF below
<1> QED BY <1>7, <1>8

\* n operations, of which two conflict if they have the same home.
ApartByHome(fs, home, n) ==
  /\ Len(fs) = n /\ DOMAIN fs = 1..n
  /\ \A i, j \in 1..n : i < j => (Conflict(fs[i], fs[j]) <=> home[i] = home[j])

\* How many of n operations each home has, of the homes there are.
Loads(home, n) == {Cardinality({j \in 1..n : home[j] = home[i]}) : i \in 1..n}

\* Where conflicting is having the same home, the busiest home decides: its
\* operations need a stage each, and the others fit beside them.
LEMMA BusiestHomeDecides ==
  ASSUME NEW fs, NEW home, NEW n \in Nat \ {0}, ApartByHome(fs, home, n)
  PROVE  StagesOf(fs) = Max(Loads(home, n))
<1> DEFINE at(i)    == {j \in 1..n : home[j] = home[i]}
           upTo(i)  == {j \in 1..i : home[j] = home[i]}
           turn     == [i \in 1..n |-> Cardinality(upTo(i))]
           loads    == Loads(home, n)
<1>0. /\ Len(fs) = n /\ DOMAIN fs = 1..n
      /\ \A i, j \in 1..n : i < j => (Conflict(fs[i], fs[j]) <=> home[i] = home[j])
  BY DEF ApartByHome
<1>1. IsFiniteSet(1..n) /\ Cardinality(1..n) = n
  BY FS_Interval
<1>2. \A T \in SUBSET (1..n) : IsFiniteSet(T) /\ Cardinality(T) \in 0..n
  <2> SUFFICES ASSUME NEW T \in SUBSET (1..n)
               PROVE  IsFiniteSet(T) /\ Cardinality(T) \in 0..n
    OBVIOUS
  <2>1. IsFiniteSet(T) /\ Cardinality(T) <= Cardinality(1..n)
    BY <1>1, FS_Subset
  <2>2. Cardinality(T) \in Nat
    BY <2>1, FS_CardinalityType
  <2> QED BY <1>1, <2>1, <2>2
<1>3. \A i \in 1..n : at(i) \in SUBSET (1..n)
  OBVIOUS
<1>4. loads = {Cardinality(at(i)) : i \in 1..n}
  BY DEF Loads
<1> HIDE DEF loads
<1>5. PICK k \in 0..n :
        /\ k = Max(loads)
        /\ \E busy \in 1..n : k = Cardinality(at(busy))
        /\ \A i \in 1..n : Cardinality(at(i)) <= k
  <2> HIDE DEF at
  <2> DEFINE load(i) == Cardinality(at(i))
  <2>1. \A i \in 1..n : load(i) \in 0..n
    BY <1>2, <1>3
  <2>2. loads = {load(i) : i \in 1..n}
    BY <1>4
  <2>3. 1 \in 1..n
    OBVIOUS
  <2> HIDE DEF load
  <2>4. loads \in SUBSET (0..n) /\ loads # {}
    <3>1. \A x \in loads : x \in 0..n
      BY <2>1, <2>2
    <3>2. load(1) \in loads
      BY <2>2, <2>3
    <3> QED BY <3>1, <3>2
  <2>5. Max(loads) \in loads /\ \A x \in loads : x <= Max(loads)
    BY <2>4, MaxIsMax
  <2>6. /\ Max(loads) \in 0..n
        /\ \E busy \in 1..n : Max(loads) = load(busy)
        /\ \A i \in 1..n : load(i) <= Max(loads)
    BY <2>2, <2>4, <2>5
  <2> QED BY <2>6 DEF load
<1>6. PICK busy \in 1..n : k = Cardinality(at(busy))
  BY <1>5
<1>7. \A i \in 1..n : Cardinality(at(i)) <= k
  BY <1>5
<1>8. turn \in [DOMAIN fs -> 1..k]
  <2> SUFFICES ASSUME NEW i \in 1..n PROVE Cardinality(upTo(i)) \in 1..k
    BY <1>0
  <2>1. /\ upTo(i) \in SUBSET at(i) /\ at(i) \in SUBSET (1..n)
        /\ upTo(i) \in SUBSET (1..n) /\ i \in upTo(i)
    OBVIOUS
  <2> HIDE DEF at, upTo
  <2>2. /\ IsFiniteSet(at(i)) /\ IsFiniteSet(upTo(i))
        /\ Cardinality(at(i)) \in 0..n /\ Cardinality(upTo(i)) \in 0..n
    BY <1>2, <2>1
  <2>3. Cardinality(upTo(i)) <= Cardinality(at(i))
    BY <2>1, <2>2, FS_Subset
  <2>4. Cardinality(upTo(i)) # 0
    BY <2>1, <2>2, FS_EmptySet
  <2> QED BY <1>7, <2>2, <2>3, <2>4
<1>9. IsPlan(turn, fs)
  <2> SUFFICES ASSUME NEW i \in 1..n, NEW j \in 1..n, i < j, home[i] = home[j]
               PROVE  Cardinality(upTo(i)) # Cardinality(upTo(j))
    <3> HIDE DEF upTo
    <3>1. \A i, j \in 1..n : i < j /\ home[i] = home[j] => turn[i] # turn[j]
      OBVIOUS
    <3>2. \A e \in Edges(fs) :
            e[1] \in 1..n /\ e[2] \in 1..n /\ e[1] < e[2] /\ home[e[1]] = home[e[2]]
      BY <1>0 DEF Edges
    <3> HIDE DEF turn
    <3> QED BY <3>1, <3>2 DEF IsPlan
  <2>1. upTo(i) \in SUBSET upTo(j) /\ upTo(j) \in SUBSET (1..n) /\ j \in upTo(j) /\ j \notin upTo(i)
    OBVIOUS
  <2> HIDE DEF upTo
  <2>2. IsFiniteSet(upTo(j))
    BY <1>2, <2>1
  <2> QED BY <2>1, <2>2, FS_Subset
<1>10. ASSUME NEW m \in 0..(k - 1), NEW plan \in [DOMAIN fs -> 1..m]
       PROVE  ~IsPlan(plan, fs)
  <2>1. at(busy) \in SUBSET (1..n) /\ \A i, j \in at(busy) : i < j => Conflict(fs[i], fs[j])
    BY <1>0
  <2> HIDE DEF at
  <2>2. IsFiniteSet(at(busy)) /\ m < Cardinality(at(busy)) /\ m \in Nat /\ DOMAIN fs \subseteq Int
    BY <1>0, <1>2, <1>6, <2>1
  <2> QED BY <1>0, <1>10, <2>1, <2>2, CliqueBound
<1> HIDE DEF turn
<1>11. \E plan \in [DOMAIN fs -> 1..k] : IsPlan(plan, fs)
  BY <1>8, <1>9
<1>12. \A m \in 0..(k - 1) : ~ \E plan \in [DOMAIN fs -> 1..m] : IsPlan(plan, fs)
  BY <1>10
<1>13. k \in 0..Len(fs) /\ Len(fs) \in Nat
  BY <1>0
<1>15. StagesOf(fs) = k
  BY <1>11, <1>12, <1>13, StagesAre, Zenon
<1> QED BY <1>5, <1>15 DEF loads

\* Two operations that the optimized variant keeps apart are kept apart on the
\* naive one.
NoneAdded(ops) ==
  \A a, b \in ops : Conflict(a.optimized, b.optimized) => Conflict(a.naive, b.naive)

\* Hot operations always conflict on the naive variant, and on the optimized
\* one if they have the same home.
SpreadByHome(ops) ==
  \A a, b \in ops : a.hot /\ b.hot =>
    /\ Conflict(a.naive, b.naive)
    /\ Conflict(a.optimized, b.optimized) <=> a.home = b.home

\* One key that every operation of the naive variant touches, and every
\* writer of either variant writes.
Bottleneck(ops, key) ==
  \A a \in ops :
    /\ key \in Touched(a.naive)
    /\ a.hot \/ a.optimized.writes # {} => key \in a.naive.writes

\* With a bottleneck on the naive side there is little left to show.
LEMMA BottleneckSpread ==
  ASSUME NEW ops, NEW key, Bottleneck(ops, key),
         \A a, b \in ops : a.hot /\ b.hot =>
           (Conflict(a.optimized, b.optimized) <=> a.home = b.home)
  PROVE  NoneAdded(ops) /\ SpreadByHome(ops)
<1>1. ASSUME NEW a \in ops, NEW b \in ops, key \in a.naive.writes \/ key \in b.naive.writes
      PROVE  Conflict(a.naive, b.naive)
  BY <1>1 DEF Bottleneck, Conflict
<1>2. NoneAdded(ops)
  BY <1>1 DEF NoneAdded, Bottleneck, Conflict
<1>3. SpreadByHome(ops)
  BY <1>1 DEF SpreadByHome, Bottleneck
<1> QED BY <1>2, <1>3

\* Writers of one key each conflict if it is the same key.
LEMMA OneKeyEach ==
  ASSUME NEW f, NEW g, NEW x, NEW y,
         f.writes = {x}, Touched(f) = {x}, g.writes = {y}, Touched(g) = {y}
  PROVE  Conflict(f, g) <=> x = y
<1>1. f.writes \cap Touched(g) # {} <=> x = y
  OBVIOUS
<1>2. g.writes \cap Touched(f) # {} <=> x = y
  OBVIOUS
<1> QED BY <1>1, <1>2 DEF Conflict

\* A transaction that reads nothing touches what it writes.
LEMMA WritesOnly ==
  \A f, K : f = [reads |-> {}, writes |-> K] => f.writes = K /\ Touched(f) = K
BY DEF Touched

\* Pattern 01: the counter is the bottleneck, a shard is a home.
LEMMA CounterSpread == NoneAdded(CounterOps) /\ SpreadByHome(CounterOps)
<1> DEFINE hot(s) == Hot(s, NC!Footprint([fn |-> "increment"], Fresh(NC!Keys)),
                           SC!Footprint([fn |-> "increment", shard |-> s], Fresh(SC!Keys)))
           cold   == Cold(NC!Footprint([fn |-> "total"], Fresh(NC!Keys)),
                          SC!Footprint([fn |-> "total"], Fresh(SC!Keys)))
<1>1. ASSUME NEW s \in 0..(Places - 1)
      PROVE  hot(s) = Hot(s, [reads |-> {NC!Counter}, writes |-> {NC!Counter}],
                             [reads |-> {SC!Shard(s)}, writes |-> {SC!Shard(s)}])
  <2>1. SC!ReadKeys([fn |-> "increment", shard |-> s]) = {SC!Shard(s)}
    BY DEF SC!ReadKeys, SC!Keys, SC!Shards
  <2> QED BY <2>1 DEF SC!Footprint, NC!Footprint
<1>2. cold = Cold([reads |-> {NC!Counter}, writes |-> {}], [reads |-> SC!Keys, writes |-> {}])
  BY DEF NC!Footprint, SC!Footprint, SC!ReadKeys
<1>3. CounterOps = {hot(s) : s \in 0..(Places - 1)} \cup {cold}
  BY DEF CounterOps
<1> HIDE DEF hot, cold
<1>4. \A a \in CounterOps : a.hot => \E s \in 0..(Places - 1) : a = hot(s)
  BY <1>2, <1>3 DEF Cold
<1>5. Bottleneck(CounterOps, NC!Counter)
  BY <1>1, <1>2, <1>3 DEF Bottleneck, Hot, Cold, Touched
<1>6. ASSUME NEW s \in 0..(Places - 1), NEW t \in 0..(Places - 1)
      PROVE  Conflict(hot(s).optimized, hot(t).optimized) <=> hot(s).home = hot(t).home
  <2>1. SC!Shard(s) = SC!Shard(t) <=> s = t
    BY DEF SC!Shard
  <2>2. hot(s).home = s /\ hot(t).home = t
    BY <1>1 DEF Hot
  <2>3. /\ hot(s).optimized.writes = {SC!Shard(s)} /\ Touched(hot(s).optimized) = {SC!Shard(s)}
        /\ hot(t).optimized.writes = {SC!Shard(t)} /\ Touched(hot(t).optimized) = {SC!Shard(t)}
    BY <1>1 DEF Hot, Touched
  <2>4. Conflict(hot(s).optimized, hot(t).optimized) <=> SC!Shard(s) = SC!Shard(t)
    BY <2>3, OneKeyEach, Zenon
  <2> QED BY <2>1, <2>2, <2>4, Zenon
<1> QED BY <1>4, <1>5, <1>6, BottleneckSpread

\* Pattern 02: the map is the bottleneck, an account is a home.
LEMMA BalanceSpread == NoneAdded(BalanceOps) /\ SpreadByHome(BalanceOps)
<1> DEFINE nf(c)  == NB!Footprint(c, Fresh(NB!Keys))
           of(c)  == PB!Footprint(c, Fresh(PB!Keys))
           hot(c) == Hot(c.to, nf(c), of(c))
           cold(c) == Cold(nf(c), of(c))
<1>1. BalanceOps = {hot(c) : c \in {c \in PB!Calls : c.fn = "deposit"}}
                     \cup {cold(c) : c \in {c \in PB!Calls : c.fn # "deposit"}}
  BY DEF BalanceOps
<1>2. \A c \in PB!Calls : c.fn \in {"deposit", "transfer", "balance"}
  BY DEF PB!Calls
<1>3. \A c : /\ nf(c).reads = {NB!Balances}
             /\ c.fn # "balance" => nf(c).writes = {NB!Balances}
  BY DEF NB!Footprint
<1>4. \A c : /\ c.fn = "deposit" => of(c) = [reads |-> {}, writes |-> {PB!Balance(c.to)}]
             /\ c.fn = "balance" => of(c).writes = {}
  BY DEF PB!Footprint
<1>5. \A c : /\ hot(c).hot /\ hot(c).home = c.to /\ hot(c).naive = nf(c) /\ hot(c).optimized = of(c)
             /\ ~cold(c).hot /\ cold(c).naive = nf(c) /\ cold(c).optimized = of(c)
  BY DEF Hot, Cold
<1> HIDE DEF nf, of, hot, cold
<1>6. \A a \in BalanceOps : \E c \in PB!Calls :
        /\ a.naive = nf(c) /\ a.optimized = of(c)
        /\ a.hot => c.fn = "deposit" /\ a.home = c.to
  BY <1>1, <1>5
<1>7. Bottleneck(BalanceOps, NB!Balances)
  <2>1. ASSUME NEW c \in PB!Calls
        PROVE  /\ NB!Balances \in Touched(nf(c))
               /\ c.fn = "deposit" \/ of(c).writes # {} => NB!Balances \in nf(c).writes
    BY <1>2, <1>3, <1>4 DEF Touched
  <2> QED BY <1>6, <2>1 DEF Bottleneck
<1>8. ASSUME NEW c \in PB!Calls, NEW d \in PB!Calls, c.fn = "deposit", d.fn = "deposit"
      PROVE  Conflict(of(c), of(d)) <=> c.to = d.to
  <2>1. PB!Balance(c.to) = PB!Balance(d.to) <=> c.to = d.to
    BY DEF PB!Balance
  <2>2. /\ of(c).writes = {PB!Balance(c.to)} /\ Touched(of(c)) = {PB!Balance(c.to)}
        /\ of(d).writes = {PB!Balance(d.to)} /\ Touched(of(d)) = {PB!Balance(d.to)}
    BY <1>4, <1>8 DEF Touched
  <2> QED BY <2>1, <2>2, OneKeyEach, Zenon
<1>9. \A a, b \in BalanceOps : a.hot /\ b.hot =>
        (Conflict(a.optimized, b.optimized) <=> a.home = b.home)
  BY <1>6, <1>8
<1> QED BY <1>7, <1>9, BottleneckSpread

\* Pattern 03: the fee pool is the bottleneck of operate() and fee_pool(), an
\* account is a home; op_count() conflicts with its account's operations only,
\* on either variant.
LEMMA FeeSpread == NoneAdded(FeeOps) /\ SpreadByHome(FeeOps)
<1> DEFINE nf(c)  == NF!Footprint(c, Fresh(NF!Keys))
           of(c)  == LF!Footprint(c, Fresh(LF!Keys))
           hot(c) == Hot(c.who, nf(c), of(c))
           cold(c) == Cold(nf(c), of(c))
<1>1. FeeOps = {hot(c) : c \in {c \in NF!Calls : c.fn = "operate"}}
                     \cup {cold(c) : c \in {c \in NF!Calls : c.fn # "operate"}}
  BY DEF FeeOps
<1>2. \A c \in NF!Calls : c.fn \in {"operate", "op_count", "fee_pool"}
  BY DEF NF!Calls
<1>3. \A c :
        /\ c.fn = "operate"  => nf(c) = [reads |-> {}, writes |-> {NF!FeePool, NF!OpCount(c.who)}]
        /\ c.fn = "op_count" => nf(c) = [reads |-> {NF!OpCount(c.who)}, writes |-> {}]
        /\ c.fn = "fee_pool" => nf(c) = [reads |-> {NF!FeePool}, writes |-> {}]
  BY DEF NF!Footprint
<1>4. \A c :
        /\ c.fn = "operate"  =>
             of(c) = [reads |-> {}, writes |-> {LF!OpCount(c.who), LF!AccruedFee(c.who)}]
        /\ c.fn = "op_count" => of(c) = [reads |-> {LF!OpCount(c.who)}, writes |-> {}]
        /\ c.fn = "fee_pool" => of(c) = [reads |-> {LF!FeePool}, writes |-> {}]
  BY DEF LF!Footprint
<1>5. \A c : /\ hot(c).hot /\ hot(c).home = c.who
             /\ hot(c).naive = nf(c) /\ hot(c).optimized = of(c)
             /\ ~cold(c).hot /\ cold(c).naive = nf(c) /\ cold(c).optimized = of(c)
  BY DEF Hot, Cold
<1> HIDE DEF nf, of, hot, cold
<1>6. \A x, y : /\ LF!OpCount(x) = LF!OpCount(y) <=> x = y
                /\ LF!AccruedFee(x) = LF!AccruedFee(y) <=> x = y
                /\ LF!OpCount(x) # LF!AccruedFee(y)
                /\ LF!OpCount(x) # LF!FeePool
                /\ LF!AccruedFee(x) # LF!FeePool
  BY DEF LF!OpCount, LF!AccruedFee, LF!FeePool
<1>7. \A a \in FeeOps : \E c \in NF!Calls :
        /\ a.naive = nf(c) /\ a.optimized = of(c)
        /\ a.hot => c.fn = "operate" /\ a.home = c.who
  BY <1>1, <1>5
<1>8. \A c, d \in NF!Calls :
        /\ Conflict(of(c), of(d)) => Conflict(nf(c), nf(d))
        /\ c.fn = "operate" /\ d.fn = "operate" =>
             /\ Conflict(nf(c), nf(d))
             /\ Conflict(of(c), of(d)) <=> c.who = d.who
  <2> SUFFICES ASSUME NEW c \in NF!Calls, NEW d \in NF!Calls
               PROVE  /\ Conflict(of(c), of(d)) => Conflict(nf(c), nf(d))
                      /\ c.fn = "operate" /\ d.fn = "operate" =>
                           /\ Conflict(nf(c), nf(d))
                           /\ Conflict(of(c), of(d)) <=> c.who = d.who
    OBVIOUS
  <2>1. CASE c.fn = "operate" /\ d.fn = "operate"
    BY <1>3, <1>4, <1>6, <2>1 DEF Conflict, Touched
  <2>2. CASE c.fn = "operate" /\ d.fn = "op_count"
    BY <1>3, <1>4, <1>6, <2>2 DEF Conflict, Touched
  <2>3. CASE c.fn = "op_count" /\ d.fn = "operate"
    BY <1>3, <1>4, <1>6, <2>3 DEF Conflict, Touched
  <2>4. CASE c.fn = "operate" /\ d.fn = "fee_pool"
    BY <1>3, <1>4, <1>6, <2>4 DEF Conflict, Touched
  <2>5. CASE c.fn = "fee_pool" /\ d.fn = "operate"
    BY <1>3, <1>4, <1>6, <2>5 DEF Conflict, Touched
  <2>6. CASE c.fn # "operate" /\ d.fn # "operate"
    BY <1>2, <1>4, <2>6 DEF Conflict
  <2> QED BY <1>2, <2>1, <2>2, <2>3, <2>4, <2>5, <2>6
<1> QED BY <1>7, <1>8 DEF NoneAdded, SpreadByHome

\* Pattern 04: the counter is the bottleneck, an account is a home.
LEMMA NonceSpread == NoneAdded(NonceOps) /\ SpreadByHome(NonceOps)
<1> DEFINE hot(a)  == Hot(a, NN!Footprint([fn |-> "next"], Fresh(NN!Keys)),
                             PN!Footprint([fn |-> "next", who |-> a], Fresh(PN!Keys)))
           cold(a) == Cold(NN!Footprint([fn |-> "current"], Fresh(NN!Keys)),
                           PN!Footprint([fn |-> "current", who |-> a], Fresh(PN!Keys)))
<1>1. \A a : hot(a) = Hot(a, [reads |-> {NN!Nonce}, writes |-> {NN!Nonce}],
                             [reads |-> {PN!Nonce(a)}, writes |-> {PN!Nonce(a)}])
  BY DEF NN!Footprint, PN!Footprint
<1>2. \A a : cold(a) = Cold([reads |-> {NN!Nonce}, writes |-> {}],
                            [reads |-> {PN!Nonce(a)}, writes |-> {}])
  BY DEF NN!Footprint, PN!Footprint
<1>3. NonceOps = {hot(a) : a \in Users} \cup {cold(a) : a \in Users}
  BY DEF NonceOps
<1> HIDE DEF hot, cold
<1>4. \A o \in NonceOps : o.hot => \E a \in Users : o = hot(a)
  BY <1>2, <1>3 DEF Cold
<1>5. Bottleneck(NonceOps, NN!Nonce)
  BY <1>1, <1>2, <1>3 DEF Bottleneck, Hot, Cold, Touched
<1>6. ASSUME NEW a \in Users, NEW b \in Users
      PROVE  Conflict(hot(a).optimized, hot(b).optimized) <=> hot(a).home = hot(b).home
  <2>1. PN!Nonce(a) = PN!Nonce(b) <=> a = b
    BY DEF PN!Nonce
  <2>2. hot(a).home = a /\ hot(b).home = b
    BY <1>1 DEF Hot
  <2>3. /\ hot(a).optimized.writes = {PN!Nonce(a)} /\ Touched(hot(a).optimized) = {PN!Nonce(a)}
        /\ hot(b).optimized.writes = {PN!Nonce(b)} /\ Touched(hot(b).optimized) = {PN!Nonce(b)}
    BY <1>1 DEF Hot, Touched
  <2>4. Conflict(hot(a).optimized, hot(b).optimized) <=> PN!Nonce(a) = PN!Nonce(b)
    BY <2>3, OneKeyEach, Zenon
  <2> QED BY <2>1, <2>2, <2>4, Zenon
<1> QED BY <1>4, <1>5, <1>6, BottleneckSpread

\* Pattern 06: the tail pointer is the bottleneck, a segment is a home: its
\* appends all write its tail pointer and its first entry.
LEMMA LogSpread == NoneAdded(LogOps) /\ SpreadByHome(LogOps)
<1> DEFINE hot(s) == Hot(s, NL!Footprint([fn |-> "append"], Fresh(NL!Keys)),
                           SL!Footprint([fn |-> "append", segment |-> s], Fresh(SL!Keys)))
           cold   == Cold(NL!Footprint([fn |-> "entry_count"], Fresh(NL!Keys)),
                          SL!Footprint([fn |-> "total_len"], Fresh(SL!Keys)))
           keys(s) == SL!AppendKeys(s, Fresh(SL!Keys))
<1>1. ASSUME NEW s \in 0..(Places - 1)
      PROVE  /\ SL!SegmentTail(s) \in keys(s)
             /\ keys(s) \subseteq {SL!SegmentTail(s), SL!Entry(s, SL!TailOf(Fresh(SL!Keys), s))}
  BY PlanningAssumption DEF SL!AppendKeys
<1>2. NL!Footprint([fn |-> "append"], Fresh(NL!Keys)).writes
        = {NL!Tail, NL!Entry(UnwrapOr(Fresh(NL!Keys), NL!Tail, 0))}
  BY DEF NL!Footprint, NL!UnwrapOr, UnwrapOr
<1>3. NL!Tail \in NL!Footprint([fn |-> "append"], Fresh(NL!Keys)).writes
  BY <1>2
<1>4. /\ NL!Footprint([fn |-> "entry_count"], Fresh(NL!Keys)) = [reads |-> {NL!Tail}, writes |-> {}]
      /\ SL!Footprint([fn |-> "total_len"], Fresh(SL!Keys)) = [reads |-> SL!Tails, writes |-> {}]
      /\ \A s : SL!Footprint([fn |-> "append", segment |-> s], Fresh(SL!Keys))
                 = [reads |-> {}, writes |-> keys(s)]
  BY DEF NL!Footprint, SL!Footprint
<1>5. LogOps = {hot(s) : s \in 0..(Places - 1)} \cup {cold}
  BY DEF LogOps
<1>6. /\ ~cold.hot /\ cold.optimized.writes = {} /\ NL!Tail \in Touched(cold.naive)
      /\ \A s : hot(s).hot /\ hot(s).home = s
      /\ \A s : NL!Tail \in hot(s).naive.writes
  BY <1>3, <1>4 DEF Hot, Cold, Touched
<1>10. \A s : hot(s).optimized = [reads |-> {}, writes |-> keys(s)]
  BY <1>4 DEF Hot
<1> HIDE DEF hot, cold, keys
<1>7. Bottleneck(LogOps, NL!Tail)
  BY <1>5, <1>6 DEF Bottleneck, Touched
<1>8. ASSUME NEW s \in 0..(Places - 1), NEW t \in 0..(Places - 1)
      PROVE  Conflict(hot(s).optimized, hot(t).optimized) <=> hot(s).home = hot(t).home
  <2>1. \A i, j : /\ SL!SegmentTail(s) = SL!SegmentTail(t) <=> s = t
                  /\ SL!Entry(s, i) = SL!Entry(t, j) => s = t
                  /\ SL!SegmentTail(s) # SL!Entry(t, j)
                  /\ SL!SegmentTail(t) # SL!Entry(s, i)
    BY DEF SL!SegmentTail, SL!Entry
  <2>2. keys(s) \cap keys(t) # {} <=> s = t
    BY <1>1, <2>1
  <2>3. Conflict(hot(s).optimized, hot(t).optimized) <=> keys(s) \cap keys(t) # {}
    <3>1. /\ hot(s).optimized.writes = keys(s) /\ Touched(hot(s).optimized) = keys(s)
          /\ hot(t).optimized.writes = keys(t) /\ Touched(hot(t).optimized) = keys(t)
      BY <1>10, WritesOnly, Zenon
    <3>2. keys(s) \cap keys(t) = keys(t) \cap keys(s)
      OBVIOUS
    <3> QED BY <3>1, <3>2, Zenon DEF Conflict
  <2> QED BY <1>6, <2>2, <2>3
<1>9. \A o \in LogOps : o.hot => \E s \in 0..(Places - 1) : o = hot(s)
  BY <1>5, <1>6
<1> QED BY <1>7, <1>8, <1>9, BottleneckSpread

\* Pattern 05 has no hot operations.  An update conflicts with every reader on
\* the batched variant and with the readers of its own settings on the naive
\* one; two updates conflict on both, since both provide the first setting.
LEMMA AdminSpread ==
  /\ \A a \in AdminOps : a.hot = FALSE
  /\ \A a, b \in AdminOps :
       Conflict(a.optimized, b.optimized) =>
         Conflict(a.naive, b.naive) \/ a.optimized.writes = {} \/ b.optimized.writes = {}
<1> DEFINE upd(n)  == Cold(NA!Footprint([fn |-> "set_config", values |-> [i \in 1..n |-> 1]],
                                        Fresh(NA!Keys)),
                           BA!Footprint([fn |-> "set_config"], Fresh(BA!Keys)))
           read(i) == Cold(NA!Footprint([fn |-> "get_setting", index |-> i], Fresh(NA!Keys)),
                           BA!Footprint([fn |-> "get_config"], Fresh(BA!Keys)))
<1>1. AdminOps = {upd(n) : n \in 1..Places} \cup {read(i) : i \in 0..(Places - 1)}
  BY DEF AdminOps
<1>2. /\ \A n : upd(n).hot = FALSE
      /\ \A i : read(i).hot = FALSE /\ read(i).optimized.writes = {}
  BY DEF Cold, BA!Footprint
<1>3. ASSUME NEW n \in 1..Places
      PROVE  NA!Setting(0) \in upd(n).naive.writes
  <2>1. 0 \in NA!Provided([i \in 1..n |-> 1])
    <3>1. Len([i \in 1..n |-> 1]) = n
      BY PlanningAssumption
    <3> QED BY <3>1 DEF NA!Provided
  <2>2. NA!Footprint([fn |-> "set_config", values |-> [i \in 1..n |-> 1]], Fresh(NA!Keys)).writes
          = {NA!Setting(i) : i \in NA!Provided([i \in 1..n |-> 1])}
    BY DEF NA!Footprint
  <2> QED BY <2>1, <2>2 DEF Cold
<1> HIDE DEF upd, read
<1>4. ASSUME NEW m \in 1..Places, NEW n \in 1..Places
      PROVE  Conflict(upd(m).naive, upd(n).naive)
  BY <1>3 DEF Conflict, Touched
<1> QED BY <1>1, <1>2, <1>4

------------------------------------------------------------------------------
BatchInv == pattern \in Patterns /\ batch \in Seq(OpsOf(pattern))

\* Batches are of calls to the two variants of one of the patterns looked at.
THEOREM BatchesTyped == Batches => []BatchInv
<1>1. StartBatch => BatchInv
  BY DEF StartBatch, BatchInv
<1>2. BatchInv /\ [GrowBatch]_<<pattern, batch>> => BatchInv'
  BY DEF GrowBatch, AddOp, BatchInv
<1> QED BY <1>1, <1>2, PTL DEF Batches

LEMMA OpsApart ==
  ASSUME NEW p \in Patterns
  PROVE  /\ SpreadByHome(OpsOf(p))
         /\ p # "05-batched-admin-writes" => NoneAdded(OpsOf(p))
<1>1. /\ p = "01-sharded-counter"      => OpsOf(p) = CounterOps
      /\ p = "02-per-user-balance"     => OpsOf(p) = BalanceOps
      /\ p = "03-lazy-fee-accrual"     => OpsOf(p) = FeeOps
      /\ p = "04-temporary-nonce"      => OpsOf(p) = NonceOps
      /\ p = "05-batched-admin-writes" => OpsOf(p) = AdminOps
      /\ p = "06-event-log"            => OpsOf(p) = LogOps
  BY DEF OpsOf
<1>2. SpreadByHome(AdminOps)
  BY AdminSpread DEF SpreadByHome
<1> QED BY <1>1, <1>2, PlanningAssumption, CounterSpread, BalanceSpread, FeeSpread, NonceSpread,
           LogSpread

LEMMA BatchShape ==
  ASSUME BatchInv
  PROVE  /\ Len(batch) \in Nat /\ DOMAIN batch = 1..Len(batch)
         /\ Len(NaiveBatch) = Len(batch) /\ Len(OptimizedBatch) = Len(batch)
         /\ DOMAIN NaiveBatch = 1..Len(batch) /\ DOMAIN OptimizedBatch = 1..Len(batch)
         /\ \A i \in 1..Len(batch) : /\ batch[i] \in OpsOf(pattern)
                                     /\ NaiveBatch[i] = batch[i].naive
                                     /\ OptimizedBatch[i] = batch[i].optimized
<1> DEFINE S == OpsOf(pattern)
<1>1. batch \in Seq(S)
  BY DEF BatchInv
<1> HIDE DEF S
<1>2. Len(batch) \in Nat /\ DOMAIN batch = 1..Len(batch) /\ \A i \in 1..Len(batch) : batch[i] \in S
  BY <1>1
<1> QED BY <1>2 DEF NaiveBatch, OptimizedBatch, S

\* On the naive variant a batch of hot operations runs one per stage.
THEOREM NaiveRunsOneByOne == Batches => []NaiveIsSerial
<1>1. ASSUME BatchInv PROVE NaiveIsSerial
  <2> SUFFICES ASSUME AllHot PROVE StagesOf(NaiveBatch) = Len(batch)
    BY DEF NaiveIsSerial
  <2>1. pattern \in Patterns
    BY <1>1 DEF BatchInv
  <2>2. ASSUME NEW i \in 1..Len(batch), NEW j \in 1..Len(batch)
        PROVE  Conflict(NaiveBatch[i], NaiveBatch[j])
    BY <1>1, <2>1, BatchShape, OpsApart DEF SpreadByHome, AllHot
  <2> QED BY <1>1, <2>2, BatchShape, OneStageEach
<1> QED BY <1>1, BatchesTyped, PTL

\* On the optimized variant a batch of hot operations takes as many stages as
\* its busiest shard, account or segment has operations.
THEOREM BusiestHomeStages == Batches => []OptimizedTakesBusiestHome
<1>1. ASSUME BatchInv PROVE OptimizedTakesBusiestHome
  <2> SUFFICES ASSUME AllHot, batch # <<>>
               PROVE  StagesOf(OptimizedBatch) = Max({Load(batch[i].home) : i \in DOMAIN batch})
    BY DEF OptimizedTakesBusiestHome
  <2> DEFINE home == [i \in 1..Len(batch) |-> batch[i].home]
  <2>1. pattern \in Patterns
    BY <1>1 DEF BatchInv
  <2>2. ASSUME NEW i \in 1..Len(batch), NEW j \in 1..Len(batch)
        PROVE  Conflict(OptimizedBatch[i], OptimizedBatch[j]) <=> home[i] = home[j]
    BY <1>1, <2>1, BatchShape, OpsApart DEF SpreadByHome, AllHot
  <2>3. Len(batch) \in Nat \ {0}
    BY <1>1 DEF BatchInv
  <2>4. \A i \in 1..Len(batch) :
          {j \in 1..Len(batch) : home[j] = home[i]}
            = {j \in DOMAIN batch : batch[j].home = batch[i].home}
    BY <1>1, BatchShape
  <2>5. Loads(home, Len(batch)) = {Load(batch[i].home) : i \in DOMAIN batch}
    BY <1>1, <2>4, BatchShape DEF Load, Loads
  <2>6. ApartByHome(OptimizedBatch, home, Len(batch))
    BY <1>1, <2>2, BatchShape DEF ApartByHome
  <2> HIDE DEF home
  <2>7. StagesOf(OptimizedBatch) = Max(Loads(home, Len(batch)))
    BY <2>3, <2>6, BusiestHomeDecides, Zenon
  <2> QED BY <2>5, <2>7
<1> QED BY <1>1, BatchesTyped, PTL

\* No pattern but 05 has two operations conflict on the optimized variant that
\* do not on the naive one.
THEOREM ConflictsOnlyGo ==
  ASSUME "05-batched-admin-writes" \notin Patterns
  PROVE  Batches => []NoNewConflicts
<1>1. ASSUME BatchInv PROVE NoNewConflicts
  <2>1. pattern \in Patterns /\ pattern # "05-batched-admin-writes"
    BY <1>1 DEF BatchInv
  <2>2. ASSUME NEW i \in 1..Len(batch), NEW j \in 1..Len(batch),
               Conflict(OptimizedBatch[i], OptimizedBatch[j])
        PROVE  Conflict(NaiveBatch[i], NaiveBatch[j])
    BY <1>1, <2>1, <2>2, BatchShape, OpsApart DEF NoneAdded
  <2> QED BY <1>1, <2>2, BatchShape DEF NoNewConflicts, Edges
<1> QED BY <1>1, BatchesTyped, PTL

\* And in pattern 05 only readers conflict anew.
NewConflictsAreReaders ==
  \A e \in Edges(OptimizedBatch) \ Edges(NaiveBatch) :
    OptimizedBatch[e[1]].writes = {} \/ OptimizedBatch[e[2]].writes = {}

\* Whatever the pattern, an update and a reader is all that can conflict anew.
THEOREM OnlyReadersPay == Batches => []NewConflictsAreReaders
<1>1. ASSUME BatchInv PROVE NewConflictsAreReaders
  <2> SUFFICES ASSUME NEW e \in Edges(OptimizedBatch) \ Edges(NaiveBatch)
               PROVE  OptimizedBatch[e[1]].writes = {} \/ OptimizedBatch[e[2]].writes = {}
    BY DEF NewConflictsAreReaders
  <2>1. PICK i \in 1..Len(batch), j \in 1..Len(batch) : i = e[1] /\ j = e[2]
    BY <1>1, BatchShape DEF Edges
  <2>2. Conflict(OptimizedBatch[i], OptimizedBatch[j]) /\ ~Conflict(NaiveBatch[i], NaiveBatch[j])
    BY <1>1, <2>1, BatchShape DEF Edges
  <2>3. pattern \in Patterns
    BY <1>1 DEF BatchInv
  <2>4. pattern # "05-batched-admin-writes" => NoneAdded(OpsOf(pattern))
    BY <2>3, OpsApart
  <2>5. pattern = "05-batched-admin-writes"
    BY <1>1, <2>2, <2>4, BatchShape DEF NoneAdded
  <2>6. OpsOf(pattern) = AdminOps
    BY <2>5 DEF OpsOf
  <2> QED BY <1>1, <2>1, <2>2, <2>6, BatchShape, AdminSpread
<1> QED BY <1>1, BatchesTyped, PTL
==============================================================================
