--------------------------- MODULE DeploymentProofs --------------------------
(***************************************************************************)
(* The contracts of patterns 02, 04 and 05 side by side on the staged      *)
(* ledger, for every number of transactions, accounts, settings and every  *)
(* width of their integers.                                                *)
(***************************************************************************)
EXTENDS MCDeployment, SumsProofs, SequenceTheorems

P == INSTANCE StagedLedgerProofs

\* No two keys are the same, within a contract or across them.
LEMMA KeysDiffer ==
  /\ \A i, j : NA!Setting(i) = NA!Setting(j) => i = j
  /\ \A a, b : PB!Balance(a) = PB!Balance(b) => a = b
  /\ \A i, a : NA!Setting(i) # PB!Balance(a)
  /\ \A i : NA!Setting(i) # BA!ConfigKey /\ NA!Setting(i) # NN!Nonce
  /\ \A a : PB!Balance(a) # BA!ConfigKey /\ PB!Balance(a) # NN!Nonce
  /\ BA!ConfigKey # NN!Nonce
<1>1. ASSUME NEW i, NEW a
      PROVE  /\ NA!Setting(i)[1] = "Setting" /\ NA!Setting(i)[2] = i
             /\ PB!Balance(a)[1] = "Balance" /\ PB!Balance(a)[2] = a
             /\ BA!ConfigKey[1] = "Config" /\ NN!Nonce[1] = "Nonce"
  BY DEF NA!Setting, PB!Balance, BA!ConfigKey, NN!Nonce
<1>2. \A i, a : NA!Setting(i) # PB!Balance(a)
  <2> SUFFICES ASSUME NEW i, NEW a PROVE NA!Setting(i)[1] # PB!Balance(a)[1]
    OBVIOUS
  <2> QED BY <1>1
<1>3. \A i : NA!Setting(i) # BA!ConfigKey /\ NA!Setting(i) # NN!Nonce
  <2> SUFFICES ASSUME NEW i
               PROVE  NA!Setting(i)[1] # BA!ConfigKey[1] /\ NA!Setting(i)[1] # NN!Nonce[1]
    OBVIOUS
  <2> QED BY <1>1
<1>4. \A a : PB!Balance(a) # BA!ConfigKey /\ PB!Balance(a) # NN!Nonce
  <2> SUFFICES ASSUME NEW a
               PROVE  PB!Balance(a)[1] # BA!ConfigKey[1] /\ PB!Balance(a)[1] # NN!Nonce[1]
    OBVIOUS
  <2> QED BY <1>1
<1>5. BA!ConfigKey[1] # NN!Nonce[1]
  BY <1>1
<1>6. \A i, j : NA!Setting(i) = NA!Setting(j) => i = j
  BY DEF NA!Setting
<1>7. \A a, b : PB!Balance(a) = PB!Balance(b) => a = b
  BY DEF PB!Balance
<1> QED BY <1>2, <1>3, <1>4, <1>5, <1>6, <1>7

\* Whose keys they are.
LEMMA KeysAre ==
  /\ KeysOf("NaiveAdmin") = {NA!Setting(i) : i \in NA!Fields}
  /\ KeysOf("BatchedAdmin") = {BA!ConfigKey}
  /\ KeysOf("NaiveNonce") = {NN!Nonce}
  /\ KeysOf("PerUserBalance") = {PB!Balance(a) : a \in Accounts}
  /\ LedgerKeys = UNION {KeysOf(o) : o \in Contracts}
  /\ \A o \in Contracts : KeysOf(o) \subseteq LedgerKeys
  /\ \A k \in LedgerKeys : \/ \E i \in NA!Fields : k = NA!Setting(i)
                           \/ k = BA!ConfigKey
                           \/ k = NN!Nonce
                           \/ \E a \in Accounts : k = PB!Balance(a)
BY DEF KeysOf, NA!Keys, BA!Keys, NN!Keys, PB!Keys, Contracts, LedgerKeys

\* What they hold.
LEMMA ValuesAre ==
  /\ \A i \in NA!Fields : LedgerValues(NA!Setting(i)) = SettingValues \cup {Absent}
  /\ LedgerValues(BA!ConfigKey) = BA!Config \cup {Absent}
  /\ LedgerValues(NN!Nonce) = (0..MaxU64) \cup {Absent}
  /\ \A a : LedgerValues(PB!Balance(a)) = PB!I128 \cup {Absent}
  /\ \A k : Absent \in LedgerValues(k)
<1>1. \A i \in NA!Fields : NA!Setting(i) \in NA!Keys
  BY DEF NA!Keys
<1>2. BA!ConfigKey \notin NA!Keys /\ NN!Nonce \notin NA!Keys
  BY KeysDiffer DEF NA!Keys
<1>3. \A a : PB!Balance(a) \notin NA!Keys
  BY KeysDiffer DEF NA!Keys
<1>4. \A a : PB!Balance(a) # BA!ConfigKey /\ PB!Balance(a) # NN!Nonce
  BY KeysDiffer
<1> QED BY <1>1, <1>2, <1>3, <1>4, KeysDiffer
        DEF LedgerValues, NA!Values, BA!Values, NN!Values, PB!Values, BA!Keys, NN!Keys

\* What a store of the deployment is.
WellTyped(st) ==
  /\ st = [k \in LedgerKeys |-> st[k]]
  /\ \A k \in LedgerKeys : st[k] \in LedgerValues(k)

LEMMA StoresAre == \A st : st \in P!Stores <=> WellTyped(st)
<1>1. ASSUME NEW st \in P!Stores PROVE WellTyped(st)
  BY DEF P!Stores, WellTyped
<1>2. ASSUME NEW st, WellTyped(st) PROVE st \in P!Stores
  <2>1. st = [k \in LedgerKeys |-> st[k]] /\ \A k \in LedgerKeys : st[k] \in LedgerValues(k)
    BY <1>2 DEF WellTyped
  <2>2. \A k \in LedgerKeys : st[k] \in UNION {LedgerValues(j) : j \in LedgerKeys}
    BY <2>1
  <2> QED BY <2>1, <2>2 DEF P!Stores
<1> QED BY <1>1, <1>2

\* ... and what a contract gets to see of one.
OwnTyped(o, own) ==
  /\ own = [k \in KeysOf(o) |-> own[k]]
  /\ \A k \in KeysOf(o) : own[k] \in LedgerValues(k)

\* A call leaves the entries of other contracts alone.
LEMMA RunsOwn ==
  ASSUME NEW c \in LedgerCalls, NEW st, WellTyped(st),
         OwnTyped(c.contract, InvokeOf(c.contract, c.inner, Own(c.contract, st)).store)
  PROVE  LET o   == c.contract
             out == InvokeOf(o, c.inner, Own(o, st))
         IN  /\ o \in Contracts /\ c.inner \in CallsOf(o)
             /\ OwnTyped(o, Own(o, st))
             /\ Run(c, st).status = out.status /\ Run(c, st).value = out.value
             /\ \A k \in KeysOf(o) : Run(c, st).store[k] = out.store[k]
             /\ \A k \in LedgerKeys \ KeysOf(o) : Run(c, st).store[k] = st[k]
             /\ WellTyped(Run(c, st).store)
<1> DEFINE o    == c.contract
           out  == InvokeOf(o, c.inner, Own(o, st))
           back == [k \in LedgerKeys |-> IF k \in KeysOf(o) THEN out.store[k] ELSE st[k]]
<1>1. o \in Contracts /\ c.inner \in CallsOf(o)
  BY DEF LedgerCalls
<1>2. KeysOf(o) \subseteq LedgerKeys
  BY <1>1, KeysAre
<1>3. OwnTyped(o, Own(o, st))
  BY <1>2 DEF OwnTyped, Own, WellTyped
<1> HIDE DEF out
<1>4. out.store = [k \in KeysOf(o) |-> out.store[k]]
  BY DEF OwnTyped, out
<1>5. Run(c, st) = [status |-> out.status, value |-> out.value, store |-> Back(out.store, st)]
  BY DEF Run, out
<1>6. Back(out.store, st) = back
  <2>1. DOMAIN st = LedgerKeys
    BY DEF WellTyped
  <2>2. DOMAIN out.store = KeysOf(o)
    BY <1>4
  <2> QED BY <2>1, <2>2 DEF Back
<1>7. WellTyped(back)
  BY <1>2 DEF WellTyped, OwnTyped, out
<1> QED BY <1>1, <1>2, <1>3, <1>5, <1>6, <1>7 DEF out

\* A footprint is sound when, on what it shows of the contract's own entries,
\* the call does what it does on all of them.
LEMMA SoundWhenOwn ==
  ASSUME NEW c \in LedgerCalls, NEW f \in P!Footprints, NEW st \in P!Stores,
         P!Touched(f) \subseteq KeysOf(c.contract),
         LET o == c.contract
             a == InvokeOf(o, c.inner, Own(o, P!Visible(st, f)))
             b == InvokeOf(o, c.inner, Own(o, st))
         IN  /\ OwnTyped(o, a.store) /\ OwnTyped(o, b.store)
             /\ a.status = b.status /\ a.value = b.value
             /\ \A k \in f.writes : a.store[k] = b.store[k]
             /\ \A k \in KeysOf(o) \ f.writes : b.store[k] = st[k]
  PROVE  P!SoundOn(c, f, st)
<1> DEFINE o == c.contract
           v == P!Visible(st, f)
           a == InvokeOf(o, c.inner, Own(o, v))
           b == InvokeOf(o, c.inner, Own(o, st))
<1>1. WellTyped(st)
  BY StoresAre
<1>2. WellTyped(v)
  BY <1>1, ValuesAre DEF P!Visible, WellTyped
<1>3. /\ Run(c, v).status = a.status /\ Run(c, v).value = a.value
      /\ \A k \in KeysOf(o) : Run(c, v).store[k] = a.store[k]
      /\ WellTyped(Run(c, v).store)
  BY <1>2, RunsOwn
<1>4. /\ Run(c, st).status = b.status /\ Run(c, st).value = b.value
      /\ \A k \in KeysOf(o) : Run(c, st).store[k] = b.store[k]
      /\ \A k \in LedgerKeys \ KeysOf(o) : Run(c, st).store[k] = st[k]
      /\ WellTyped(Run(c, st).store)
  BY <1>1, RunsOwn
<1>5. f.writes \subseteq KeysOf(o)
  BY DEF P!Touched
<1> HIDE DEF a, b, v
<1>6. /\ a.status = b.status /\ a.value = b.value
      /\ \A k \in f.writes : a.store[k] = b.store[k]
      /\ \A k \in KeysOf(o) \ f.writes : b.store[k] = st[k]
  BY DEF a, b, v
<1>7. /\ Run(c, v).status = Run(c, st).status /\ Run(c, v).value = Run(c, st).value
      /\ \A k \in f.writes : Run(c, v).store[k] = Run(c, st).store[k]
      /\ \A k \in LedgerKeys \ f.writes : Run(c, st).store[k] = st[k]
      /\ Run(c, v).store \in P!Stores /\ Run(c, st).store \in P!Stores
  BY <1>3, <1>4, <1>5, <1>6, StoresAre
<1> QED BY <1>7, P!SoundWhen DEF v

------------------------------------------------------------------------------
\* What the calls do to the entries of their contract.

Write(own, k, v) == [own EXCEPT ![k] = v]

LEMMA WriteTyped ==
  ASSUME NEW o \in Contracts, NEW own, OwnTyped(o, own),
         NEW k \in KeysOf(o), NEW v \in LedgerValues(k)
  PROVE  /\ OwnTyped(o, Write(own, k, v))
         /\ \A j \in KeysOf(o) : Write(own, k, v)[j] = IF j = k THEN v ELSE own[j]
<1> DEFINE new == Write(own, k, v)
<1>1. own = [j \in KeysOf(o) |-> own[j]] /\ \A j \in KeysOf(o) : own[j] \in LedgerValues(j)
  BY DEF OwnTyped
<1>2. new = [j \in KeysOf(o) |-> IF j = k THEN v ELSE own[j]]
  BY <1>1 DEF Write
<1> QED BY <1>1, <1>2 DEF OwnTyped

LEMMA AdminRuns ==
  ASSUME NEW c \in NA!Calls, NEW own, OwnTyped("NaiveAdmin", own)
  PROVE  LET out == InvokeOf("NaiveAdmin", c, own)
         IN  /\ OwnTyped("NaiveAdmin", out.store)
             /\ out.status = "ok"
             /\ c.fn = "set_config" =>
                  /\ out.value = Absent
                  /\ c.values \in Seq(SettingValues) /\ Len(c.values) \in 0..FIELDS
                  /\ \A i \in NA!Fields : out.store[NA!Setting(i)] =
                       IF i < Len(c.values) THEN c.values[i + 1] ELSE own[NA!Setting(i)]
             /\ c.fn # "set_config" =>
                  /\ c.fn = "get_setting" /\ c.index \in NA!Fields
                  /\ out.value = IF own[NA!Setting(c.index)] = Absent THEN 0
                                 ELSE own[NA!Setting(c.index)]
                  /\ out.store = own
<1> DEFINE out == InvokeOf("NaiveAdmin", c, own)
<1>1. /\ own = [k \in KeysOf("NaiveAdmin") |-> own[k]]
      /\ \A i \in NA!Fields : own[NA!Setting(i)] \in SettingValues \cup {Absent}
  BY KeysAre, ValuesAre DEF OwnTyped
<1>2. CASE c.fn = "set_config"
  <2> DEFINE end == [k \in NA!Keys |-> IF k[2] \in NA!Provided(c.values)
                                       THEN c.values[k[2] + 1] ELSE own[k]]
  <2>1. PICK n \in 0..FIELDS : c.values \in [1..n -> SettingValues]
    BY <1>2 DEF NA!Calls
  <2>2. n \in Nat /\ c.values \in Seq(SettingValues) /\ Len(c.values) = n
    <3>1. n \in Nat
      BY DeploymentAssumption
    <3>2. c.values \in Seq(SettingValues)
      BY <2>1, <3>1, SeqDef
    <3>3. Len(c.values) \in Nat /\ 1..n = 1..Len(c.values)
      BY <2>1, <3>2, LenProperties
    <3>4. \A m \in Nat : 1..n = 1..m => ~(n < m) /\ ~(m < n)
      <4> SUFFICES ASSUME NEW m \in Nat, n < m \/ m < n PROVE 1..n # 1..m
        OBVIOUS
      <4>1. CASE n < m
        <5>1. m \in 1..m /\ m \notin 1..n
          BY <3>1, <4>1
        <5> QED BY <5>1
      <4>2. CASE m < n
        <5>1. n \in 1..n /\ n \notin 1..m
          BY <3>1, <4>2
        <5> QED BY <5>1
      <4> QED BY <4>1, <4>2
    <3> QED BY <3>1, <3>2, <3>3, <3>4
  <2>3. out = [status |-> "ok", value |-> Absent, store |-> end]
    BY <1>2 DEF InvokeOf, NA!Invoke, NA!set_config, NA!Ok
  <2>4. ASSUME NEW i \in NA!Fields
        PROVE  /\ end[NA!Setting(i)] = IF i < Len(c.values) THEN c.values[i + 1]
                                       ELSE own[NA!Setting(i)]
               /\ i < Len(c.values) => c.values[i + 1] \in SettingValues
    <3>1. NA!Setting(i) \in NA!Keys /\ NA!Setting(i)[2] = i /\ i \in Nat
      BY DeploymentAssumption DEF NA!Keys, NA!Setting, NA!Fields
    <3>2. i \in NA!Provided(c.values) <=> i < Len(c.values)
      BY <2>2, <3>1 DEF NA!Provided
    <3>3. i < Len(c.values) => i + 1 \in 1..n
      BY <2>2, <3>1
    <3> QED BY <2>1, <3>1, <3>2, <3>3
  <2>5. OwnTyped("NaiveAdmin", end)
    <3>1. end = [k \in KeysOf("NaiveAdmin") |-> end[k]]
      BY DEF KeysOf
    <3>2. \A i \in NA!Fields : end[NA!Setting(i)] \in LedgerValues(NA!Setting(i))
      BY <1>1, <2>4, ValuesAre
    <3> HIDE DEF end
    <3> QED BY <3>1, <3>2, KeysAre DEF OwnTyped
  <2> QED BY <1>2, <2>2, <2>3, <2>4, <2>5
<1>3. CASE c.fn # "set_config"
  <2>1. c.fn = "get_setting" /\ c.index \in NA!Fields
    BY <1>3 DEF NA!Calls
  <2> QED BY <1>3, <2>1 DEF InvokeOf, NA!Invoke, NA!get_setting, NA!Ok, NA!UnwrapOr
<1> QED BY <1>2, <1>3

\* The configuration readers of own are told.
ConfigIn(own) == IF own[BA!ConfigKey] = Absent THEN BA!DefaultConfig ELSE own[BA!ConfigKey]

LEMMA ConfigRuns ==
  ASSUME NEW c \in BA!Calls, NEW own, OwnTyped("BatchedAdmin", own)
  PROVE  LET out == InvokeOf("BatchedAdmin", c, own)
         IN  /\ OwnTyped("BatchedAdmin", out.store)
             /\ out.status = "ok"
             /\ c.fn = "set_config" =>
                  /\ out.value = Absent /\ c.config \in BA!Config
                  /\ out.store[BA!ConfigKey] = c.config
             /\ c.fn # "set_config" => out.store = own
             /\ c.fn = "get_config" => out.value = ConfigIn(own)
             /\ c.fn = "fee_bps" => out.value = ConfigIn(own).fee_bps
             /\ c.fn \in {"set_config", "get_config", "fee_bps"}
<1>1. CASE c.fn = "set_config"
  <2>1. c.config \in BA!Config
    BY <1>1 DEF BA!Calls
  <2>2. InvokeOf("BatchedAdmin", c, own) =
          [status |-> "ok", value |-> Absent, store |-> Write(own, BA!ConfigKey, c.config)]
    BY <1>1 DEF InvokeOf, BA!Invoke, BA!set_config, BA!Ok, BA!Put, Write
  <2>3. "BatchedAdmin" \in Contracts /\ BA!ConfigKey \in KeysOf("BatchedAdmin")
    BY KeysAre DEF Contracts
  <2>4. c.config \in LedgerValues(BA!ConfigKey)
    BY <2>1, ValuesAre
  <2>5. /\ OwnTyped("BatchedAdmin", Write(own, BA!ConfigKey, c.config))
        /\ Write(own, BA!ConfigKey, c.config)[BA!ConfigKey] = c.config
    BY <2>3, <2>4, WriteTyped
  <2> QED BY <1>1, <2>1, <2>2, <2>5
<1>2. CASE c.fn \in {"get_config", "fee_bps"}
  BY <1>2 DEF InvokeOf, BA!Invoke, BA!get_config, BA!fee_bps, BA!ConfigOf, BA!Ok, BA!UnwrapOr,
              ConfigIn
<1> QED BY <1>1, <1>2 DEF BA!Calls

\* The last nonce handed out, 0 before any was.
LastNonce(own) == IF own[NN!Nonce] = Absent THEN 0 ELSE own[NN!Nonce]

LEMMA NonceRuns ==
  ASSUME NEW c \in NN!Calls, NEW own, OwnTyped("NaiveNonce", own)
  PROVE  LET out == InvokeOf("NaiveNonce", c, own)
             n   == LastNonce(own)
         IN  /\ n \in 0..MaxU64
             /\ OwnTyped("NaiveNonce", out.store)
             /\ c.fn = "next" /\ n + 1 <= MaxU64 =>
                  /\ out.status = "ok" /\ out.value = n + 1
                  /\ out.store[NN!Nonce] = n + 1
             /\ c.fn = "next" /\ ~(n + 1 <= MaxU64) =>
                  out.status = "trap" /\ out.value = Absent /\ out.store = own
             /\ c.fn # "next" =>
                  c.fn = "current" /\ out.status = "ok" /\ out.value = n /\ out.store = own
<1> DEFINE n == LastNonce(own)
<1>1. NN!Nonce \in KeysOf("NaiveNonce") /\ "NaiveNonce" \in Contracts
  BY KeysAre DEF Contracts
<1>2. n \in 0..MaxU64
  BY <1>1, ValuesAre, DeploymentAssumption DEF OwnTyped, LastNonce
<1>3. CASE c.fn = "next"
  <2>1. InvokeOf("NaiveNonce", c, own) =
          IF n + 1 <= MaxU64
          THEN [status |-> "ok", value |-> n + 1, store |-> Write(own, NN!Nonce, n + 1)]
          ELSE [status |-> "trap", value |-> Absent, store |-> own]
    BY <1>3 DEF InvokeOf, NN!Invoke, NN!next, NN!Require, NN!Ok, NN!Trap, NN!Put, NN!UnwrapOr,
                Write, LastNonce
  <2>2. CASE n + 1 <= MaxU64
    <3>1. n + 1 \in LedgerValues(NN!Nonce)
      BY <1>2, <2>2, ValuesAre, DeploymentAssumption
    <3> HIDE DEF n
    <3>2. /\ OwnTyped("NaiveNonce", Write(own, NN!Nonce, n + 1))
          /\ Write(own, NN!Nonce, n + 1)[NN!Nonce] = n + 1
      BY <1>1, <3>1, WriteTyped
    <3> QED BY <1>2, <1>3, <2>1, <2>2, <3>2 DEF n
  <2>3. CASE ~(n + 1 <= MaxU64)
    BY <1>2, <1>3, <2>1, <2>3
  <2> QED BY <2>2, <2>3
<1>4. CASE c.fn # "next"
  <2>1. c.fn = "current"
    BY <1>4 DEF NN!Calls
  <2> QED BY <1>2, <2>1 DEF InvokeOf, NN!Invoke, NN!current, NN!Ok, NN!UnwrapOr, LastNonce
<1> QED BY <1>3, <1>4

\* What a transfer leaves its sender, and what its receiver ends up with.
Left(c, own) == PB!read(c.from, own) - c.amount
Got(c, own)  == (IF c.from = c.to THEN Left(c, own) ELSE PB!read(c.to, own)) + c.amount
GoesThrough(c, own) ==
  c.signed /\ PB!read(c.from, own) >= c.amount /\ Left(c, own) \in PB!I128 /\ Got(c, own) \in PB!I128

LEMMA BalanceRuns ==
  ASSUME NEW c \in PB!Calls, NEW own, OwnTyped("PerUserBalance", own)
  PROVE  LET out == InvokeOf("PerUserBalance", c, own)
         IN  /\ \A a \in Accounts : PB!read(a, own) \in PB!I128
             /\ OwnTyped("PerUserBalance", out.store)
             /\ c.fn = "deposit" =>
                  LET new == PB!read(c.to, own) + c.amount
                  IN  /\ c.to \in Accounts /\ c.amount \in Int
                      /\ new \in PB!I128 =>
                           /\ out.status = "ok" /\ out.value = new
                           /\ \A a \in Accounts : out.store[PB!Balance(a)] =
                                IF a = c.to THEN new ELSE own[PB!Balance(a)]
                      /\ new \notin PB!I128 =>
                           out.status = "trap" /\ out.value = Absent /\ out.store = own
             /\ c.fn = "transfer" =>
                  /\ c.from \in Accounts /\ c.to \in Accounts /\ c.amount \in Int
                  /\ GoesThrough(c, own) =>
                       /\ out.status = "ok" /\ out.value = Absent
                       /\ \A a \in Accounts : out.store[PB!Balance(a)] =
                            IF a = c.to THEN Got(c, own)
                            ELSE IF a = c.from THEN Left(c, own) ELSE own[PB!Balance(a)]
                  /\ ~GoesThrough(c, own) =>
                       out.status = "trap" /\ out.value = Absent /\ out.store = own
             /\ c.fn \notin {"deposit", "transfer"} =>
                  /\ c.fn = "balance" /\ c.who \in Accounts
                  /\ out.status = "ok" /\ out.value = PB!read(c.who, own) /\ out.store = own
<1> DEFINE out == InvokeOf("PerUserBalance", c, own)
<1>1. /\ "PerUserBalance" \in Contracts
      /\ \A a \in Accounts : PB!Balance(a) \in KeysOf("PerUserBalance")
      /\ \A k \in KeysOf("PerUserBalance") : LedgerValues(k) = PB!I128 \cup {Absent}
  BY KeysAre, ValuesAre DEF Contracts
<1>2. PB!I128 \subseteq Int /\ 0 \in PB!I128
  BY DeploymentAssumption DEF PB!I128
<1>3. \A a \in Accounts : PB!read(a, own) \in PB!I128
  <2> SUFFICES ASSUME NEW a \in Accounts PROVE PB!read(a, own) \in PB!I128
    OBVIOUS
  <2>1. own[PB!Balance(a)] \in PB!I128 \cup {Absent}
    BY <1>1 DEF OwnTyped
  <2> QED BY <1>2, <2>1 DEF PB!read, PB!UnwrapOr
<1>4. CASE c.fn = "deposit"
  <2> DEFINE new == PB!read(c.to, own) + c.amount
  <2>1. c.to \in Accounts /\ c.amount \in Int
    BY <1>4, DeploymentAssumption DEF PB!Calls
  <2>2. out = IF new \in PB!I128
              THEN [status |-> "ok", value |-> new, store |-> Write(own, PB!Balance(c.to), new)]
              ELSE [status |-> "trap", value |-> Absent, store |-> own]
    BY <1>4 DEF InvokeOf, PB!Invoke, PB!deposit, PB!Require, PB!Ok, PB!Trap, PB!write, PB!Put, Write
  <2> HIDE DEF out, new
  <2>3. CASE new \in PB!I128
    <3>1. /\ OwnTyped("PerUserBalance", Write(own, PB!Balance(c.to), new))
          /\ \A k \in KeysOf("PerUserBalance") : Write(own, PB!Balance(c.to), new)[k] =
               IF k = PB!Balance(c.to) THEN new ELSE own[k]
      BY <1>1, <2>1, <2>3, WriteTyped
    <3>2. \A a \in Accounts : out.store[PB!Balance(a)] =
            IF a = c.to THEN new ELSE own[PB!Balance(a)]
      BY <1>1, <2>2, <2>3, <3>1, KeysDiffer
    <3> QED BY <1>3, <1>4, <2>1, <2>2, <2>3, <3>1, <3>2 DEF out, new
  <2>4. CASE new \notin PB!I128
    BY <1>3, <1>4, <2>1, <2>2, <2>4 DEF out, new
  <2> QED BY <2>3, <2>4
<1>5. CASE c.fn = "transfer"
  <2> DEFINE mid == Write(own, PB!Balance(c.from), Left(c, own))
             end == Write(mid, PB!Balance(c.to), Got(c, own))
  <2>1. /\ c.from \in Accounts /\ c.to \in Accounts /\ c.amount \in Int
        /\ c.signed \in BOOLEAN
    BY <1>5, DeploymentAssumption DEF PB!Calls
  <2>2. Left(c, own) \in Int
    <3>1. PB!read(c.from, own) \in Int
      BY <1>2, <1>3, <2>1
    <3> QED BY <2>1, <3>1 DEF Left
  <2>3. PB!read(c.to, mid) + c.amount = Got(c, own)
    <3>1. own = [k \in KeysOf("PerUserBalance") |-> own[k]]
      BY DEF OwnTyped
    <3>2. mid[PB!Balance(c.to)] =
            IF c.from = c.to THEN Left(c, own) ELSE own[PB!Balance(c.to)]
      <4>1. mid[PB!Balance(c.to)] = IF PB!Balance(c.to) = PB!Balance(c.from) THEN Left(c, own)
                                    ELSE own[PB!Balance(c.to)]
        BY <1>1, <2>1, <3>1 DEF Write
      <4> QED BY <4>1, KeysDiffer
    <3>3. Left(c, own) # Absent
      BY <2>2, DeploymentAssumption
    <3> HIDE DEF mid
    <3> QED BY <3>2, <3>3 DEF Got, PB!read, PB!UnwrapOr
  <2>4. out = IF GoesThrough(c, own)
              THEN [status |-> "ok", value |-> Absent, store |-> end]
              ELSE [status |-> "trap", value |-> Absent, store |-> own]
    <3>1. mid = PB!write(c.from, PB!read(c.from, own) - c.amount, own)
      BY DEF Write, PB!write, PB!Put, Left
    <3>2. end = PB!write(c.to, PB!read(c.to, mid) + c.amount, mid)
      BY <2>3 DEF Write, PB!write, PB!Put
    <3> HIDE DEF mid, end
    <3> QED BY <1>5, <2>3, <3>1, <3>2
            DEF InvokeOf, PB!Invoke, PB!transfer, PB!Require, PB!Ok, PB!Trap, GoesThrough, Left
  <2>5. CASE GoesThrough(c, own)
    <3>1. Left(c, own) \in PB!I128 /\ Got(c, own) \in PB!I128
      BY <2>5 DEF GoesThrough
    <3>2. /\ OwnTyped("PerUserBalance", mid)
          /\ \A k \in KeysOf("PerUserBalance") :
               mid[k] = IF k = PB!Balance(c.from) THEN Left(c, own) ELSE own[k]
      BY <1>1, <2>1, <3>1, WriteTyped
    <3> HIDE DEF mid
    <3>3. /\ OwnTyped("PerUserBalance", end)
          /\ \A k \in KeysOf("PerUserBalance") :
               end[k] = IF k = PB!Balance(c.to) THEN Got(c, own) ELSE mid[k]
      BY <1>1, <2>1, <3>1, <3>2, WriteTyped
    <3> HIDE DEF end
    <3>4. \A a \in Accounts : end[PB!Balance(a)] =
            IF a = c.to THEN Got(c, own)
            ELSE IF a = c.from THEN Left(c, own) ELSE own[PB!Balance(a)]
      BY <1>1, <3>2, <3>3, KeysDiffer
    <3> HIDE DEF out
    <3>5. out.status = "ok" /\ out.value = Absent /\ out.store = end
      BY <2>4, <2>5
    <3> QED BY <1>3, <1>5, <2>1, <2>5, <3>3, <3>4, <3>5 DEF out
  <2>6. CASE ~GoesThrough(c, own)
    <3>1. out.status = "trap" /\ out.value = Absent /\ out.store = own
      BY <2>4, <2>6
    <3> QED BY <1>3, <1>5, <2>1, <2>6, <3>1
  <2> QED BY <2>5, <2>6
<1>6. CASE c.fn \notin {"deposit", "transfer"}
  <2>1. c.fn = "balance" /\ c.who \in Accounts
    BY <1>6 DEF PB!Calls
  <2> QED BY <1>3, <1>6, <2>1 DEF InvokeOf, PB!Invoke, PB!balance, PB!Ok
<1> QED BY <1>4, <1>5, <1>6

------------------------------------------------------------------------------
\* Every contract's footprints are sound.

\* What a footprint shows of a contract's entries.
LEMMA OwnShown ==
  ASSUME NEW o \in Contracts, NEW st \in P!Stores, NEW f \in P!Footprints,
         P!Touched(f) \subseteq KeysOf(o)
  PROVE  LET shown == Own(o, P!Visible(st, f))
         IN  /\ OwnTyped(o, Own(o, st)) /\ OwnTyped(o, shown)
             /\ \A k \in KeysOf(o) : Own(o, st)[k] = st[k]
             /\ \A k \in P!Touched(f) : shown[k] = Own(o, st)[k]
<1>1. WellTyped(st) /\ KeysOf(o) \subseteq LedgerKeys
  BY StoresAre, KeysAre
<1>2. \A k \in KeysOf(o) :
        Own(o, P!Visible(st, f))[k] = IF k \in P!Touched(f) THEN st[k] ELSE Absent
  BY <1>1 DEF Own, P!Visible
<1>3. OwnTyped(o, Own(o, st)) /\ \A k \in KeysOf(o) : Own(o, st)[k] = st[k]
  BY <1>1 DEF Own, OwnTyped, WellTyped
<1>4. OwnTyped(o, Own(o, P!Visible(st, f)))
  <2>1. Own(o, P!Visible(st, f)) = [k \in KeysOf(o) |-> Own(o, P!Visible(st, f))[k]]
    BY DEF Own
  <2>2. \A k \in KeysOf(o) : Own(o, P!Visible(st, f))[k] \in LedgerValues(k)
    BY <1>1, <1>2, ValuesAre DEF WellTyped
  <2> QED BY <2>1, <2>2 DEF OwnTyped
<1> QED BY <1>2, <1>3, <1>4

LEMMA AdminSound ==
  ASSUME NEW c \in LedgerCalls, c.contract = "NaiveAdmin",
         NEW s0 \in P!Stores, NEW st \in P!Stores
  PROVE  P!SoundOn(c, FootprintOf(c, s0), st)
<1> DEFINE o == "NaiveAdmin"
           i == c.inner
           f == FootprintOf(c, s0)
           w == Own(o, P!Visible(st, f))
           u == Own(o, st)
<1>1. i \in NA!Calls /\ o \in Contracts
  BY DEF LedgerCalls, CallsOf, Contracts
<1>2. f = NA!Footprint(i, Own(o, s0))
  BY DEF FootprintOf
<1>3. OwnTyped(o, Own(o, s0))
  <2>1. P!NoKeys \in P!Footprints /\ P!Touched(P!NoKeys) \subseteq KeysOf(o)
    BY DEF P!NoKeys, P!Footprints, P!Touched
  <2> QED BY <1>1, <2>1, OwnShown
<1>4. CASE i.fn = "set_config"
  <2>1. i.values \in Seq(SettingValues) /\ Len(i.values) \in 0..FIELDS
    BY <1>1, <1>3, <1>4, AdminRuns
  <2>2. f.reads = {} /\ f.writes = {NA!Setting(k) : k \in NA!Provided(i.values)}
        /\ f = [reads |-> f.reads, writes |-> f.writes]
    BY <1>2, <1>4 DEF NA!Footprint
  <2>3. NA!Provided(i.values) \subseteq NA!Fields
        /\ \A k \in NA!Fields : k < Len(i.values) <=> k \in NA!Provided(i.values)
    BY <2>1, DeploymentAssumption DEF NA!Provided, NA!Fields
  <2> HIDE DEF f
  <2>4. f.writes \subseteq KeysOf(o) /\ KeysOf(o) \subseteq LedgerKeys
    BY <1>1, <2>2, <2>3, KeysAre
  <2>5. f \in P!Footprints /\ P!Touched(f) \subseteq KeysOf(o)
    BY <2>2, <2>4 DEF P!Footprints, P!Touched
  <2>6. OwnTyped(o, u) /\ OwnTyped(o, w) /\ \A k \in KeysOf(o) : u[k] = st[k]
    BY <1>1, <2>5, OwnShown
  <2> HIDE DEF w, u
  <2> DEFINE a == InvokeOf(o, i, w)
             b == InvokeOf(o, i, u)
  <2>7. /\ OwnTyped(o, a.store) /\ OwnTyped(o, b.store)
        /\ a.status = b.status /\ a.value = b.value
        /\ \A k \in NA!Fields : a.store[NA!Setting(k)] =
             IF k < Len(i.values) THEN i.values[k + 1] ELSE w[NA!Setting(k)]
        /\ \A k \in NA!Fields : b.store[NA!Setting(k)] =
             IF k < Len(i.values) THEN i.values[k + 1] ELSE u[NA!Setting(k)]
    BY <1>1, <1>4, <2>6, AdminRuns
  <2> HIDE DEF a, b
  <2>8. \A k \in f.writes : a.store[k] = b.store[k]
    BY <2>2, <2>3, <2>7
  <2>9. \A k \in KeysOf(o) \ f.writes : b.store[k] = st[k]
    <3> SUFFICES ASSUME NEW k \in NA!Fields, NA!Setting(k) \notin f.writes
                 PROVE  b.store[NA!Setting(k)] = st[NA!Setting(k)]
      BY KeysAre
    <3>1. ~(k < Len(i.values))
      BY <2>2, <2>3
    <3> QED BY <2>6, <2>7, <3>1, KeysAre
  <2> QED BY <2>5, <2>7, <2>8, <2>9, SoundWhenOwn DEF a, b, w, u, f
<1>5. CASE i.fn # "set_config"
  <2>1. i.fn = "get_setting" /\ i.index \in NA!Fields
    BY <1>1, <1>3, <1>5, AdminRuns
  <2>2. f = [reads |-> {NA!Setting(i.index)}, writes |-> {}]
    BY <1>2, <2>1 DEF NA!Footprint
  <2> HIDE DEF f
  <2>3. NA!Setting(i.index) \in KeysOf(o) /\ KeysOf(o) \subseteq LedgerKeys
    BY <1>1, <2>1, KeysAre
  <2>4. f \in P!Footprints /\ P!Touched(f) = {NA!Setting(i.index)}
    BY <2>2, <2>3 DEF P!Footprints, P!Touched
  <2>5. /\ OwnTyped(o, u) /\ OwnTyped(o, w) /\ \A k \in KeysOf(o) : u[k] = st[k]
        /\ w[NA!Setting(i.index)] = u[NA!Setting(i.index)]
    BY <1>1, <2>3, <2>4, OwnShown
  <2> HIDE DEF w, u
  <2> DEFINE a == InvokeOf(o, i, w)
             b == InvokeOf(o, i, u)
  <2>6. a.status = "ok" /\ a.store = w /\ a.value = IF w[NA!Setting(i.index)] = Absent THEN 0
                                                    ELSE w[NA!Setting(i.index)]
    BY <1>1, <1>5, <2>5, AdminRuns
  <2>7. b.status = "ok" /\ b.store = u /\ b.value = IF u[NA!Setting(i.index)] = Absent THEN 0
                                                    ELSE u[NA!Setting(i.index)]
    BY <1>1, <1>5, <2>5, AdminRuns
  <2> HIDE DEF a, b
  <2>8. /\ OwnTyped(o, a.store) /\ OwnTyped(o, b.store)
        /\ a.status = b.status /\ a.value = b.value
        /\ \A k \in KeysOf(o) : b.store[k] = st[k]
    BY <2>5, <2>6, <2>7
  <2>9. f.writes = {} /\ P!Touched(f) \subseteq KeysOf(o)
    BY <2>2, <2>3, <2>4
  <2> QED BY <2>4, <2>8, <2>9, SoundWhenOwn DEF a, b, w, u, f
<1> QED BY <1>4, <1>5

LEMMA ConfigSound ==
  ASSUME NEW c \in LedgerCalls, c.contract = "BatchedAdmin",
         NEW s0 \in P!Stores, NEW st \in P!Stores
  PROVE  P!SoundOn(c, FootprintOf(c, s0), st)
<1> DEFINE o == "BatchedAdmin"
           i == c.inner
           f == FootprintOf(c, s0)
           w == Own(o, P!Visible(st, f))
           u == Own(o, st)
           a == InvokeOf(o, i, w)
           b == InvokeOf(o, i, u)
<1>1. i \in BA!Calls /\ o \in Contracts
  BY DEF LedgerCalls, CallsOf, Contracts
<1>2. f = IF i.fn = "set_config" THEN [reads |-> {}, writes |-> {BA!ConfigKey}]
          ELSE [reads |-> {BA!ConfigKey}, writes |-> {}]
  BY DEF FootprintOf, BA!Footprint
<1>3. KeysOf(o) = {BA!ConfigKey} /\ KeysOf(o) \subseteq LedgerKeys
  BY <1>1, KeysAre
<1> HIDE DEF f
<1>4. f \in P!Footprints /\ P!Touched(f) = {BA!ConfigKey}
  BY <1>2, <1>3 DEF P!Footprints, P!Touched
<1>5. /\ OwnTyped(o, u) /\ OwnTyped(o, w) /\ u[BA!ConfigKey] = st[BA!ConfigKey]
      /\ w[BA!ConfigKey] = u[BA!ConfigKey]
  BY <1>1, <1>3, <1>4, OwnShown
<1> HIDE DEF w, u
<1>6. ConfigIn(w) = ConfigIn(u)
  BY <1>5 DEF ConfigIn
<1>7. /\ OwnTyped(o, a.store) /\ OwnTyped(o, b.store)
      /\ a.status = b.status /\ a.value = b.value
      /\ i.fn = "set_config" => a.store[BA!ConfigKey] = b.store[BA!ConfigKey]
      /\ i.fn # "set_config" => b.store = u
  BY <1>1, <1>5, <1>6, ConfigRuns
<1> HIDE DEF a, b
<1>8. \A k \in f.writes : a.store[k] = b.store[k]
  BY <1>2, <1>7
<1>9. \A k \in KeysOf(o) \ f.writes : b.store[k] = st[k]
  BY <1>2, <1>3, <1>5, <1>7
<1> QED BY <1>3, <1>4, <1>7, <1>8, <1>9, SoundWhenOwn DEF a, b, w, u, f

LEMMA NonceSound ==
  ASSUME NEW c \in LedgerCalls, c.contract = "NaiveNonce",
         NEW s0 \in P!Stores, NEW st \in P!Stores
  PROVE  P!SoundOn(c, FootprintOf(c, s0), st)
<1> DEFINE o == "NaiveNonce"
           i == c.inner
           f == FootprintOf(c, s0)
           w == Own(o, P!Visible(st, f))
           u == Own(o, st)
           a == InvokeOf(o, i, w)
           b == InvokeOf(o, i, u)
<1>1. i \in NN!Calls /\ o \in Contracts
  BY DEF LedgerCalls, CallsOf, Contracts
<1>2. f = [reads |-> {NN!Nonce}, writes |-> IF i.fn = "next" THEN {NN!Nonce} ELSE {}]
  BY DEF FootprintOf, NN!Footprint
<1>3. KeysOf(o) = {NN!Nonce} /\ KeysOf(o) \subseteq LedgerKeys
  BY <1>1, KeysAre
<1> HIDE DEF f
<1>4. f \in P!Footprints /\ P!Touched(f) = {NN!Nonce}
  BY <1>2, <1>3 DEF P!Footprints, P!Touched
<1>5. /\ OwnTyped(o, u) /\ OwnTyped(o, w) /\ u[NN!Nonce] = st[NN!Nonce]
      /\ w[NN!Nonce] = u[NN!Nonce]
  BY <1>1, <1>3, <1>4, OwnShown
<1> HIDE DEF w, u
<1>6. LastNonce(w) = LastNonce(u)
  BY <1>5 DEF LastNonce
<1>7. /\ OwnTyped(o, a.store) /\ OwnTyped(o, b.store)
      /\ a.status = b.status /\ a.value = b.value
      /\ a.store[NN!Nonce] = b.store[NN!Nonce]
      /\ i.fn # "next" => b.store = u
  BY <1>1, <1>5, <1>6, NonceRuns
<1> HIDE DEF a, b
<1>8. \A k \in f.writes : a.store[k] = b.store[k]
  BY <1>2, <1>7
<1>9. \A k \in KeysOf(o) \ f.writes : b.store[k] = st[k]
  BY <1>2, <1>3, <1>5, <1>7
<1> QED BY <1>3, <1>4, <1>7, <1>8, <1>9, SoundWhenOwn DEF a, b, w, u, f

LEMMA BalanceSound ==
  ASSUME NEW c \in LedgerCalls, c.contract = "PerUserBalance",
         NEW s0 \in P!Stores, NEW st \in P!Stores
  PROVE  P!SoundOn(c, FootprintOf(c, s0), st)
<1> DEFINE o == "PerUserBalance"
           i == c.inner
           f == FootprintOf(c, s0)
           w == Own(o, P!Visible(st, f))
           u == Own(o, st)
           a == InvokeOf(o, i, w)
           b == InvokeOf(o, i, u)
<1>1. /\ i \in PB!Calls /\ o \in Contracts
      /\ i.fn = "deposit" => i.to \in Accounts
      /\ i.fn = "transfer" => i.from \in Accounts /\ i.to \in Accounts
      /\ i.fn = "balance" => i.who \in Accounts
      /\ i.fn \in {"deposit", "transfer", "balance"}
  BY DEF LedgerCalls, CallsOf, Contracts, PB!Calls
<1>2. f = CASE i.fn = "deposit"  -> [reads |-> {}, writes |-> {PB!Balance(i.to)}]
            [] i.fn = "transfer" -> [reads |-> {}, writes |-> {PB!Balance(i.from), PB!Balance(i.to)}]
            [] i.fn = "balance"  -> [reads |-> {PB!Balance(i.who)}, writes |-> {}]
  BY DEF FootprintOf, PB!Footprint
<1>3. KeysOf(o) = {PB!Balance(x) : x \in Accounts} /\ KeysOf(o) \subseteq LedgerKeys
  BY <1>1, KeysAre
<1> HIDE DEF f
<1>4. /\ f.reads \subseteq KeysOf(o) /\ f.writes \subseteq KeysOf(o)
      /\ f = [reads |-> f.reads, writes |-> f.writes]
  BY <1>1, <1>2, <1>3
<1>5. f \in P!Footprints /\ P!Touched(f) \subseteq KeysOf(o)
  BY <1>3, <1>4 DEF P!Footprints, P!Touched
<1>6. /\ OwnTyped(o, u) /\ OwnTyped(o, w)
      /\ \A k \in KeysOf(o) : u[k] = st[k]
      /\ \A k \in P!Touched(f) : w[k] = u[k]
  BY <1>1, <1>5, OwnShown
<1> HIDE DEF w, u
<1>7. \A x \in Accounts : PB!Balance(x) \in P!Touched(f) =>
        w[PB!Balance(x)] = u[PB!Balance(x)] /\ PB!read(x, w) = PB!read(x, u)
  BY <1>6 DEF PB!read, PB!UnwrapOr
<1>8. CASE i.fn = "deposit"
  <2>1. f.writes = {PB!Balance(i.to)} /\ PB!Balance(i.to) \in P!Touched(f)
    BY <1>2, <1>8 DEF P!Touched
  <2>2. PB!read(i.to, w) = PB!read(i.to, u) /\ w[PB!Balance(i.to)] = u[PB!Balance(i.to)]
    BY <1>1, <1>7, <1>8, <2>1
  <2>3. /\ OwnTyped(o, a.store) /\ OwnTyped(o, b.store)
        /\ a.status = b.status /\ a.value = b.value
        /\ a.store[PB!Balance(i.to)] = b.store[PB!Balance(i.to)]
        /\ \A x \in Accounts \ {i.to} : b.store[PB!Balance(x)] = u[PB!Balance(x)]
    BY <1>1, <1>6, <1>8, <2>2, BalanceRuns
  <2> HIDE DEF a, b
  <2>4. \A k \in f.writes : a.store[k] = b.store[k]
    BY <2>1, <2>3
  <2>5. \A k \in KeysOf(o) \ f.writes : b.store[k] = st[k]
    BY <1>3, <1>6, <2>1, <2>3
  <2> QED BY <1>5, <2>3, <2>4, <2>5, SoundWhenOwn DEF a, b, w, u, f
<1>9. CASE i.fn = "transfer"
  <2>1. /\ f.writes = {PB!Balance(i.from), PB!Balance(i.to)}
        /\ PB!Balance(i.to) \in P!Touched(f) /\ PB!Balance(i.from) \in P!Touched(f)
    BY <1>2, <1>9 DEF P!Touched
  <2>2. /\ PB!read(i.to, w) = PB!read(i.to, u) /\ PB!read(i.from, w) = PB!read(i.from, u)
        /\ w[PB!Balance(i.to)] = u[PB!Balance(i.to)]
        /\ w[PB!Balance(i.from)] = u[PB!Balance(i.from)]
    BY <1>1, <1>7, <1>9, <2>1
  <2>3. Left(i, w) = Left(i, u) /\ Got(i, w) = Got(i, u) /\ (GoesThrough(i, w) <=> GoesThrough(i, u))
    BY <2>2 DEF Left, Got, GoesThrough
  <2>4. /\ OwnTyped(o, a.store) /\ OwnTyped(o, b.store)
        /\ a.status = b.status /\ a.value = b.value
        /\ a.store[PB!Balance(i.to)] = b.store[PB!Balance(i.to)]
        /\ a.store[PB!Balance(i.from)] = b.store[PB!Balance(i.from)]
        /\ \A x \in Accounts \ {i.from, i.to} : b.store[PB!Balance(x)] = u[PB!Balance(x)]
    <3>1. CASE GoesThrough(i, u)
      BY <1>1, <1>6, <1>9, <2>3, <3>1, BalanceRuns
    <3>2. CASE ~GoesThrough(i, u)
      BY <1>1, <1>6, <1>9, <2>2, <2>3, <3>2, BalanceRuns
    <3> QED BY <3>1, <3>2
  <2> HIDE DEF a, b
  <2>5. \A k \in f.writes : a.store[k] = b.store[k]
    BY <2>1, <2>4
  <2>6. \A k \in KeysOf(o) \ f.writes : b.store[k] = st[k]
    BY <1>3, <1>6, <2>1, <2>4
  <2> QED BY <1>5, <2>4, <2>5, <2>6, SoundWhenOwn DEF a, b, w, u, f
<1>10. CASE i.fn = "balance"
  <2>1. f.writes = {} /\ PB!Balance(i.who) \in P!Touched(f)
    BY <1>2, <1>10 DEF P!Touched
  <2>2. PB!read(i.who, w) = PB!read(i.who, u)
    BY <1>1, <1>7, <1>10, <2>1
  <2>3. a.status = b.status /\ a.value = b.value /\ a.store = w /\ b.store = u
    BY <1>1, <1>6, <1>10, <2>2, BalanceRuns
  <2> QED BY <1>5, <1>6, <2>1, <2>3, SoundWhenOwn DEF w, u, f
<1> QED BY <1>1, <1>8, <1>9, <1>10

LEMMA FootprintsSound == P!LedgerAssumption
<1>1. \A c \in LedgerCalls : c.contract \in Contracts
  BY DEF LedgerCalls
<1>2. \A c \in LedgerCalls, s0 \in P!Stores, st \in P!Stores : P!SoundOn(c, FootprintOf(c, s0), st)
  BY <1>1, AdminSound, ConfigSound, NonceSound, BalanceSound DEF Contracts
<1> QED BY <1>2, ValuesAre DEF P!LedgerAssumption, P!FootprintSound

------------------------------------------------------------------------------
\* One call after another.

\* Every outcome is a store and a receipt.
LEMMA RunTyped ==
  ASSUME NEW c \in LedgerCalls, NEW st, WellTyped(st)
  PROVE  LET o   == c.contract
             out == InvokeOf(o, c.inner, Own(o, st))
         IN  /\ OwnTyped(o, out.store)
             /\ Serial!ReceiptOf(c, Run(c, st)) \in Receipts
<1> DEFINE o   == c.contract
           i   == c.inner
           own == Own(o, st)
           out == InvokeOf(o, i, own)
<1>1. o \in Contracts /\ i \in CallsOf(o) /\ KeysOf(o) \subseteq LedgerKeys
  BY KeysAre DEF LedgerCalls
<1>2. OwnTyped(o, own)
  BY <1>1 DEF OwnTyped, Own, WellTyped
<1> HIDE DEF own, out
<1>3. /\ OwnTyped(o, out.store) /\ out.status \in {"ok", "trap"}
      /\ out.value \in Int \cup {Absent} \cup SettingValues \cup FeeValues
                         \cup BA!Config \cup {BA!DefaultConfig}
  <2>1. CASE o = "NaiveAdmin"
    <3>1. i \in NA!Calls /\ OwnTyped("NaiveAdmin", own)
      BY <1>1, <1>2, <2>1 DEF CallsOf
    <3>2. i.fn # "set_config" => i.index \in NA!Fields
      BY <3>1, AdminRuns
    <3>3. i.fn # "set_config" => own[NA!Setting(i.index)] \in SettingValues \cup {Absent}
      BY <3>1, <3>2, KeysAre, ValuesAre DEF OwnTyped
    <3> QED BY <2>1, <3>1, <3>2, <3>3, AdminRuns DEF out
  <2>2. CASE o = "BatchedAdmin"
    <3>1. i \in BA!Calls /\ OwnTyped("BatchedAdmin", own)
      BY <1>1, <1>2, <2>2 DEF CallsOf
    <3>2. own[BA!ConfigKey] \in BA!Config \cup {Absent}
      BY <3>1, KeysAre, ValuesAre DEF OwnTyped
    <3>3. /\ ConfigIn(own) \in BA!Config \cup {BA!DefaultConfig}
          /\ ConfigIn(own).fee_bps \in FeeValues \cup {0}
      BY <3>2 DEF ConfigIn, BA!Config, BA!DefaultConfig
    <3>4. i.fn \in {"set_config", "get_config", "fee_bps"}
      BY <3>1, ConfigRuns
    <3>5. /\ OwnTyped(o, out.store) /\ out.status = "ok"
          /\ out.value \in {Absent, ConfigIn(own), ConfigIn(own).fee_bps}
      BY <2>2, <3>1, <3>4, ConfigRuns DEF out
    <3>6. 0 \in Int
      OBVIOUS
    <3> QED BY <3>3, <3>5, <3>6
  <2>3. CASE o = "NaiveNonce"
    <3>1. i \in NN!Calls /\ OwnTyped("NaiveNonce", own)
      BY <1>1, <1>2, <2>3 DEF CallsOf
    <3>2. LastNonce(own) \in Int
      BY <3>1, NonceRuns, DeploymentAssumption
    <3>3. LastNonce(own) + 1 \in Int
      BY <3>2
    <3> QED BY <2>3, <3>1, <3>2, <3>3, NonceRuns DEF out
  <2>4. CASE o = "PerUserBalance"
    <3>1. i \in PB!Calls /\ OwnTyped("PerUserBalance", own)
      BY <1>1, <1>2, <2>4 DEF CallsOf
    <3>2. PB!I128 \subseteq Int
      BY DEF PB!I128
    <3>3. i.fn = "balance" => PB!read(i.who, own) \in Int
      BY <3>1, <3>2, BalanceRuns
    <3>4. CASE i.fn = "deposit"
      <4>1. /\ OwnTyped(o, out.store)
            /\ LET new == PB!read(i.to, own) + i.amount
               IN  /\ new \in PB!I128 => out.status = "ok" /\ out.value = new
                   /\ new \notin PB!I128 => out.status = "trap" /\ out.value = Absent
        BY <2>4, <3>1, <3>4, BalanceRuns DEF out
      <4> QED BY <3>2, <4>1
    <3>5. CASE i.fn = "transfer"
      BY <2>4, <3>1, <3>5, BalanceRuns DEF out
    <3>6. CASE i.fn \notin {"deposit", "transfer"}
      BY <2>4, <3>1, <3>3, <3>6, BalanceRuns DEF out
    <3> QED BY <3>4, <3>5, <3>6
  <2> QED BY <1>1, <2>1, <2>2, <2>3, <2>4 DEF Contracts
<1>4. Run(c, st).status = out.status /\ Run(c, st).value = out.value
  BY DEF Run, out, own
<1> QED BY <1>3, <1>4 DEF Serial!ReceiptOf, Receipts, out, own

\* What is known of the ledger before the contracts are looked at.
LedgerTyped == WellTyped(store) /\ receipt \in [Txs -> Receipts \cup {Absent}]

\* One step: the contract called gets its entries replaced and one receipt is
\* handed out.
LEMMA StepEffect ==
  ASSUME LedgerTyped, NEW t \in Txs, NEW c \in LedgerCalls, Serial!Execute(t, c)
  PROVE  LET o   == c.contract
             out == InvokeOf(o, c.inner, Own(o, store))
         IN  /\ o \in Contracts /\ c.inner \in CallsOf(o)
             /\ OwnTyped(o, Own(o, store)) /\ \A k \in KeysOf(o) : Own(o, store)[k] = store[k]
             /\ \A k \in KeysOf(o) : store'[k] = out.store[k]
             /\ \A k \in LedgerKeys \ KeysOf(o) : store'[k] = store[k]
             /\ receipt[t] = Absent /\ receipt'[t] # Absent
             /\ receipt'[t].call = c /\ receipt'[t].status = out.status
             /\ receipt'[t].value = out.value
             /\ \A u \in Txs \ {t} : receipt'[u] = receipt[u]
             /\ LedgerTyped'
<1> DEFINE o   == c.contract
           out == InvokeOf(o, c.inner, Own(o, store))
           r   == Serial!ReceiptOf(c, Run(c, store))
<1>1. WellTyped(store) /\ receipt \in [Txs -> Receipts \cup {Absent}]
  BY DEF LedgerTyped
<1>2. OwnTyped(o, out.store) /\ r \in Receipts
  BY <1>1, RunTyped
<1>3. /\ o \in Contracts /\ c.inner \in CallsOf(o)
      /\ OwnTyped(o, Own(o, store))
      /\ Run(c, store).status = out.status /\ Run(c, store).value = out.value
      /\ \A k \in KeysOf(o) : Run(c, store).store[k] = out.store[k]
      /\ \A k \in LedgerKeys \ KeysOf(o) : Run(c, store).store[k] = store[k]
      /\ WellTyped(Run(c, store).store)
  BY <1>1, <1>2, RunsOwn
<1>4. \A k \in KeysOf(o) : Own(o, store)[k] = store[k]
  BY DEF Own
<1>5. /\ receipt[t] = Absent /\ store' = Run(c, store).store
      /\ receipt' = [receipt EXCEPT ![t] = r]
  BY DEF Serial!Execute
<1>6. r.call = c /\ r.status = out.status /\ r.value = out.value /\ r # Absent
  BY <1>2, <1>3, AbsentIsNothing DEF Serial!ReceiptOf
<1> HIDE DEF r, out
<1>7. /\ receipt'[t] = r /\ \A u \in Txs \ {t} : receipt'[u] = receipt[u]
      /\ receipt' \in [Txs -> Receipts \cup {Absent}]
  BY <1>1, <1>2, <1>5
<1>8. LedgerTyped'
  BY <1>3, <1>5, <1>7 DEF LedgerTyped
<1> QED BY <1>3, <1>4, <1>5, <1>6, <1>7, <1>8 DEF out

\* Who has a receipt for what.
LEMMA DoneSteps ==
  ASSUME LedgerTyped, NEW t \in Txs, NEW c \in LedgerCalls, Serial!Execute(t, c),
         NEW o, NEW fn
  PROVE  /\ Done(o, fn)' = IF c.contract = o /\ c.inner.fn = fn
                           THEN Done(o, fn) \cup {t} ELSE Done(o, fn)
         /\ t \notin Done(o, fn) /\ Done(o, fn) \subseteq Txs
         /\ \A u \in Done(o, fn) : receipt'[u] = receipt[u]
<1> DEFINE D == Done(o, fn)
           E == Done(o, fn)'
<1>1. /\ receipt[t] = Absent /\ receipt'[t] # Absent /\ receipt'[t].call = c
      /\ \A u \in Txs \ {t} : receipt'[u] = receipt[u]
  BY StepEffect
<1>2. D \subseteq Txs /\ E \subseteq Txs /\ t \notin D
  BY <1>1 DEF Done
<1>3. ASSUME NEW u \in Txs
      PROVE  u \in E <=> u \in D \/ (u = t /\ c.contract = o /\ c.inner.fn = fn)
  <2>1. CASE u = t
    BY <1>1, <1>2, <2>1 DEF Done
  <2>2. CASE u # t
    BY <1>1, <2>2 DEF Done
  <2> QED BY <2>1, <2>2
<1> HIDE DEF D, E
<1>4. E = IF c.contract = o /\ c.inner.fn = fn THEN D \cup {t} ELSE D
  BY <1>2, <1>3
<1> QED BY <1>1, <1>2, <1>4 DEF D, E

------------------------------------------------------------------------------
\* The naive nonce: the counter is how many were handed out.
NonceInv == NoncesGloballyUnique /\ LastNonce(store) = Cardinality(Handed)

LEMMA HandedSteps ==
  ASSUME LedgerTyped, NEW t \in Txs, NEW c \in LedgerCalls, Serial!Execute(t, c)
  PROVE  LET n   == LastNonce(store)
             new == /\ c.contract = "NaiveNonce" /\ c.inner.fn = "next"
                    /\ n + 1 <= MaxU64
         IN  /\ n \in 0..MaxU64
             /\ t \notin Handed /\ Handed \subseteq Txs
             /\ \A u \in Handed : receipt'[u] = receipt[u]
             /\ new => /\ Handed' = Handed \cup {t} /\ receipt'[t].value = n + 1
                       /\ LastNonce(store') = n + 1
             /\ ~new => Handed' = Handed /\ LastNonce(store') = n
<1> DEFINE o   == "NaiveNonce"
           n   == LastNonce(store)
           out == InvokeOf(c.contract, c.inner, Own(c.contract, store))
           D   == Done(o, "next")
           E   == Done(o, "next")'
<1>1. /\ c.contract \in Contracts /\ c.inner \in CallsOf(c.contract)
      /\ OwnTyped(c.contract, Own(c.contract, store))
      /\ \A k \in KeysOf(c.contract) : Own(c.contract, store)[k] = store[k]
      /\ \A k \in KeysOf(c.contract) : store'[k] = out.store[k]
      /\ \A k \in LedgerKeys \ KeysOf(c.contract) : store'[k] = store[k]
      /\ receipt'[t].status = out.status /\ receipt'[t].value = out.value
      /\ \A u \in Txs \ {t} : receipt'[u] = receipt[u]
  BY StepEffect
<1>2. /\ E = IF c.contract = o /\ c.inner.fn = "next" THEN D \cup {t} ELSE D
      /\ t \notin D /\ D \subseteq Txs /\ \A u \in D : receipt'[u] = receipt[u]
  BY DoneSteps
<1>3. /\ Handed = {u \in D : receipt[u].status = "ok"}
      /\ Handed' = {u \in E : receipt'[u].status = "ok"}
  BY DEF Handed
<1>4. NN!Nonce \in LedgerKeys /\ NN!Nonce \in KeysOf(o)
  BY KeysAre DEF Contracts
<1>5. n \in 0..MaxU64
  BY <1>4, ValuesAre, DeploymentAssumption DEF LedgerTyped, WellTyped, LastNonce
<1> HIDE DEF D, E, n, out
<1>6. CASE c.contract = o
  <2>1. LastNonce(Own(o, store)) = n /\ c.inner \in NN!Calls
    BY <1>1, <1>4, <1>6 DEF LastNonce, n, CallsOf
  <2>2. CASE c.inner.fn = "next" /\ n + 1 <= MaxU64
    <3>1. out.status = "ok" /\ out.value = n + 1 /\ out.store[NN!Nonce] = n + 1
      BY <1>1, <1>6, <2>1, <2>2, NonceRuns DEF out
    <3>2. LastNonce(store') = n + 1
      BY <1>1, <1>4, <1>5, <1>6, <3>1, DeploymentAssumption DEF LastNonce
    <3>3. Handed' = Handed \cup {t}
      BY <1>1, <1>2, <1>3, <1>6, <2>2, <3>1
    <3> QED BY <1>1, <1>2, <1>3, <1>5, <1>6, <2>2, <3>1, <3>2, <3>3 DEF n
  <2>3. CASE c.inner.fn = "next" /\ ~(n + 1 <= MaxU64)
    <3>1. out.status = "trap" /\ out.store[NN!Nonce] = store[NN!Nonce]
      BY <1>1, <1>4, <1>6, <2>1, <2>3, NonceRuns DEF out
    <3>2. LastNonce(store') = n
      BY <1>1, <1>4, <1>6, <3>1 DEF LastNonce, n
    <3>3. Handed' = Handed
      BY <1>1, <1>2, <1>3, <1>6, <2>3, <3>1
    <3> QED BY <1>2, <1>3, <1>5, <2>3, <3>2, <3>3 DEF n
  <2>4. CASE c.inner.fn # "next"
    <3>1. out.store[NN!Nonce] = store[NN!Nonce]
      BY <1>1, <1>4, <1>6, <2>1, <2>4, NonceRuns DEF out
    <3>2. LastNonce(store') = n
      BY <1>1, <1>4, <1>6, <3>1 DEF LastNonce, n
    <3>3. Handed' = Handed
      BY <1>2, <1>3, <2>4
    <3> QED BY <1>2, <1>3, <1>5, <2>4, <3>2, <3>3 DEF n
  <2> QED BY <2>2, <2>3, <2>4
<1>7. CASE c.contract # o
  <2>1. NN!Nonce \notin KeysOf(c.contract)
    BY <1>1, <1>7, KeysAre, KeysDiffer DEF Contracts
  <2>2. LastNonce(store') = n
    BY <1>1, <1>4, <2>1 DEF LastNonce, n
  <2>3. Handed' = Handed
    BY <1>2, <1>3, <1>7
  <2> QED BY <1>2, <1>3, <1>5, <1>7, <2>2, <2>3 DEF n
<1> QED BY <1>6, <1>7

LEMMA NonceStep ==
  ASSUME LedgerTyped, NonceInv, NEW t \in Txs, NEW c \in LedgerCalls, Serial!Execute(t, c)
  PROVE  NonceInv'
<1> DEFINE n == LastNonce(store)
           H == Handed
           I == Handed'
<1>1. /\ n \in Nat /\ t \notin H /\ H \subseteq Txs
      /\ \A u \in H : receipt'[u] = receipt[u]
      /\ \/ I = H \cup {t} /\ receipt'[t].value = n + 1 /\ LastNonce(store') = n + 1
         \/ I = H /\ LastNonce(store') = n
  BY HandedSteps, DeploymentAssumption
<1>2. /\ \A u, w \in H : u # w => receipt[u].value # receipt[w].value
      /\ {receipt[u].value : u \in H} = 1..n
      /\ n = Cardinality(H)
  BY DEF NonceInv, NoncesGloballyUnique
<1>3. IsFiniteSet(H)
  BY <1>1, FS_Subset, DeploymentAssumption
<1>4. NonceInv' <=> /\ \A u, w \in I : u # w => receipt'[u].value # receipt'[w].value
                    /\ {receipt'[u].value : u \in I} = 1..Cardinality(I)
                    /\ LastNonce(store') = Cardinality(I)
  BY DEF NonceInv, NoncesGloballyUnique, LastNonce
<1> HIDE DEF n, H, I
<1>5. CASE I = H \cup {t} /\ receipt'[t].value = n + 1 /\ LastNonce(store') = n + 1
  <2>1. Cardinality(I) = n + 1
    BY <1>1, <1>2, <1>3, <1>5, FS_AddElement
  <2>2. \A u \in H : receipt'[u].value \in 1..n
    BY <1>1, <1>2
  <2>3. {receipt'[u].value : u \in I} = 1..(n + 1)
    <3>1. \A m \in 1..n : \E u \in H : receipt'[u].value = m
      BY <1>1, <1>2
    <3>2. 1..(n + 1) = (1..n) \cup {n + 1}
      BY <1>1
    <3> QED BY <1>5, <2>2, <3>1, <3>2
  <2>4. \A u, w \in I : u # w => receipt'[u].value # receipt'[w].value
    BY <1>1, <1>2, <1>5, <2>2
  <2> QED BY <1>4, <1>5, <2>1, <2>3, <2>4
<1>6. CASE I = H /\ LastNonce(store') = n
  BY <1>1, <1>2, <1>4, <1>6
<1> QED BY <1>1, <1>5, <1>6

------------------------------------------------------------------------------
\* The batched configuration: what the ledger holds is what a call set, or
\* nothing before any call did.
ConfigInv ==
  /\ ReadersSeeWholeConfigs
  /\ Done("BatchedAdmin", "set_config") = {} => store[BA!ConfigKey] = Absent

\* So that is what a reader is told.
LEMMA ReadersToldAConfig ==
  ASSUME LedgerTyped, ConfigInv
  PROVE  ConfigIn(store) \in Configs
<1>1. CASE Done("BatchedAdmin", "set_config") = {}
  BY <1>1 DEF ConfigInv, ConfigIn, Configs
<1>2. CASE Done("BatchedAdmin", "set_config") # {}
  BY <1>2 DEF ConfigInv, ReadersSeeWholeConfigs, ConfigIn, Configs
<1> QED BY <1>1, <1>2

LEMMA ConfigStep ==
  ASSUME LedgerTyped, ConfigInv, NEW t \in Txs, NEW c \in LedgerCalls, Serial!Execute(t, c)
  PROVE  ConfigInv'
<1> DEFINE o   == "BatchedAdmin"
           fn  == c.inner.fn
           out == InvokeOf(c.contract, c.inner, Own(c.contract, store))
           S   == Done(o, "set_config")
           G   == Done(o, "get_config")
           F   == Done(o, "fee_bps")
           T   == Done(o, "set_config")'
           H   == Done(o, "get_config")'
           E   == Done(o, "fee_bps")'
           old == {BA!DefaultConfig} \cup {receipt[u].call.inner.config : u \in S}
           new == {BA!DefaultConfig} \cup {receipt'[u].call.inner.config : u \in T}
<1>1. /\ c.contract \in Contracts /\ c.inner \in CallsOf(c.contract)
      /\ OwnTyped(c.contract, Own(c.contract, store))
      /\ \A k \in KeysOf(c.contract) : Own(c.contract, store)[k] = store[k]
      /\ \A k \in KeysOf(c.contract) : store'[k] = out.store[k]
      /\ \A k \in LedgerKeys \ KeysOf(c.contract) : store'[k] = store[k]
      /\ receipt'[t].value = out.value /\ receipt'[t].call = c
  BY StepEffect
<1>2. /\ T = IF c.contract = o /\ fn = "set_config" THEN S \cup {t} ELSE S
      /\ H = IF c.contract = o /\ fn = "get_config" THEN G \cup {t} ELSE G
      /\ E = IF c.contract = o /\ fn = "fee_bps" THEN F \cup {t} ELSE F
      /\ \A u \in S \cup G \cup F : receipt'[u] = receipt[u]
  BY DoneSteps
<1>3. ConfigIn(store) \in old
  BY ReadersToldAConfig DEF Configs
<1>4. /\ \A u \in G : receipt[u].value \in old
      /\ \A u \in F : \E config \in old : receipt[u].value = config.fee_bps
      /\ S # {} => \E u \in S : store[BA!ConfigKey] = receipt[u].call.inner.config
      /\ S = {} => store[BA!ConfigKey] = Absent
  BY DEF ConfigInv, ReadersSeeWholeConfigs, Configs
<1>5. ConfigInv' <=>
        /\ \A u \in H : receipt'[u].value \in new
        /\ \A u \in E : \E config \in new : receipt'[u].value = config.fee_bps
        /\ T # {} => \E u \in T : store'[BA!ConfigKey] = receipt'[u].call.inner.config
        /\ T = {} => store'[BA!ConfigKey] = Absent
  BY DEF ConfigInv, ReadersSeeWholeConfigs, Configs
<1>6. BA!ConfigKey \in LedgerKeys /\ BA!ConfigKey \in KeysOf(o)
  BY KeysAre DEF Contracts
<1> HIDE DEF out, S, G, F, T, H, E
<1>7. old \subseteq new
  BY <1>2
<1>8. /\ \A u \in G : receipt'[u].value \in new
      /\ \A u \in F : \E config \in new : receipt'[u].value = config.fee_bps
  BY <1>2, <1>4, <1>7
<1>9. CASE c.contract = o
  <2>1. c.inner \in BA!Calls /\ ConfigIn(Own(o, store)) = ConfigIn(store)
    BY <1>1, <1>6, <1>9 DEF ConfigIn, CallsOf
  <2>2. CASE fn = "set_config"
    <3>1. store'[BA!ConfigKey] = c.inner.config
      BY <1>1, <1>6, <1>9, <2>1, <2>2, ConfigRuns DEF out
    <3>2. T = S \cup {t} /\ H = G /\ E = F
      BY <1>2, <1>9, <2>2
    <3> HIDE DEF old, new
    <3> QED BY <1>1, <1>5, <1>8, <3>1, <3>2
  <2>3. CASE fn # "set_config"
    <3>1. store'[BA!ConfigKey] = store[BA!ConfigKey] /\ T = S
      BY <1>1, <1>2, <1>6, <1>9, <2>1, <2>3, ConfigRuns DEF out
    <3>2. /\ fn = "get_config" => receipt'[t].value = ConfigIn(store)
          /\ fn = "fee_bps" => receipt'[t].value = ConfigIn(store).fee_bps
      BY <1>1, <1>9, <2>1, ConfigRuns DEF out
    <3>3. ConfigIn(store) \in new
      BY <1>3, <1>7
    <3> HIDE DEF old, new
    <3> QED BY <1>2, <1>4, <1>5, <1>8, <3>1, <3>2, <3>3
  <2> QED BY <2>2, <2>3
<1>10. CASE c.contract # o
  <2>1. BA!ConfigKey \notin KeysOf(c.contract)
    BY <1>1, <1>10, KeysAre, KeysDiffer DEF Contracts
  <2>2. store'[BA!ConfigKey] = store[BA!ConfigKey] /\ T = S /\ H = G /\ E = F
    BY <1>1, <1>2, <1>6, <1>10, <2>1
  <2> HIDE DEF old, new
  <2> QED BY <1>2, <1>4, <1>5, <1>8, <2>2
<1> QED BY <1>9, <1>10

------------------------------------------------------------------------------
\* Settings written one by one.

\* What set_config's receipts say of their calls.
SettingsTyped ==
  \A t \in Done("NaiveAdmin", "set_config") :
    ValuesOf(t) \in Seq(SettingValues) /\ Len(ValuesOf(t)) \in 0..FIELDS

LEMMA SettingsTypedAlways == LedgerTyped => SettingsTyped
<1> SUFFICES ASSUME LedgerTyped, NEW t \in Done("NaiveAdmin", "set_config")
             PROVE  ValuesOf(t) \in Seq(SettingValues) /\ Len(ValuesOf(t)) \in 0..FIELDS
  BY DEF SettingsTyped
<1>1. /\ receipt[t] \in Receipts /\ receipt[t].call.contract = "NaiveAdmin"
      /\ receipt[t].call.inner.fn = "set_config"
  BY DEF LedgerTyped, Done
<1>2. receipt[t].call.inner \in NA!Calls
  BY <1>1 DEF Receipts, LedgerCalls, CallsOf
<1>3. "NaiveAdmin" \in Contracts /\ KeysOf("NaiveAdmin") \subseteq LedgerKeys
  BY KeysAre DEF Contracts
<1>4. OwnTyped("NaiveAdmin", Own("NaiveAdmin", store))
  BY <1>3 DEF LedgerTyped, WellTyped, OwnTyped, Own
<1> QED BY <1>1, <1>2, <1>4, AdminRuns DEF ValuesOf

LEMMA AdminStep ==
  ASSUME LedgerTyped, NoTornConfig, NEW t \in Txs, NEW c \in LedgerCalls, Serial!Execute(t, c)
  PROVE  NoTornConfig'
<1> DEFINE o   == "NaiveAdmin"
           fn  == c.inner.fn
           out == InvokeOf(c.contract, c.inner, Own(c.contract, store))
           S   == Done(o, "set_config")
           T   == Done(o, "set_config")'
           v   == [u \in Txs |-> receipt[u].call.inner.values]
           w   == [u \in Txs |-> receipt'[u].call.inner.values]
<1>1. /\ c.contract \in Contracts /\ c.inner \in CallsOf(c.contract)
      /\ OwnTyped(c.contract, Own(c.contract, store))
      /\ \A k \in KeysOf(c.contract) : Own(c.contract, store)[k] = store[k]
      /\ \A k \in KeysOf(c.contract) : store'[k] = out.store[k]
      /\ \A k \in LedgerKeys \ KeysOf(c.contract) : store'[k] = store[k]
      /\ receipt'[t].call = c
      /\ LedgerTyped'
  BY StepEffect
<1>2. /\ T = IF c.contract = o /\ fn = "set_config" THEN S \cup {t} ELSE S
      /\ S \subseteq Txs /\ t \notin S
      /\ \A u \in S : w[u] = v[u]
      /\ w[t] = c.inner.values
  BY <1>1, DoneSteps
<1>3. \A u \in S : v[u] \in Seq(SettingValues) /\ Len(v[u]) \in 0..FIELDS
  BY <1>2, SettingsTypedAlways DEF SettingsTyped, ValuesOf
<1>4. /\ (\E u \in S : v[u] # <<>>) =>
           \E u \in S : /\ v[u] # <<>>
                        /\ \A i \in DOMAIN v[u] : store[NA!Setting(i - 1)] = v[u][i]
      /\ \A i \in NA!Fields :
           IF {u \in S : i < Len(v[u])} = {} THEN store[NA!Setting(i)] = Absent
           ELSE \E u \in {x \in S : i < Len(v[x])} : store[NA!Setting(i)] = v[u][i + 1]
  BY <1>2 DEF NoTornConfig, ValuesOf
<1>5. NoTornConfig' <=>
      /\ (\E u \in T : w[u] # <<>>) =>
           \E u \in T : /\ w[u] # <<>>
                        /\ \A i \in DOMAIN w[u] : store'[NA!Setting(i - 1)] = w[u][i]
      /\ \A i \in NA!Fields :
           IF {u \in T : i < Len(w[u])} = {} THEN store'[NA!Setting(i)] = Absent
           ELSE \E u \in {x \in T : i < Len(w[x])} : store'[NA!Setting(i)] = w[u][i + 1]
  <2>1. T \subseteq Txs
    BY <1>2
  <2>2. \A u \in T : w[u] = receipt'[u].call.inner.values
    BY <2>1
  <2>3. \A i : {u \in T : i < Len(w[u])} = {u \in T : i < Len(receipt'[u].call.inner.values)}
    BY <2>2
  <2> HIDE DEF w
  <2>4. NoTornConfig' <=>
        /\ (\E u \in T : receipt'[u].call.inner.values # <<>>) =>
             \E u \in T : /\ receipt'[u].call.inner.values # <<>>
                          /\ \A i \in DOMAIN receipt'[u].call.inner.values :
                               store'[NA!Setting(i - 1)] = receipt'[u].call.inner.values[i]
        /\ \A i \in NA!Fields :
             IF {u \in T : i < Len(receipt'[u].call.inner.values)} = {}
             THEN store'[NA!Setting(i)] = Absent
             ELSE \E u \in {x \in T : i < Len(receipt'[x].call.inner.values)} :
                    store'[NA!Setting(i)] = receipt'[u].call.inner.values[i + 1]
    BY DEF NoTornConfig, ValuesOf
  <2> HIDE DEF T
  <2> QED BY <2>2, <2>3, <2>4, SMTT(30)
<1>6. \A i \in NA!Fields : NA!Setting(i) \in LedgerKeys /\ NA!Setting(i) \in KeysOf(o)
  BY KeysAre DEF Contracts
<1> HIDE DEF out, S, T, v, w
<1>7. CASE c.contract = o /\ fn = "set_config"
  <2> DEFINE vals == c.inner.values
  <2>1. c.inner \in NA!Calls
    BY <1>1, <1>7 DEF CallsOf
  <2>2. /\ vals \in Seq(SettingValues) /\ Len(vals) \in 0..FIELDS
        /\ \A i \in NA!Fields : store'[NA!Setting(i)] =
             IF i < Len(vals) THEN vals[i + 1] ELSE store[NA!Setting(i)]
    BY <1>1, <1>6, <1>7, <2>1, AdminRuns DEF out
  <2>3. DOMAIN vals = 1..Len(vals) /\ Len(vals) \in Nat /\ FIELDS \in Nat
    BY <2>2, LenProperties, DeploymentAssumption
  <2>4. T = S \cup {t} /\ w[t] = vals
    BY <1>2, <1>7
  <2> HIDE DEF vals
  <2>5. \A i \in DOMAIN vals : store'[NA!Setting(i - 1)] = vals[i]
    <3> SUFFICES ASSUME NEW i \in 1..Len(vals) PROVE store'[NA!Setting(i - 1)] = vals[i]
      BY <2>3
    <3>1. i - 1 \in NA!Fields /\ i - 1 < Len(vals) /\ (i - 1) + 1 = i
      BY <2>2, <2>3 DEF NA!Fields
    <3> QED BY <2>2, <3>1
  <2>6. vals = <<>> => Len(vals) = 0
    OBVIOUS
  <2>7. CASE vals # <<>>
    <3>1. \A i \in NA!Fields :
            IF {u \in T : i < Len(w[u])} = {} THEN store'[NA!Setting(i)] = Absent
            ELSE \E u \in {x \in T : i < Len(w[x])} : store'[NA!Setting(i)] = w[u][i + 1]
      <4> SUFFICES ASSUME NEW i \in NA!Fields
                   PROVE  IF {u \in T : i < Len(w[u])} = {} THEN store'[NA!Setting(i)] = Absent
                          ELSE \E u \in {x \in T : i < Len(w[x])} : store'[NA!Setting(i)] = w[u][i + 1]
        OBVIOUS
      <4>1. CASE i < Len(vals)
        BY <2>2, <2>4, <4>1
      <4>2. CASE ~(i < Len(vals))
        <5>1. {u \in T : i < Len(w[u])} = {u \in S : i < Len(v[u])}
          BY <1>2, <2>4, <4>2
        <5> QED BY <1>2, <1>4, <2>2, <4>2, <5>1
      <4> QED BY <4>1, <4>2
    <3>2. \E u \in T : /\ w[u] # <<>>
                       /\ \A i \in DOMAIN w[u] : store'[NA!Setting(i - 1)] = w[u][i]
      BY <2>4, <2>5, <2>7
    <3> QED BY <1>5, <3>1, <3>2
  <2>8. CASE vals = <<>>
    <3>1. \A i \in NA!Fields : store'[NA!Setting(i)] = store[NA!Setting(i)] /\ ~(i < Len(vals))
      BY <2>2, <2>6, <2>8 DEF NA!Fields
    <3>2. \A i \in NA!Fields : {u \in T : i < Len(w[u])} = {u \in S : i < Len(v[u])}
      BY <1>2, <2>4, <3>1
    <3>3. (\E u \in T : w[u] # <<>>) <=> \E u \in S : v[u] # <<>>
      BY <1>2, <2>4, <2>8
    <3>4. ASSUME NEW u \in S, NEW i \in DOMAIN v[u]
          PROVE  store'[NA!Setting(i - 1)] = store[NA!Setting(i - 1)]
      <4>1. DOMAIN v[u] = 1..Len(v[u]) /\ Len(v[u]) \in 0..FIELDS
        BY <1>3, LenProperties
      <4>2. i - 1 \in NA!Fields
        BY <2>3, <4>1 DEF NA!Fields
      <4> QED BY <3>1, <4>2
    <3>5. \A i \in NA!Fields :
            IF {u \in T : i < Len(w[u])} = {} THEN store'[NA!Setting(i)] = Absent
            ELSE \E u \in {x \in T : i < Len(w[x])} : store'[NA!Setting(i)] = w[u][i + 1]
      BY <1>2, <1>4, <3>1, <3>2
    <3>6. (\E u \in T : w[u] # <<>>) =>
            \E u \in T : /\ w[u] # <<>>
                         /\ \A i \in DOMAIN w[u] : store'[NA!Setting(i - 1)] = w[u][i]
      BY <1>2, <1>4, <2>4, <3>3, <3>4
    <3> QED BY <1>5, <3>5, <3>6
  <2> QED BY <2>7, <2>8
<1>8. CASE ~(c.contract = o /\ fn = "set_config")
  <2>1. T = S
    BY <1>2, <1>8
  <2>2. \A i \in NA!Fields : store'[NA!Setting(i)] = store[NA!Setting(i)]
    <3>1. CASE c.contract = o
      <4>1. c.inner \in NA!Calls /\ fn # "set_config"
        BY <1>1, <1>8, <3>1 DEF CallsOf
      <4> QED BY <1>1, <1>6, <3>1, <4>1, AdminRuns DEF out
    <3>2. CASE c.contract # o
      <4>1. \A i \in NA!Fields : NA!Setting(i) \notin KeysOf(c.contract)
        BY <1>1, <3>2, KeysAre, KeysDiffer DEF Contracts
      <4> QED BY <1>1, <1>6, <4>1
    <3> QED BY <3>1, <3>2
  <2>3. ASSUME NEW u \in S, NEW i \in DOMAIN v[u]
        PROVE  store'[NA!Setting(i - 1)] = store[NA!Setting(i - 1)]
    <3>1. DOMAIN v[u] = 1..Len(v[u]) /\ Len(v[u]) \in 0..FIELDS
      BY <1>3, LenProperties
    <3>2. i - 1 \in NA!Fields
      BY <3>1, DeploymentAssumption DEF NA!Fields
    <3> QED BY <2>2, <3>2
  <2>4. \A i \in NA!Fields : {u \in T : i < Len(w[u])} = {u \in S : i < Len(v[u])}
    BY <1>2, <2>1
  <2>5. \A i \in NA!Fields :
          IF {u \in T : i < Len(w[u])} = {} THEN store'[NA!Setting(i)] = Absent
          ELSE \E u \in {x \in T : i < Len(w[x])} : store'[NA!Setting(i)] = w[u][i + 1]
    BY <1>2, <1>4, <2>1, <2>2, <2>4
  <2>6. (\E u \in T : w[u] # <<>>) =>
          \E u \in T : /\ w[u] # <<>>
                       /\ \A i \in DOMAIN w[u] : store'[NA!Setting(i - 1)] = w[u][i]
    BY <1>2, <1>4, <2>1, <2>3
  <2> QED BY <1>5, <2>5, <2>6
<1> QED BY <1>7, <1>8

------------------------------------------------------------------------------
\* Balances.

DepositsTo(a)    == {t \in Moved("deposit") : receipt[t].call.inner.to = a}
TransfersTo(a)   == {t \in Moved("transfer") : receipt[t].call.inner.to = a}
TransfersFrom(a) == {t \in Moved("transfer") : receipt[t].call.inner.from = a}

\* A deposit or transfer with a receipt carried an integer.
LEMMA MovedTyped ==
  ASSUME LedgerTyped, NEW fn \in {"deposit", "transfer"}, NEW t \in Moved(fn)
  PROVE  t \in Txs /\ receipt[t].call.inner.amount \in Int
<1>1. /\ t \in Txs /\ receipt[t] \in Receipts /\ receipt[t].call.contract = "PerUserBalance"
      /\ receipt[t].call.inner.fn = fn
  BY DEF LedgerTyped, Moved, Done
<1>2. receipt[t].call.inner \in PB!Calls
  BY <1>1 DEF Receipts, LedgerCalls, CallsOf
<1>3. receipt[t].call.inner.amount \in Amounts
  BY <1>1, <1>2 DEF PB!Calls
<1> QED BY <1>1, <1>3, DeploymentAssumption

\* Who has moved money: a call joins when it is answered "ok".
LEMMA MovedOf ==
  ASSUME LedgerTyped, NEW t \in Txs, NEW c \in LedgerCalls, Serial!Execute(t, c), NEW fn
  PROVE  LET joins == /\ c.contract = "PerUserBalance" /\ c.inner.fn = fn
                      /\ receipt'[t].status = "ok"
         IN  /\ Moved(fn)' = IF joins THEN Moved(fn) \cup {t} ELSE Moved(fn)
             /\ t \notin Moved(fn) /\ Moved(fn) \subseteq Txs
             /\ \A u \in Moved(fn) : receipt'[u] = receipt[u]
<1> DEFINE o     == "PerUserBalance"
           joins == c.contract = o /\ c.inner.fn = fn /\ receipt'[t].status = "ok"
           D == Done(o, fn)
           E == Done(o, fn)'
           M == Moved(fn)
           N == Moved(fn)'
<1>1. /\ E = IF c.contract = o /\ c.inner.fn = fn THEN D \cup {t} ELSE D
      /\ t \notin D /\ D \subseteq Txs /\ \A u \in D : receipt'[u] = receipt[u]
  BY DoneSteps
<1>2. /\ \A u : u \in M <=> u \in D /\ receipt[u].status = "ok"
      /\ \A u : u \in N <=> u \in E /\ receipt'[u].status = "ok"
  BY DEF Moved
<1> HIDE DEF D, E, M, N
<1>3. t \notin M /\ M \subseteq Txs /\ \A u \in M : receipt'[u] = receipt[u]
  BY <1>1, <1>2
<1>4. CASE joins
  <2>1. \A u : u \in N <=> u \in M \/ u = t
    BY <1>1, <1>2, <1>4
  <2>2. N = M \cup {t}
    BY <2>1
  <2> QED BY <1>3, <1>4, <2>2 DEF M, N
<1>5. CASE ~joins
  <2>1. \A u : u \in N <=> u \in M
    BY <1>1, <1>2, <1>5
  <2>2. N = M
    BY <2>1
  <2> QED BY <1>3, <1>5, <2>2 DEF M, N
<1> QED BY <1>4, <1>5

\* What a step does to the balances and to the calls that went through.
LEMMA MovedSteps ==
  ASSUME LedgerTyped, NEW t \in Txs, NEW c \in LedgerCalls, Serial!Execute(t, c)
  PROVE  LET i   == c.inner
             new == PB!read(i.to, store) + i.amount
             dep == c.contract = "PerUserBalance" /\ i.fn = "deposit" /\ new \in PB!I128
             mov == c.contract = "PerUserBalance" /\ i.fn = "transfer" /\ GoesThrough(i, store)
         IN  /\ Moved("deposit")' = IF dep THEN Moved("deposit") \cup {t} ELSE Moved("deposit")
             /\ Moved("transfer")' = IF mov THEN Moved("transfer") \cup {t} ELSE Moved("transfer")
             /\ t \notin Moved("deposit") /\ t \notin Moved("transfer")
             /\ \A u \in Moved("deposit") \cup Moved("transfer") : receipt'[u] = receipt[u]
             /\ receipt'[t].call = c
             /\ \A a \in Accounts : PB!read(a, store) \in PB!I128
             /\ dep => /\ i.to \in Accounts /\ i.amount \in Int
                       /\ \A a \in Accounts : store'[PB!Balance(a)] =
                            IF a = i.to THEN new ELSE store[PB!Balance(a)]
             /\ mov => /\ i.from \in Accounts /\ i.to \in Accounts /\ i.amount \in Int
                       /\ \A a \in Accounts : store'[PB!Balance(a)] =
                            IF a = i.to THEN Got(i, store)
                            ELSE IF a = i.from THEN Left(i, store) ELSE store[PB!Balance(a)]
             /\ ~dep /\ ~mov => \A a \in Accounts : store'[PB!Balance(a)] = store[PB!Balance(a)]
<1> DEFINE o   == "PerUserBalance"
           i   == c.inner
           own == Own(o, store)
           out == InvokeOf(c.contract, i, Own(c.contract, store))
           new == PB!read(i.to, store) + i.amount
           dep == c.contract = o /\ i.fn = "deposit" /\ new \in PB!I128
           mov == c.contract = o /\ i.fn = "transfer" /\ GoesThrough(i, store)
           A == Moved("deposit")
           B == Moved("deposit")'
           F == Moved("transfer")
           G == Moved("transfer")'
<1>1. /\ c.contract \in Contracts /\ i \in CallsOf(c.contract)
      /\ OwnTyped(c.contract, Own(c.contract, store))
      /\ \A k \in KeysOf(c.contract) : Own(c.contract, store)[k] = store[k]
      /\ \A k \in KeysOf(c.contract) : store'[k] = out.store[k]
      /\ \A k \in LedgerKeys \ KeysOf(c.contract) : store'[k] = store[k]
      /\ receipt'[t].status = out.status /\ receipt'[t].call = c
      /\ \A u \in Txs \ {t} : receipt'[u] = receipt[u]
  BY StepEffect
<1>2. /\ B = IF c.contract = o /\ i.fn = "deposit" /\ out.status = "ok" THEN A \cup {t} ELSE A
      /\ t \notin A /\ \A u \in A : receipt'[u] = receipt[u]
  BY <1>1, MovedOf
<1>3. /\ G = IF c.contract = o /\ i.fn = "transfer" /\ out.status = "ok" THEN F \cup {t} ELSE F
      /\ t \notin F /\ \A u \in F : receipt'[u] = receipt[u]
  BY <1>1, MovedOf
<1>4. \A a \in Accounts : PB!Balance(a) \in LedgerKeys /\ PB!Balance(a) \in KeysOf(o)
  BY KeysAre DEF Contracts
<1>5. \A a \in Accounts : PB!read(a, store) \in PB!I128
  <2> SUFFICES ASSUME NEW a \in Accounts PROVE PB!read(a, store) \in PB!I128
    OBVIOUS
  <2>1. store[PB!Balance(a)] \in PB!I128 \cup {Absent}
    BY <1>4, ValuesAre DEF LedgerTyped, WellTyped
  <2>2. 0 \in PB!I128
    BY DeploymentAssumption DEF PB!I128
  <2> QED BY <2>1, <2>2 DEF PB!read, PB!UnwrapOr
<1> HIDE DEF A, B, F, G, out
<1>6. CASE c.contract = o
  <2>1. /\ i \in PB!Calls /\ OwnTyped(o, own)
        /\ \A a \in Accounts : own[PB!Balance(a)] = store[PB!Balance(a)]
        /\ out = InvokeOf(o, i, own)
    BY <1>1, <1>4, <1>6 DEF CallsOf, out
  <2> HIDE DEF own
  <2>2. \A a \in Accounts : PB!read(a, own) = PB!read(a, store)
    BY <2>1 DEF PB!read, PB!UnwrapOr
  <2>3. \A a \in Accounts : store'[PB!Balance(a)] = out.store[PB!Balance(a)]
    BY <1>1, <1>4, <1>6
  <2>4. CASE i.fn = "deposit"
    <3>1. i.to \in Accounts /\ i.amount \in Int /\ PB!read(i.to, own) + i.amount = new
      BY <2>1, <2>2, <2>4, BalanceRuns
    <3> HIDE DEF new
    <3>2. CASE new \in PB!I128
      <4>1. /\ out.status = "ok"
            /\ \A a \in Accounts : out.store[PB!Balance(a)] =
                 IF a = i.to THEN new ELSE own[PB!Balance(a)]
        BY <2>1, <2>4, <3>1, <3>2, BalanceRuns
      <4>2. B = A \cup {t} /\ G = F
        BY <1>1, <1>2, <1>3, <1>6, <2>4, <4>1
      <4> QED BY <1>1, <1>2, <1>3, <1>5, <1>6, <2>1, <2>3, <2>4, <3>1, <3>2, <4>1, <4>2 DEF new, A, B, F, G
    <3>3. CASE new \notin PB!I128
      <4>1. out.status = "trap" /\ out.store = own
        BY <2>1, <2>4, <3>1, <3>3, BalanceRuns
      <4>2. B = A /\ G = F
        BY <1>1, <1>2, <1>3, <1>6, <2>4, <4>1
      <4> QED BY <1>1, <1>2, <1>3, <1>5, <1>6, <2>1, <2>3, <2>4, <3>1, <3>3, <4>1, <4>2 DEF new, A, B, F, G
    <3> QED BY <3>2, <3>3
  <2>5. CASE i.fn = "transfer"
    <3>1. i.from \in Accounts /\ i.to \in Accounts /\ i.amount \in Int
      BY <2>1, <2>5, BalanceRuns
    <3>2. /\ Left(i, own) = Left(i, store) /\ Got(i, own) = Got(i, store)
          /\ GoesThrough(i, own) <=> GoesThrough(i, store)
      BY <2>2, <3>1 DEF Left, Got, GoesThrough
    <3>3. CASE GoesThrough(i, store)
      <4>1. /\ out.status = "ok"
            /\ \A a \in Accounts : out.store[PB!Balance(a)] =
                 IF a = i.to THEN Got(i, own)
                 ELSE IF a = i.from THEN Left(i, own) ELSE own[PB!Balance(a)]
        BY <2>1, <2>5, <3>2, <3>3, BalanceRuns
      <4>2. B = A /\ G = F \cup {t}
        BY <1>1, <1>2, <1>3, <1>6, <2>5, <4>1
      <4> QED BY <1>1, <1>2, <1>3, <1>5, <1>6, <2>1, <2>3, <2>5, <3>1, <3>2, <3>3, <4>1, <4>2 DEF A, B, F, G
    <3>4. CASE ~GoesThrough(i, store)
      <4>1. out.status = "trap" /\ out.store = own
        BY <2>1, <2>5, <3>2, <3>4, BalanceRuns
      <4>2. B = A /\ G = F
        BY <1>1, <1>2, <1>3, <1>6, <2>5, <4>1
      <4> QED BY <1>1, <1>2, <1>3, <1>5, <1>6, <2>1, <2>3, <2>5, <3>1, <3>4, <4>1, <4>2 DEF A, B, F, G
    <3> QED BY <3>3, <3>4
  <2>6. CASE i.fn \notin {"deposit", "transfer"}
    <3>1. out.store = own
      BY <2>1, <2>6, BalanceRuns
    <3>2. B = A /\ G = F
      BY <1>2, <1>3, <2>6
    <3> QED BY <1>1, <1>2, <1>3, <1>5, <2>1, <2>3, <2>6, <3>1, <3>2 DEF A, B, F, G
  <2> QED BY <2>4, <2>5, <2>6
<1>7. CASE c.contract # o
  <2>1. \A a \in Accounts : PB!Balance(a) \notin KeysOf(c.contract)
    BY <1>1, <1>7, KeysAre, KeysDiffer DEF Contracts
  <2>2. \A a \in Accounts : store'[PB!Balance(a)] = store[PB!Balance(a)]
    BY <1>1, <1>4, <2>1
  <2>3. B = A /\ G = F
    BY <1>2, <1>3, <1>7
  <2> QED BY <1>1, <1>2, <1>3, <1>5, <1>7, <2>2, <2>3 DEF A, B, F, G
<1> QED BY <1>6, <1>7

\* Over T the receipts q say what r says over S, and maybe something of t.
OneMoreReceipt(r, S, q, T, t) ==
  /\ IsFiniteSet(S) /\ t \notin S
  /\ \A u \in S : q[u] = r[u] /\ r[u].call.inner.amount \in Int
  /\ T \in {S, S \cup {t}} /\ (t \in T => q[t].call.inner.amount \in Int)

AmountIn(r, S) == NetSum([u \in S |-> r[u].call.inner.amount], S)

\* A sum of amounts, over receipts a step does not change and the one it adds.
LEMMA AmountStep ==
  ASSUME NEW S, NEW t, NEW r, NEW q, NEW T, OneMoreReceipt(r, S, q, T, t)
  PROVE  /\ AmountIn(q, T) =
              AmountIn(r, S) + (IF t \in T THEN q[t].call.inner.amount ELSE 0)
         /\ AmountIn(r, S) \in Int
<1> DEFINE f == [u \in S |-> r[u].call.inner.amount]
           g == [u \in T |-> q[u].call.inner.amount]
<1>1. /\ \A u \in S : f[u] \in Int
      /\ \A u \in S : g[u] = f[u]
      /\ t \in T => g[t] \in Int
      /\ t \in T => g[t] = q[t].call.inner.amount
      /\ IsFiniteSet(S) /\ t \notin S /\ T \in {S, S \cup {t}}
  BY DEF OneMoreReceipt
<1> HIDE DEF f, g
<1>2. OneMoreTerm(f, S, g, T, t)
  BY <1>1 DEF OneMoreTerm
<1>3. NetSum(g, T) = NetSum(f, S) + (IF t \in T THEN g[t] ELSE 0)
  BY <1>2, NetSumStep
<1>4. NetSum(f, S) \in Int
  BY <1>1, NetSumType
<1> QED BY <1>1, <1>3, <1>4 DEF f, g, AmountIn

CallsTo(r, M, a)   == {u \in M : r[u].call.inner.to = a}
CallsFrom(r, M, a) == {u \in M : r[u].call.inner.from = a}

\* What a step adds to the sums an account's balance is made of.
LEMMA SumsStep ==
  ASSUME LedgerTyped, NEW t \in Txs, NEW c \in LedgerCalls, Serial!Execute(t, c), NEW a,
         NEW fn \in {"deposit", "transfer"}
  PROVE  LET to   == CallsTo(receipt, Moved(fn), a)
             from == CallsFrom(receipt, Moved(fn), a)
             To   == CallsTo(receipt', Moved(fn)', a)
             From == CallsFrom(receipt', Moved(fn)', a)
             i    == c.inner
         IN  /\ AmountIn(receipt, to) \in Int /\ AmountIn(receipt, from) \in Int
             /\ t \in Moved(fn)' => i.amount \in Int
             /\ AmountIn(receipt', To) =
                  AmountIn(receipt, to) + (IF t \in Moved(fn)' /\ i.to = a THEN i.amount ELSE 0)
             /\ AmountIn(receipt', From) =
                  AmountIn(receipt, from) + (IF t \in Moved(fn)' /\ i.from = a THEN i.amount ELSE 0)
<1> DEFINE M    == Moved(fn)
           N    == Moved(fn)'
           to   == {u \in M : receipt[u].call.inner.to = a}
           from == {u \in M : receipt[u].call.inner.from = a}
           To   == {u \in N : receipt'[u].call.inner.to = a}
           From == {u \in N : receipt'[u].call.inner.from = a}
           n    == c.inner.amount
<1>1. /\ N = M \/ N = M \cup {t}
      /\ t \notin M /\ M \subseteq Txs
      /\ \A u \in M : receipt'[u] = receipt[u]
  BY MovedOf
<1>2. \A u \in M : receipt[u].call.inner.amount \in Int
  BY MovedTyped
<1>3. receipt'[t].call = c /\ LedgerTyped'
  BY StepEffect
<1>4. t \in N => n \in Int
  <2>1. ASSUME LedgerTyped', t \in Moved(fn)' PROVE receipt'[t].call.inner.amount \in Int
    <3>1. /\ receipt'[t] \in Receipts /\ receipt'[t].call.contract = "PerUserBalance"
          /\ receipt'[t].call.inner.fn = fn
      BY <2>1 DEF LedgerTyped, Moved, Done
    <3>2. receipt'[t].call.inner \in PB!Calls
      BY <3>1 DEF Receipts, LedgerCalls, CallsOf
    <3>3. receipt'[t].call.inner.amount \in Amounts
      BY <3>1, <3>2 DEF PB!Calls
    <3> QED BY <3>3, DeploymentAssumption
  <2> QED BY <1>3, <2>1
<1> HIDE DEF M, N, n
<1>6. /\ to \subseteq M /\ from \subseteq M /\ t \notin to /\ t \notin from
      /\ IsFiniteSet(to) /\ IsFiniteSet(from)
  <2>1. to \in SUBSET Txs /\ from \in SUBSET Txs
    BY <1>1
  <2> QED BY <1>1, <2>1, FS_Subset, DeploymentAssumption
<1>7. /\ To \in {to, to \cup {t}} /\ (t \in To <=> t \in N /\ c.inner.to = a)
      /\ From \in {from, from \cup {t}} /\ (t \in From <=> t \in N /\ c.inner.from = a)
  <2>1. /\ t \in To <=> t \in N /\ c.inner.to = a
        /\ t \in From <=> t \in N /\ c.inner.from = a
    BY <1>3
  <2>2. \A u : u # t => (u \in To <=> u \in to) /\ (u \in From <=> u \in from)
    BY <1>1
  <2> HIDE DEF to, from, To, From
  <2>3. To = to \/ To = to \cup {t}
    <3>1. CASE t \in To
      BY <1>6, <2>2, <3>1
    <3>2. CASE t \notin To
      BY <1>6, <2>2, <3>2
    <3> QED BY <3>1, <3>2
  <2>4. From = from \/ From = from \cup {t}
    <3>1. CASE t \in From
      BY <1>6, <2>2, <3>1
    <3>2. CASE t \notin From
      BY <1>6, <2>2, <3>2
    <3> QED BY <3>1, <3>2
  <2> QED BY <2>1, <2>3, <2>4
<1> HIDE DEF to, from, To, From
<1>8. /\ AmountIn(receipt', To) =
           AmountIn(receipt, to)
             + (IF t \in To THEN receipt'[t].call.inner.amount ELSE 0)
      /\ AmountIn(receipt, to) \in Int
  <2>1. /\ \A u \in to : receipt'[u] = receipt[u] /\ receipt[u].call.inner.amount \in Int
        /\ t \in To => receipt'[t].call.inner.amount \in Int
    BY <1>1, <1>2, <1>3, <1>4, <1>6, <1>7 DEF n
  <2>2. OneMoreReceipt(receipt, to, receipt', To, t)
    BY <1>6, <1>7, <2>1 DEF OneMoreReceipt
  <2> QED BY <2>2, AmountStep
<1>9. /\ AmountIn(receipt', From) =
           AmountIn(receipt, from)
             + (IF t \in From THEN receipt'[t].call.inner.amount ELSE 0)
      /\ AmountIn(receipt, from) \in Int
  <2>1. /\ \A u \in from : receipt'[u] = receipt[u] /\ receipt[u].call.inner.amount \in Int
        /\ t \in From => receipt'[t].call.inner.amount \in Int
    BY <1>1, <1>2, <1>3, <1>4, <1>6, <1>7 DEF n
  <2>2. OneMoreReceipt(receipt, from, receipt', From, t)
    BY <1>6, <1>7, <2>1 DEF OneMoreReceipt
  <2> QED BY <2>2, AmountStep
<1>10. /\ AmountIn(receipt, to) \in Int /\ AmountIn(receipt, from) \in Int
       /\ AmountIn(receipt', To) =
            AmountIn(receipt, to) + (IF t \in N /\ c.inner.to = a THEN n ELSE 0)
       /\ AmountIn(receipt', From) =
            AmountIn(receipt, from) + (IF t \in N /\ c.inner.from = a THEN n ELSE 0)
  BY <1>3, <1>7, <1>8, <1>9 DEF n
<1> QED BY <1>4, <1>10 DEF M, N, n, to, from, To, From, CallsTo, CallsFrom

BalanceInv == BalancesMatchReceipts /\ NoOverdraft

\* What a step makes of an account's balance.
LEMMA BalanceMoves ==
  ASSUME LedgerTyped, NEW t \in Txs, NEW c \in LedgerCalls, Serial!Execute(t, c),
         NEW a \in Accounts
  PROVE  LET i   == c.inner
             was == PB!read(a, store)
             is  == PB!read(a, store')
             dep == t \in Moved("deposit")'
             mov == t \in Moved("transfer")'
         IN  /\ was \in Int /\ ~(dep /\ mov)
             /\ dep \/ mov => i.to \in Accounts /\ i.amount \in Int
             /\ dep => is = IF a = i.to THEN was + i.amount ELSE was
             /\ mov => /\ i.from \in Accounts
                       /\ a = i.from => i.amount <= was
                       /\ is = IF a = i.to
                               THEN IF a = i.from THEN was ELSE was + i.amount
                               ELSE IF a = i.from THEN was - i.amount ELSE was
             /\ ~dep /\ ~mov => is = was
<1> DEFINE i   == c.inner
           o   == "PerUserBalance"
           was == PB!read(a, store)
           is  == PB!read(a, store')
           new == PB!read(i.to, store) + i.amount
           dep == c.contract = o /\ i.fn = "deposit" /\ new \in PB!I128
           mov == c.contract = o /\ i.fn = "transfer" /\ GoesThrough(i, store)
           s   == store[PB!Balance(a)]
           w   == store'[PB!Balance(a)]
<1>1. /\ \A b \in Accounts : PB!read(b, store) \in PB!I128
      /\ t \in Moved("deposit")' <=> dep
      /\ t \in Moved("transfer")' <=> mov
      /\ dep => i.to \in Accounts /\ i.amount \in Int /\ w = IF a = i.to THEN new ELSE s
      /\ mov => /\ i.from \in Accounts /\ i.to \in Accounts /\ i.amount \in Int
                /\ w = IF a = i.to THEN Got(i, store)
                       ELSE IF a = i.from THEN Left(i, store) ELSE s
      /\ ~dep /\ ~mov => w = s
  <2>1. /\ Moved("deposit")' = IF dep THEN Moved("deposit") \cup {t} ELSE Moved("deposit")
        /\ Moved("transfer")' = IF mov THEN Moved("transfer") \cup {t} ELSE Moved("transfer")
        /\ t \notin Moved("deposit") /\ t \notin Moved("transfer")
        /\ \A b \in Accounts : PB!read(b, store) \in PB!I128
        /\ dep => i.to \in Accounts /\ i.amount \in Int
        /\ mov => i.from \in Accounts /\ i.to \in Accounts /\ i.amount \in Int
    BY MovedSteps
  <2>2. /\ dep => w = IF a = i.to THEN new ELSE s
        /\ mov => w = IF a = i.to THEN Got(i, store)
                      ELSE IF a = i.from THEN Left(i, store) ELSE s
        /\ ~dep /\ ~mov => w = s
    BY MovedSteps
  <2> HIDE DEF dep, mov
  <2> QED BY <2>1, <2>2
<1>2. was = (IF s = Absent THEN 0 ELSE s) /\ is = IF w = Absent THEN 0 ELSE w
  BY DEF PB!read, PB!UnwrapOr
<1>3. \A n \in PB!I128 : n \in Int /\ n # Absent
  BY DeploymentAssumption DEF PB!I128
<1>4. ~(dep /\ mov)
  OBVIOUS
<1>5. dep => is = IF a = i.to THEN was + i.amount ELSE was
  BY <1>1, <1>2, <1>3
<1>6. mov => /\ a = i.from => i.amount <= was
             /\ is = IF a = i.to THEN Got(i, store)
                     ELSE IF a = i.from THEN Left(i, store) ELSE was
  <2>1. mov => Got(i, store) \in PB!I128 /\ Left(i, store) \in PB!I128
                 /\ PB!read(i.from, store) >= i.amount
    BY DEF GoesThrough
  <2> HIDE DEF was, is, mov, s, w
  <2>2. mov => i.amount \in Int /\ PB!read(i.from, store) \in Int
    BY <1>1, <1>3
  <2>3. mov => (a = i.from => i.amount <= was)
    BY <2>1, <2>2 DEF was
  <2> QED BY <1>1, <1>2, <1>3, <2>1, <2>3
<1>7. mov => is = IF a = i.to
                  THEN IF a = i.from THEN was ELSE was + i.amount
                  ELSE IF a = i.from THEN was - i.amount ELSE was
  <2> SUFFICES ASSUME mov
               PROVE  is = IF a = i.to
                           THEN IF a = i.from THEN was ELSE was + i.amount
                           ELSE IF a = i.from THEN was - i.amount ELSE was
    OBVIOUS
  <2>1. was \in Int /\ i.amount \in Int
    BY <1>1, <1>3
  <2>2. a = i.from => Left(i, store) = was - i.amount
    BY DEF Left
  <2>3. a = i.to => Got(i, store) =
                      IF a = i.from THEN (was - i.amount) + i.amount ELSE was + i.amount
    BY DEF Got, Left
  <2>4. (was - i.amount) + i.amount = was
    BY <2>1
  <2> HIDE DEF was, is, mov, i
  <2> QED BY <1>6, <2>2, <2>3, <2>4
<1>8. was \in Int
  BY <1>1, <1>3
<1> HIDE DEF i, was, is, dep, mov, new, s, w
<1>9. /\ dep \/ mov => i.to \in Accounts /\ i.amount \in Int
      /\ mov => i.from \in Accounts
      /\ ~dep /\ ~mov => is = was
  BY <1>1, <1>2
<1> QED BY <1>1, <1>4, <1>5, <1>6, <1>7, <1>8, <1>9, Zenon DEF i, was, is

LEMMA BalanceStep ==
  ASSUME LedgerTyped, BalanceInv, NEW t \in Txs, NEW c \in LedgerCalls, Serial!Execute(t, c)
  PROVE  BalanceInv'
<1> DEFINE i   == c.inner
           dep == t \in Moved("deposit")'
           mov == t \in Moved("transfer")'
<1>1. BalancesMatchReceipts'
  <2> SUFFICES ASSUME NEW a \in Accounts
               PROVE  PB!read(a, store') =
                        AmountOf(DepositsTo(a))' + AmountOf(TransfersTo(a))'
                          - AmountOf(TransfersFrom(a))'
    BY DEF BalancesMatchReceipts, DepositsTo, TransfersTo, TransfersFrom, PB!read, PB!UnwrapOr
  <2> DEFINE was == PB!read(a, store)
             d == AmountOf(DepositsTo(a))
             r == AmountOf(TransfersTo(a))
             s == AmountOf(TransfersFrom(a))
  <2>1. was = d + r - s
    BY DEF BalanceInv, BalancesMatchReceipts, DepositsTo, TransfersTo, TransfersFrom
  <2>2. /\ d \in Int
        /\ AmountOf(DepositsTo(a))' = d + (IF dep /\ i.to = a THEN i.amount ELSE 0)
    <3>1. /\ d = AmountIn(receipt, CallsTo(receipt, Moved("deposit"), a))
          /\ AmountOf(DepositsTo(a))' =
               AmountIn(receipt', CallsTo(receipt', Moved("deposit")', a))
      BY DEF AmountOf, AmountIn, DepositsTo, CallsTo
    <3>2. /\ AmountIn(receipt, CallsTo(receipt, Moved("deposit"), a)) \in Int
          /\ AmountIn(receipt', CallsTo(receipt', Moved("deposit")', a)) =
               AmountIn(receipt, CallsTo(receipt, Moved("deposit"), a))
                 + (IF dep /\ i.to = a THEN i.amount ELSE 0)
      BY SumsStep
    <3> QED BY <3>1, <3>2
  <2>3. /\ r \in Int
        /\ AmountOf(TransfersTo(a))' = r + (IF mov /\ i.to = a THEN i.amount ELSE 0)
    <3>1. /\ r = AmountIn(receipt, CallsTo(receipt, Moved("transfer"), a))
          /\ AmountOf(TransfersTo(a))' =
               AmountIn(receipt', CallsTo(receipt', Moved("transfer")', a))
      BY DEF AmountOf, AmountIn, TransfersTo, CallsTo
    <3>2. /\ AmountIn(receipt, CallsTo(receipt, Moved("transfer"), a)) \in Int
          /\ AmountIn(receipt', CallsTo(receipt', Moved("transfer")', a)) =
               AmountIn(receipt, CallsTo(receipt, Moved("transfer"), a))
                 + (IF mov /\ i.to = a THEN i.amount ELSE 0)
      BY SumsStep
    <3> QED BY <3>1, <3>2
  <2>4. /\ s \in Int
        /\ AmountOf(TransfersFrom(a))' = s + (IF mov /\ i.from = a THEN i.amount ELSE 0)
    <3>1. /\ s = AmountIn(receipt, CallsFrom(receipt, Moved("transfer"), a))
          /\ AmountOf(TransfersFrom(a))' =
               AmountIn(receipt', CallsFrom(receipt', Moved("transfer")', a))
      BY DEF AmountOf, AmountIn, TransfersFrom, CallsFrom
    <3>2. /\ AmountIn(receipt, CallsFrom(receipt, Moved("transfer"), a)) \in Int
          /\ AmountIn(receipt', CallsFrom(receipt', Moved("transfer")', a)) =
               AmountIn(receipt, CallsFrom(receipt, Moved("transfer"), a))
                 + (IF mov /\ i.from = a THEN i.amount ELSE 0)
      BY SumsStep
    <3> QED BY <3>1, <3>2
  <2>5. /\ was \in Int /\ ~(dep /\ mov)
        /\ dep \/ mov => i.amount \in Int
        /\ dep => PB!read(a, store') = IF a = i.to THEN was + i.amount ELSE was
        /\ mov => PB!read(a, store') =
                    IF a = i.to
                    THEN IF a = i.from THEN was ELSE was + i.amount
                    ELSE IF a = i.from THEN was - i.amount ELSE was
        /\ ~dep /\ ~mov => PB!read(a, store') = was
    BY BalanceMoves, Zenon
  <2> HIDE DEF was, d, r, s, dep, mov, i
  <2>6. CASE dep
    BY <2>1, <2>2, <2>3, <2>4, <2>5, <2>6
  <2>7. CASE mov
    BY <2>1, <2>2, <2>3, <2>4, <2>5, <2>7
  <2>8. CASE ~dep /\ ~mov
    BY <2>1, <2>2, <2>3, <2>4, <2>5, <2>8
  <2> QED BY <2>6, <2>7, <2>8
<1>2. NoOverdraft'
  <2> DEFINE M == Moved("deposit") \cup Moved("transfer")
             N == Moved("deposit")' \cup Moved("transfer")'
  <2> SUFFICES ASSUME NEW a \in Accounts, PB!read(a, store') < 0
               PROVE  \E u \in N : receipt'[u].call.inner.to = a /\ receipt'[u].call.inner.amount < 0
    BY DEF NoOverdraft, PB!read, PB!UnwrapOr
  <2> DEFINE was == PB!read(a, store)
  <2>1. /\ M \subseteq N
        /\ \A u \in M : receipt'[u] = receipt[u]
    BY MovedOf
  <2>2. was < 0 => \E u \in M : receipt[u].call.inner.to = a /\ receipt[u].call.inner.amount < 0
    BY DEF BalanceInv, NoOverdraft
  <2>3. /\ was \in Int /\ ~(dep /\ mov)
        /\ dep \/ mov => i.amount \in Int
        /\ dep => PB!read(a, store') = IF a = i.to THEN was + i.amount ELSE was
        /\ mov => /\ a = i.from => i.amount <= was
                  /\ PB!read(a, store') =
                       IF a = i.to
                       THEN IF a = i.from THEN was ELSE was + i.amount
                       ELSE IF a = i.from THEN was - i.amount ELSE was
        /\ ~dep /\ ~mov => PB!read(a, store') = was
    BY BalanceMoves, Zenon
  <2>4. receipt'[t].call = c /\ (dep \/ mov => t \in N)
    BY StepEffect
  <2> HIDE DEF was, M, N, dep, mov
  <2>5. CASE was < 0
    BY <2>1, <2>2, <2>5
  <2>6. CASE ~(was < 0)
    <3>1. (dep \/ mov) /\ i.to = a /\ i.amount < 0
      <4> HIDE DEF i
      <4> QED BY <2>3, <2>6
    <3> QED BY <2>4, <3>1
  <2> QED BY <2>5, <2>6
<1> QED BY <1>1, <1>2 DEF BalanceInv

------------------------------------------------------------------------------
\* All of it, as one invariant of the serial ledger.
DepInv ==
  /\ LedgerTyped
  /\ NonceInv
  /\ ConfigInv
  /\ NoTornConfig
  /\ BalanceInv

LEMMA InitDepInv == Serial!Init => DepInv
<1> SUFFICES ASSUME Serial!Init PROVE DepInv
  OBVIOUS
<1>1. store = [k \in LedgerKeys |-> Absent] /\ \A t \in Txs : receipt[t] = Absent
  BY DEF Serial!Init
<1>2. LedgerTyped
  BY <1>1, ValuesAre DEF Serial!Init, LedgerTyped, WellTyped
<1>3. \A o, fn : Done(o, fn) = {}
  BY <1>1 DEF Done
<1>4. /\ NN!Nonce \in LedgerKeys /\ BA!ConfigKey \in LedgerKeys
      /\ \A i \in NA!Fields : NA!Setting(i) \in LedgerKeys
      /\ \A a \in Accounts : PB!Balance(a) \in LedgerKeys
  BY KeysAre DEF Contracts
<1>5. NonceInv
  <2>1. Handed = {} /\ Cardinality({}) = 0
    BY <1>3, FS_EmptySet DEF Handed
  <2> QED BY <1>1, <1>4, <2>1 DEF NonceInv, NoncesGloballyUnique, LastNonce
<1>6. ConfigInv
  BY <1>1, <1>3, <1>4 DEF ConfigInv, ReadersSeeWholeConfigs
<1>7. NoTornConfig
  BY <1>1, <1>3, <1>4 DEF NoTornConfig
<1>8. BalanceInv
  <2>1. \A fn : Moved(fn) = {}
    BY <1>3 DEF Moved
  <2>2. \A a \in Accounts : PB!read(a, store) = 0
    BY <1>1, <1>4 DEF PB!read, PB!UnwrapOr
  <2>3. AmountOf({}) = 0
    BY NetSumEmpty DEF AmountOf
  <2>4. BalancesMatchReceipts
    <3> SUFFICES ASSUME NEW a \in Accounts
                 PROVE  PB!read(a, store) = AmountOf(DepositsTo(a)) + AmountOf(TransfersTo(a))
                                              - AmountOf(TransfersFrom(a))
      BY DEF BalancesMatchReceipts, DepositsTo, TransfersTo, TransfersFrom
    <3>1. DepositsTo(a) = {} /\ TransfersTo(a) = {} /\ TransfersFrom(a) = {}
      BY <2>1 DEF DepositsTo, TransfersTo, TransfersFrom
    <3> QED BY <2>2, <2>3, <3>1
  <2> QED BY <2>2, <2>4 DEF BalanceInv, NoOverdraft
<1> QED BY <1>2, <1>5, <1>6, <1>7, <1>8 DEF DepInv

LEMMA NextDepInv == DepInv /\ [Serial!Next]_(Serial!vars) => DepInv'
<1> SUFFICES ASSUME DepInv, [Serial!Next]_(Serial!vars) PROVE DepInv'
  OBVIOUS
<1>1. ASSUME NEW t \in Txs, NEW c \in LedgerCalls, Serial!Execute(t, c) PROVE DepInv'
  <2>1. LedgerTyped'
    BY <1>1, StepEffect DEF DepInv
  <2>2. NonceInv'
    BY <1>1, NonceStep DEF DepInv
  <2>3. ConfigInv'
    BY <1>1, ConfigStep DEF DepInv
  <2>4. NoTornConfig'
    BY <1>1, AdminStep DEF DepInv
  <2>5. BalanceInv'
    BY <1>1, BalanceStep DEF DepInv
  <2> QED BY <2>1, <2>2, <2>3, <2>4, <2>5 DEF DepInv
<1>2. CASE UNCHANGED Serial!vars
  <2>1. store' = store /\ receipt' = receipt
    BY <1>2 DEF Serial!vars
  <2>2. \A o, fn : Done(o, fn)' = Done(o, fn)
    BY <2>1 DEF Done
  <2>3. LedgerTyped'
    BY <2>1 DEF DepInv, LedgerTyped, WellTyped
  <2>4. NonceInv'
    BY <2>1, <2>2 DEF DepInv, NonceInv, NoncesGloballyUnique, Handed, LastNonce
  <2>5. ConfigInv'
    BY <2>1, <2>2 DEF DepInv, ConfigInv, ReadersSeeWholeConfigs, Configs
  <2>6. NoTornConfig'
    BY <2>1, <2>2 DEF DepInv, NoTornConfig, ValuesOf
  <2>7. BalanceInv'
    BY <2>1, <2>2 DEF DepInv, BalanceInv, BalancesMatchReceipts, NoOverdraft, Moved, AmountOf,
         PB!read, PB!UnwrapOr
  <2> QED BY <2>3, <2>4, <2>5, <2>6, <2>7 DEF DepInv
<1> QED BY <1>1, <1>2 DEF Serial!Next

------------------------------------------------------------------------------
\* The module's ledger is the one StagedLedgerProofs is about.
LEMMA SameLedger == Spec => P!Spec
<1>1. Init => P!Init
  BY DEF Init, P!Init, EmptyStore, P!EmptyStore, NoKeys, P!NoKeys
<1>2. [Next]_vars => [P!Next]_P!vars
  BY Zenon DEF vars, P!vars, Next, P!Next, Submit, P!Submit, Resubmit, P!Resubmit,
     OpenStage, P!OpenStage, Load, P!Load, Commit, P!Commit, Reject, P!Reject,
     InStage, P!InStage, Conflict, P!Conflict, Touched, P!Touched, Visible, P!Visible,
     Covers, P!Covers, WriteBack, P!WriteBack, ReceiptOf, P!ReceiptOf,
     EmptyStore, P!EmptyStore, NoKeys, P!NoKeys
<1> QED BY <1>1, <1>2, PTL DEF Spec, P!Spec

\* ... and so is the serial ledger it implements.
LEMMA SameSerial == P!SerialSpec => SerialSpec
<1>1. P!Serial!Init => Serial!Init
  BY DEF Serial!Init, P!Serial!Init
<1>2. [P!Serial!Next]_(P!Serial!vars) => [Serial!Next]_(Serial!vars)
  BY Zenon DEF Serial!vars, P!Serial!vars, Serial!Next, P!Serial!Next,
     Serial!Execute, P!Serial!Execute, Serial!ReceiptOf, P!Serial!ReceiptOf
<1> QED BY <1>1, <1>2, PTL DEF SerialSpec, P!SerialSpec, Serial!Spec, P!Serial!Spec

\* Staged or serial, four contracts in the same stages: the receipts and the
\* entries are the same.
THEOREM DeploymentIsSerial == Spec => SerialSpec
BY FootprintsSound, SameLedger, SameSerial, P!StagedIsSerial

\* The invariant of every staged run of the deployment.
THEOREM Invariant == Spec => []DepInv
BY DeploymentIsSerial, InitDepInv, NextDepInv, PTL DEF SerialSpec, Serial!Spec

\* The naive nonce: no two callers are handed the same, and none is skipped.
THEOREM NoncesUnique == Spec => []NoncesGloballyUnique
<1>1. DepInv => NoncesGloballyUnique
  BY DEF DepInv, NonceInv
<1> QED BY <1>1, Invariant, PTL

\* Settings written one by one still are some call's settings.
THEOREM ConfigsNotTorn == Spec => []NoTornConfig
<1>1. DepInv => NoTornConfig
  BY DEF DepInv
<1> QED BY <1>1, Invariant, PTL

\* Readers of the batched configuration are told of one that was set.
THEOREM ConfigsReadWhole == Spec => []ReadersSeeWholeConfigs
<1>1. DepInv => ReadersSeeWholeConfigs
  BY DEF DepInv, ConfigInv
<1> QED BY <1>1, Invariant, PTL

\* Every account holds exactly what the calls reported as "ok" moved.
THEOREM BalancesMatch == Spec => []BalancesMatchReceipts
<1>1. DepInv => BalancesMatchReceipts
  BY DEF DepInv, BalanceInv
<1> QED BY <1>1, Invariant, PTL

\* Spending does not overdraw an account.
THEOREM NothingOverdrawn == Spec => []NoOverdraft
<1>1. DepInv => NoOverdraft
  BY DEF DepInv, BalanceInv
<1> QED BY <1>1, Invariant, PTL

------------------------------------------------------------------------------
\* One map of balances, put together from the entries.
Held(st)  == [a \in Accounts |-> st[PB!Balance(a)]]
MapOf(st) == [k \in {<<"Balances">>} |->
                IF \A a \in Accounts : st[PB!Balance(a)] = Absent THEN Absent ELSE Held(st)]

LEMMA SameCalls == PB!Naive!Calls = PB!Calls
BY DEF PB!Naive!Calls, PB!Calls

\* The naive contract reads the same balances from it.
LEMMA NaiveLoads ==
  ASSUME NEW st, Held(st) # Absent
  PROVE  PB!Naive!load(MapOf(st)) = Held(st)
<1>1. MapOf(st)[PB!Naive!Balances] =
        IF \A a \in Accounts : st[PB!Balance(a)] = Absent THEN Absent ELSE Held(st)
  BY DEF MapOf, PB!Naive!Balances
<1>2. CASE \A a \in Accounts : st[PB!Balance(a)] = Absent
  <2>1. Held(st) = [a \in Accounts |-> Absent]
    BY <1>2 DEF Held
  <2> QED BY <1>1, <1>2, <2>1 DEF PB!Naive!load, PB!Naive!UnwrapOr
<1>3. CASE ~ \A a \in Accounts : st[PB!Balance(a)] = Absent
  BY <1>1, <1>3 DEF PB!Naive!load, PB!Naive!UnwrapOr
<1> QED BY <1>2, <1>3

\* A map it stores is the map of the entries, once one of them is there.
LEMMA NaiveStores ==
  ASSUME NEW st, NEW new, NEW a \in Accounts, new[PB!Balance(a)] # Absent
  PROVE  PB!Naive!Put(MapOf(st), PB!Naive!Balances, Held(new)) = MapOf(new)
<1>1. MapOf(new) = [k \in {<<"Balances">>} |-> Held(new)]
  BY DEF MapOf
<1>2. DOMAIN MapOf(st) = {<<"Balances">>}
  BY DEF MapOf
<1> QED BY <1>1, <1>2 DEF PB!Naive!Put, PB!Naive!Balances, MapOf

\* Entry by entry or in one map, a call comes to the same.
LEMMA MapRuns ==
  ASSUME NEW c \in PB!Calls, NEW own, OwnTyped("PerUserBalance", own)
  PROVE  LET out == InvokeOf("PerUserBalance", c, own)
             one == PB!Naive!Invoke(c, MapOf(own))
         IN  /\ one.status = out.status /\ one.value = out.value
             /\ one.store = MapOf(out.store)
<1> DEFINE out == InvokeOf("PerUserBalance", c, own)
           one == PB!Naive!Invoke(c, MapOf(own))
           bal == Held(own)
<1>1. PB!Naive!load(MapOf(own)) = bal
  <2>1. /\ "PerUserBalance" \in Contracts
        /\ \A a \in Accounts : PB!Balance(a) \in KeysOf("PerUserBalance")
        /\ \A a : LedgerValues(PB!Balance(a)) = PB!I128 \cup {Absent}
    BY KeysAre, ValuesAre DEF Contracts
  <2>2. Held(own) \in PB!Naive!Maps
    BY <2>1 DEF Held, OwnTyped, PB!Naive!Maps, PB!Naive!I128, PB!I128
  <2> QED BY <2>2, AbsentIsNothing, NaiveLoads
<1>2. \A a \in Accounts : /\ PB!Naive!UnwrapOr(bal, a, 0) = PB!read(a, own)
                          /\ bal[a] = own[PB!Balance(a)]
  BY DEF Held, PB!Naive!UnwrapOr, PB!read, PB!UnwrapOr
<1>3. DOMAIN bal = Accounts
  BY DEF Held
<1>4. \A n \in PB!I128 : n \in Int /\ n # Absent
  BY DeploymentAssumption DEF PB!I128
<1>5. PB!Naive!I128 = PB!I128
  BY DEF PB!Naive!I128, PB!I128
<1> HIDE DEF bal
<1>6. CASE c.fn = "deposit"
  <2> DEFINE new == PB!read(c.to, own) + c.amount
             put == PB!Naive!Put(bal, c.to, new)
  <2>1. /\ c.to \in Accounts
        /\ new \in PB!I128 =>
             /\ out.status = "ok" /\ out.value = new
             /\ \A a \in Accounts : out.store[PB!Balance(a)] =
                  IF a = c.to THEN new ELSE own[PB!Balance(a)]
        /\ new \notin PB!I128 => out.status = "trap" /\ out.value = Absent /\ out.store = own
    BY <1>6, BalanceRuns
  <2>2. one = IF new \in PB!I128
              THEN [status |-> "ok", value |-> new,
                    store |-> PB!Naive!Put(MapOf(own), PB!Naive!Balances, put)]
              ELSE [status |-> "trap", value |-> Absent, store |-> MapOf(own)]
    BY <1>1, <1>2, <1>5, <1>6, <2>1
       DEF PB!Naive!Invoke, PB!Naive!deposit, PB!Naive!Require, PB!Naive!Ok, PB!Naive!Trap
  <2> HIDE DEF out, one, new, put
  <2>3. CASE new \in PB!I128
    <3>1. put = Held(out.store)
      <4>1. put = [a \in Accounts |-> IF a = c.to THEN new ELSE bal[a]]
        BY DEF put, PB!Naive!Put, bal, Held
      <4>2. \A a \in Accounts :
              out.store[PB!Balance(a)] = IF a = c.to THEN new ELSE bal[a]
        BY <1>2, <2>1, <2>3
      <4> QED BY <4>1, <4>2 DEF Held
    <3>2. out.store[PB!Balance(c.to)] # Absent
      BY <1>4, <2>1, <2>3
    <3>3. PB!Naive!Put(MapOf(own), PB!Naive!Balances, put) = MapOf(out.store)
      BY <2>1, <3>1, <3>2, NaiveStores
    <3> QED BY <2>1, <2>2, <2>3, <3>3 DEF out, one
  <2>4. CASE new \notin PB!I128
    BY <2>1, <2>2, <2>4 DEF out, one
  <2> QED BY <2>3, <2>4
<1>7. CASE c.fn = "transfer"
  <2> DEFINE mid == PB!Naive!Put(bal, c.from, Left(c, own))
             put == PB!Naive!Put(mid, c.to, Got(c, own))
  <2>1. /\ c.from \in Accounts /\ c.to \in Accounts /\ c.amount \in Int
        /\ PB!read(c.from, own) \in PB!I128
        /\ GoesThrough(c, own) =>
             /\ out.status = "ok" /\ out.value = Absent
             /\ \A a \in Accounts : out.store[PB!Balance(a)] =
                  IF a = c.to THEN Got(c, own)
                  ELSE IF a = c.from THEN Left(c, own) ELSE own[PB!Balance(a)]
        /\ ~GoesThrough(c, own) =>
             out.status = "trap" /\ out.value = Absent /\ out.store = own
    BY <1>7, BalanceRuns
  <2>2. Left(c, own) # Absent
    <3>1. Left(c, own) \in Int
      <4>1. PB!read(c.from, own) \in Int
        BY <1>4, <2>1
      <4> QED BY <2>1, <4>1 DEF Left
    <3> QED BY <3>1, DeploymentAssumption
  <2>3. PB!Naive!UnwrapOr(mid, c.to, 0) + c.amount = Got(c, own)
    <3>1. mid[c.to] = IF c.to = c.from THEN Left(c, own) ELSE bal[c.to]
      BY <1>3, <2>1 DEF PB!Naive!Put
    <3> HIDE DEF mid
    <3>2. PB!Naive!UnwrapOr(mid, c.to, 0) =
            IF c.from = c.to THEN Left(c, own) ELSE PB!read(c.to, own)
      BY <1>2, <2>1, <2>2, <3>1 DEF PB!Naive!UnwrapOr
    <3> QED BY <3>2 DEF Got
  <2>4. one = IF GoesThrough(c, own)
              THEN [status |-> "ok", value |-> Absent,
                    store |-> PB!Naive!Put(MapOf(own), PB!Naive!Balances, put)]
              ELSE [status |-> "trap", value |-> Absent, store |-> MapOf(own)]
    <3>1. PB!Naive!UnwrapOr(bal, c.from, 0) = PB!read(c.from, own)
      BY <1>2, <2>1
    <3>2. mid = PB!Naive!Put(bal, c.from, PB!read(c.from, own) - c.amount)
      BY DEF Left
    <3> HIDE DEF mid
    <3> QED BY <1>1, <1>5, <1>7, <2>3, <3>1, <3>2
            DEF PB!Naive!Invoke, PB!Naive!transfer, PB!Naive!Require, PB!Naive!Ok,
                PB!Naive!Trap, GoesThrough, Left
  <2> HIDE DEF out, one
  <2>5. CASE GoesThrough(c, own)
    <3>1. put = Held(out.store)
      <4>1. \A a \in Accounts : mid[a] = IF a = c.from THEN Left(c, own) ELSE bal[a]
        BY <1>3, <2>1 DEF PB!Naive!Put
      <4>2. DOMAIN mid = Accounts
        BY <1>3 DEF PB!Naive!Put
      <4> HIDE DEF mid
      <4>3. \A a \in Accounts : put[a] = IF a = c.to THEN Got(c, own) ELSE mid[a]
        BY <2>1, <4>2 DEF PB!Naive!Put
      <4>4. put = [a \in Accounts |-> put[a]]
        BY <4>2 DEF PB!Naive!Put
      <4> HIDE DEF put
      <4> QED BY <1>2, <2>1, <2>5, <4>1, <4>3, <4>4 DEF Held
    <3> HIDE DEF mid, put
    <3>2. Got(c, own) # Absent
      BY <1>4, <2>5 DEF GoesThrough
    <3>3. out.store[PB!Balance(c.to)] # Absent
      BY <2>1, <2>5, <3>2
    <3>4. PB!Naive!Put(MapOf(own), PB!Naive!Balances, put) = MapOf(out.store)
      BY <2>1, <3>1, <3>3, NaiveStores
    <3> QED BY <2>1, <2>4, <2>5, <3>4 DEF out, one
  <2>6. CASE ~GoesThrough(c, own)
    BY <2>1, <2>4, <2>6 DEF out, one
  <2> QED BY <2>5, <2>6
<1>8. CASE c.fn \notin {"deposit", "transfer"}
  <2>1. /\ c.fn = "balance" /\ c.who \in Accounts
        /\ out.status = "ok" /\ out.value = PB!read(c.who, own) /\ out.store = own
    BY <1>8, BalanceRuns
  <2>2. one = [status |-> "ok", value |-> PB!read(c.who, own), store |-> MapOf(own)]
    BY <1>1, <1>2, <2>1 DEF PB!Naive!Invoke, PB!Naive!balance, PB!Naive!Ok
  <2> HIDE DEF one, out
  <2> QED BY <2>1, <2>2 DEF one, out
<1> QED BY <1>6, <1>7, <1>8

\* The receipts that are the balance contract's.
MapReceipts(r) ==
  [t \in Txs |-> IF r[t] # Absent /\ r[t].call.contract = "PerUserBalance"
                 THEN [r[t] EXCEPT !.call = @.inner] ELSE Absent]

LEMMA MapOfOwn ==
  \A st : MapOf(Own("PerUserBalance", st)) = MapOf(st)
<1> SUFFICES ASSUME NEW st PROVE MapOf(Own("PerUserBalance", st)) = MapOf(st)
  OBVIOUS
<1>1. \A a \in Accounts : Own("PerUserBalance", st)[PB!Balance(a)] = st[PB!Balance(a)]
  BY KeysAre DEF Own, Contracts
<1> QED BY <1>1 DEF MapOf, Held

\* A step of the deployment is a call on the one map, or does not show there.
LEMMA MapStep ==
  ASSUME LedgerTyped, NEW t \in Txs, NEW c \in LedgerCalls, Serial!Execute(t, c)
  PROVE  UNCHANGED OneMap!vars \/ OneMap!Next
<1> DEFINE o   == "PerUserBalance"
           i   == c.inner
           own == Own(c.contract, store)
           out == InvokeOf(c.contract, i, own)
<1>1. /\ c.contract \in Contracts /\ i \in CallsOf(c.contract)
      /\ OwnTyped(c.contract, own)
      /\ \A k \in KeysOf(c.contract) : store'[k] = out.store[k]
      /\ \A k \in LedgerKeys \ KeysOf(c.contract) : store'[k] = store[k]
      /\ receipt[t] = Absent /\ receipt'[t] # Absent /\ receipt'[t].call = c
      /\ \A u \in Txs \ {t} : receipt'[u] = receipt[u]
  BY StepEffect
<1>2. receipt'[t] = [call |-> c, status |-> out.status, value |-> out.value]
  <2>1. receipt \in [Txs -> Receipts \cup {Absent}]
    BY DEF LedgerTyped
  <2>2. receipt'[t] = Serial!ReceiptOf(c, Run(c, store))
    BY <2>1 DEF Serial!Execute
  <2> QED BY <2>2 DEF Serial!ReceiptOf, Run
<1>3. \A a \in Accounts : PB!Balance(a) \in LedgerKeys /\ PB!Balance(a) \in KeysOf(o)
  BY KeysAre DEF Contracts
<1> HIDE DEF out
<1>4. CASE c.contract = o
  <2> DEFINE one == PB!Naive!Invoke(i, MapOf(store))
             told == [call |-> i, status |-> one.status, value |-> one.value]
  <2>1. i \in PB!Calls /\ OwnTyped(o, own) /\ own = Own(o, store)
        /\ out = InvokeOf(o, i, own)
    BY <1>1, <1>4 DEF CallsOf, out
  <2>2. one.status = out.status /\ one.value = out.value /\ one.store = MapOf(out.store)
    <3>1. MapOf(own) = MapOf(store)
      BY <2>1, MapOfOwn
    <3> HIDE DEF own
    <3> QED BY <2>1, <3>1, MapRuns
  <2>3. MapOf(store') = one.store
    <3>1. \A a \in Accounts : store'[PB!Balance(a)] = out.store[PB!Balance(a)]
      BY <1>1, <1>3, <1>4
    <3>2. MapOf(store') = MapOf(out.store)
      BY <3>1 DEF MapOf, Held
    <3> QED BY <2>2, <3>2
  <2> HIDE DEF one
  <2>4. MapReceipts(receipt)[t] = Absent
    BY <1>1 DEF MapReceipts
  <2>5. MapReceipts(receipt') = [MapReceipts(receipt) EXCEPT ![t] = told]
    <3>1. [receipt'[t] EXCEPT !.call = @.inner] = told
      BY <1>2, <2>2
    <3>2. MapReceipts(receipt')[t] = told
      BY <1>1, <1>4, <3>1 DEF MapReceipts
    <3>3. \A u \in Txs \ {t} : MapReceipts(receipt')[u] = MapReceipts(receipt)[u]
      BY <1>1 DEF MapReceipts
    <3>4. /\ MapReceipts(receipt') = [u \in Txs |-> MapReceipts(receipt')[u]]
          /\ MapReceipts(receipt) = [u \in Txs |-> MapReceipts(receipt)[u]]
      BY DEF MapReceipts
    <3> QED BY <3>2, <3>3, <3>4
  <2>6. OneMap!Execute(t, i)
    <3>1. /\ PB!BalanceMap = MapOf(store) /\ PB!BalanceMap' = MapOf(store')
          /\ ReceiptsOf(o) = MapReceipts(receipt) /\ ReceiptsOf(o)' = MapReceipts(receipt')
      BY DEF PB!BalanceMap, MapOf, Held, PB!Keys, ReceiptsOf, MapReceipts
    <3> QED BY <2>3, <2>4, <2>5, <3>1 DEF OneMap!Execute, OneMap!ReceiptOf, one
  <2> QED BY <2>1, <2>6, SameCalls DEF OneMap!Next
<1>5. CASE c.contract # o
  <2>1. \A a \in Accounts : store'[PB!Balance(a)] = store[PB!Balance(a)]
    <3>1. \A a \in Accounts : PB!Balance(a) \notin KeysOf(c.contract)
      BY <1>1, <1>5, KeysAre, KeysDiffer DEF Contracts
    <3> QED BY <1>1, <1>3, <3>1
  <2>2. PB!BalanceMap' = PB!BalanceMap
    BY <2>1 DEF PB!BalanceMap, PB!Keys
  <2>3. ReceiptsOf(o)' = ReceiptsOf(o)
    BY <1>1, <1>5 DEF ReceiptsOf
  <2> QED BY <2>2, <2>3 DEF OneMap!vars
<1> QED BY <1>4, <1>5

LEMMA InitIsOneMap == Serial!Init => OneMap!Init
<1> SUFFICES ASSUME Serial!Init PROVE OneMap!Init
  OBVIOUS
<1>1. \A k \in PB!Keys : k \in LedgerKeys
  BY KeysAre DEF PB!Keys, Contracts
<1>2. \A k \in PB!Keys : store[k] = Absent
  BY <1>1 DEF Serial!Init
<1>3. \A t \in Txs : receipt[t] = Absent
  BY DEF Serial!Init
<1> QED BY <1>2, <1>3 DEF OneMap!Init, PB!BalanceMap, ReceiptsOf, PB!Naive!Keys, PB!Naive!Balances

LEMMA StepIsOneMap ==
  DepInv /\ [Serial!Next]_(Serial!vars)
    => [UNCHANGED OneMap!vars \/ OneMap!Next]_<<store, receipt>>
<1> SUFFICES ASSUME DepInv, Serial!Next PROVE UNCHANGED OneMap!vars \/ OneMap!Next
  BY DEF Serial!vars
<1> QED BY MapStep DEF DepInv, Serial!Next

\* Balances in separate entries, written by transactions side by side, are
\* the naive contract's one map, and its users are told the same.
THEOREM EntriesAreOneMap == Spec => ActsAsOneMap
BY DeploymentIsSerial, Invariant, InitIsOneMap, StepIsOneMap, PTL
   DEF SerialSpec, Serial!Spec, ActsAsOneMap

\* None of the four contracts' calls is ever stopped for a footprint out of
\* date, whichever others run in its stage.
THEOREM NobodyTurnedDown == Spec => []P!NoneRejected
<1>1. P!FixedFootprints
  BY DEF P!FixedFootprints, FootprintOf, NA!Footprint, BA!Footprint, NN!Footprint, PB!Footprint
<1> QED BY <1>1, FootprintsSound, SameLedger, P!NobodyTurnedDown
==============================================================================
