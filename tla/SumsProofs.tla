------------------------------ MODULE SumsProofs -----------------------------
(***************************************************************************)
(* What SumOver is: a natural number, zero when every term is, and one     *)
(* that moves with each of its terms; and NetSum with it.                  *)
(***************************************************************************)
EXTENDS Sums, FiniteSetTheorems, TLAPS

\* The pairs of one element x: as many as its term says.
LEMMA ColumnSize ==
  ASSUME NEW x, NEW n \in Nat
  PROVE  IsFiniteSet({x} \X (1..n)) /\ Cardinality({x} \X (1..n)) = n
<1>1. IsFiniteSet({x}) /\ Cardinality({x}) = 1
  BY FS_Singleton
<1>2. IsFiniteSet(1..n) /\ Cardinality(1..n) = n
  BY FS_Interval
<1>3. /\ IsFiniteSet({x} \X (1..n))
      /\ Cardinality({x} \X (1..n)) = Cardinality({x}) * Cardinality(1..n)
  BY <1>1, <1>2, FS_Product, Zenon
<1>4. 1 * n = n
  OBVIOUS
<1> QED BY <1>1, <1>2, <1>3, <1>4

\* There are finitely many pairs, so a sum is a natural number.
LEMMA SumOverType ==
  ASSUME NEW S, IsFiniteSet(S), NEW f \in [S -> Nat], NEW T \in SUBSET S
  PROVE  IsFiniteSet(Tally(f, T)) /\ SumOver(f, T) \in Nat
<1> DEFINE Columns == {{x} \X (1..f[x]) : x \in T}
           column  == [x \in T |-> {x} \X (1..f[x])]
<1>1. IsFiniteSet(T)
  BY FS_Subset
<1>2. column \in Surjection(T, Columns)
  BY DEF Surjection
<1>3. IsFiniteSet(Columns)
  BY <1>1, <1>2, FS_Surjection
<1>4. \A C \in Columns : IsFiniteSet(C)
  <2> SUFFICES ASSUME NEW x \in T PROVE IsFiniteSet({x} \X (1..f[x]))
    OBVIOUS
  <2>1. f[x] \in Nat
    OBVIOUS
  <2> QED BY <2>1, ColumnSize, Zenon
<1>5. IsFiniteSet(Tally(f, T))
  BY <1>3, <1>4, FS_UNION DEF Tally
<1> QED BY <1>5, FS_CardinalityType DEF SumOver

\* One term taken out of a sum.
LEMMA SumOverSplit ==
  ASSUME NEW S, IsFiniteSet(S), NEW f \in [S -> Nat], NEW a \in S
  PROVE  SumOver(f, S) = SumOver(f, S \ {a}) + f[a]
<1> DEFINE rest == Tally(f, S \ {a})
           col  == {a} \X (1..f[a])
<1>1. Tally(f, S) = rest \cup col
  BY DEF Tally
<1>2. rest \cap col = {}
  <2>1. \A p \in rest : p[1] # a
    BY DEF Tally
  <2>2. \A p \in col : p[1] = a
    OBVIOUS
  <2> QED BY <2>1, <2>2
<1>3. IsFiniteSet(rest) /\ Cardinality(rest) \in Nat
  <2>1. S \ {a} \in SUBSET S
    OBVIOUS
  <2> QED BY <2>1, SumOverType DEF SumOver
<1>4. IsFiniteSet(col) /\ Cardinality(col) = f[a]
  <2>1. f[a] \in Nat
    OBVIOUS
  <2> QED BY <2>1, ColumnSize, Zenon
<1> HIDE DEF rest, col
<1>5. Cardinality(rest \cup col) =
        Cardinality(rest) + Cardinality(col) - Cardinality(rest \cap col)
  BY <1>3, <1>4, FS_Union, Zenon
<1>6. Cardinality(rest \cup col) = Cardinality(rest) + f[a]
  <2>1. Cardinality(rest \cap col) = 0
    BY <1>2, FS_EmptySet, Zenon
  <2>2. f[a] \in Nat
    OBVIOUS
  <2> QED BY <1>3, <1>4, <1>5, <2>1, <2>2
<1>7. SumOver(f, S) = Cardinality(rest) + f[a]
  BY <1>1, <1>6 DEF SumOver
<1> QED BY <1>7 DEF SumOver, rest

\* Changing one term changes the sum by as much.
LEMMA SumOverUpdate ==
  ASSUME NEW S, IsFiniteSet(S), NEW f \in [S -> Nat], NEW g \in [S -> Nat], NEW a \in S,
         \A x \in S \ {a} : g[x] = f[x]
  PROVE  /\ SumOver(f, S) \in Nat /\ SumOver(g, S) \in Nat
         /\ SumOver(g, S) + f[a] = SumOver(f, S) + g[a]
<1>1. Tally(g, S \ {a}) = Tally(f, S \ {a})
  BY DEF Tally
<1>2. SumOver(g, S \ {a}) = SumOver(f, S \ {a})
  BY <1>1 DEF SumOver
<1>3. S \ {a} \in SUBSET S /\ S \in SUBSET S
  OBVIOUS
<1>4. SumOver(f, S \ {a}) \in Nat /\ SumOver(f, S) \in Nat /\ SumOver(g, S) \in Nat
  BY <1>3, SumOverType
<1>5. f[a] \in Nat /\ g[a] \in Nat
  OBVIOUS
<1> QED BY <1>2, <1>4, <1>5, SumOverSplit

\* Terms bounded by m, a sum bounded by m times their number.
LEMMA SumOverBound ==
  ASSUME NEW S, IsFiniteSet(S), NEW m \in Nat, NEW f \in [S -> 0..m]
  PROVE  SumOver(f, S) <= m * Cardinality(S)
<1>1. IsFiniteSet(1..m) /\ Cardinality(1..m) = m
  BY FS_Interval
<1>2. /\ IsFiniteSet(S \X (1..m))
      /\ Cardinality(S \X (1..m)) = Cardinality(S) * Cardinality(1..m)
  BY <1>1, FS_Product, Zenon
<1>3. Tally(f, S) \in SUBSET (S \X (1..m))
  BY DEF Tally
<1>4. Cardinality(Tally(f, S)) <= Cardinality(S \X (1..m))
  BY <1>2, <1>3, FS_Subset, Zenon
<1>5. Cardinality(S) \in Nat
  BY FS_CardinalityType
<1>6. Cardinality(S) * m = m * Cardinality(S)
  BY <1>5
<1> QED BY <1>1, <1>2, <1>4, <1>6 DEF SumOver

\* Nothing adds up to nothing.
LEMMA SumOverZero ==
  ASSUME NEW S, NEW f, \A x \in S : f[x] = 0
  PROVE  SumOver(f, S) = 0
<1>1. Tally(f, S) = {}
  BY DEF Tally
<1> QED BY <1>1, FS_EmptySet DEF SumOver

\* A sum of integers is one.
LEMMA NetSumType ==
  ASSUME NEW S, IsFiniteSet(S), NEW f, \A x \in S : f[x] \in Int
  PROVE  NetSum(f, S) \in Int
<1> DEFINE fp == [x \in S |-> IF f[x] > 0 THEN f[x] ELSE 0]
           fn == [x \in S |-> IF f[x] < 0 THEN -f[x] ELSE 0]
<1>1. fp \in [S -> Nat] /\ fn \in [S -> Nat] /\ S \in SUBSET S
  OBVIOUS
<1> HIDE DEF fp, fn
<1>2. SumOver(fp, S) \in Nat /\ SumOver(fn, S) \in Nat
  BY <1>1, SumOverType
<1>3. SumOver(fp, S) - SumOver(fn, S) \in Int
  BY <1>2
<1> QED BY <1>3 DEF NetSum, fp, fn

\* g has over T the terms f has over S, and maybe one for a.
OneMoreTerm(f, S, g, T, a) ==
  /\ IsFiniteSet(S) /\ \A x \in S : f[x] \in Int
  /\ a \notin S /\ \A x \in S : g[x] = f[x]
  /\ T \in {S, S \cup {a}} /\ (a \in T => g[a] \in Int)

\* It depends on its terms only, and grows by each term that joins.
LEMMA NetSumStep ==
  ASSUME NEW S, NEW f, NEW a, NEW g, NEW T, OneMoreTerm(f, S, g, T, a)
  PROVE  NetSum(g, T) = NetSum(f, S) + (IF a \in T THEN g[a] ELSE 0)
<1> USE DEF OneMoreTerm
<1> DEFINE fp == [x \in S |-> IF f[x] > 0 THEN f[x] ELSE 0]
           fn == [x \in S |-> IF f[x] < 0 THEN -f[x] ELSE 0]
           gp == [x \in T |-> IF g[x] > 0 THEN g[x] ELSE 0]
           gn == [x \in T |-> IF g[x] < 0 THEN -g[x] ELSE 0]
<1>1. CASE T = S
  <2>1. NetSum(g, T) = NetSum(f, S)
    <3>1. gp = fp /\ gn = fn
      BY <1>1
    <3> QED BY <1>1, <3>1 DEF NetSum
  <2> QED BY <1>1, <2>1, NetSumType
<1>2. CASE T = S \cup {a}
  <2>1. /\ IsFiniteSet(T) /\ a \in T /\ T \ {a} = S /\ S \in SUBSET T /\ S \in SUBSET S
        /\ g[a] \in Int
    BY <1>2, FS_AddElement
  <2>2. fp \in [S -> Nat] /\ fn \in [S -> Nat]
    OBVIOUS
  <2>3. gp \in [T -> Nat] /\ gn \in [T -> Nat]
    <3>1. \A x \in T : g[x] \in Int
      BY <1>2, <2>1
    <3> QED BY <3>1
  <2>4. \A x \in S : gp[x] = fp[x] /\ gn[x] = fn[x]
    BY <2>1
  <2>5. gp[a] - gn[a] = g[a] /\ gp[a] \in Nat /\ gn[a] \in Nat
    BY <2>1
  <2> HIDE DEF fp, fn, gp, gn
  <2>6. SumOver(gp, S) = SumOver(fp, S) /\ SumOver(gn, S) = SumOver(fn, S)
    BY <2>4 DEF SumOver, Tally
  <2>7. SumOver(fp, S) \in Nat /\ SumOver(fn, S) \in Nat
    BY <2>1, <2>2, SumOverType
  <2>8. /\ SumOver(gp, T) = SumOver(gp, T \ {a}) + gp[a]
        /\ SumOver(gn, T) = SumOver(gn, T \ {a}) + gn[a]
    BY <2>1, <2>3, SumOverSplit
  <2>9. /\ SumOver(gp, T) = SumOver(fp, S) + gp[a]
        /\ SumOver(gn, T) = SumOver(fn, S) + gn[a]
    BY <2>1, <2>6, <2>8
  <2>10. \A i, j, m, n \in Nat : (i + m) - (j + n) = (i - j) + (m - n)
    OBVIOUS
  <2>11. SumOver(gp, T) - SumOver(gn, T) = (SumOver(fp, S) - SumOver(fn, S)) + g[a]
    BY <2>5, <2>7, <2>9, <2>10
  <2> QED BY <2>1, <2>11 DEF NetSum, fp, fn, gp, gn
<1> QED BY <1>1, <1>2

LEMMA NetSumEmpty == \A f : NetSum(f, {}) = 0
<1> SUFFICES ASSUME NEW f PROVE NetSum(f, {}) = 0
  OBVIOUS
<1>1. \A g : SumOver(g, {}) = 0
  BY SumOverZero
<1> QED BY <1>1 DEF NetSum
==============================================================================
