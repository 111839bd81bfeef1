----------------------------- MODULE HarnessProofs ---------------------------
(***************************************************************************)
(* The harness, for every directory, every number of patterns and commits, *)
(* every report of the analyzer and every way an analysis, a write or a    *)
(* process can end: what it measures is what it writes, and where.         *)
(***************************************************************************)
EXTENDS Harness, SumsProofs, SequenceTheorems, WellFoundedInduction

\* The checkout starts at the first commit there is.
LEMMA FirstCommit == Min(Commits) \in Commits
<1>1. \A c, m \in Nat : <<c, m>> \in OpToRel(<, Nat) <=> c < m
  BY DEF OpToRel
<1>2. PICK m \in Commits : \A c \in Commits : ~(<<c, m>> \in OpToRel(<, Nat))
  <2>1. Commits \subseteq Nat /\ Commits # {}
    BY HarnessAssumption
  <2> QED BY ONLY <2>1, NatLessThanWellFounded, WFMin
<1>3. \A c \in Commits : m <= c
  <2>1. \A c \in Commits : c \in Nat /\ m \in Nat
    BY HarnessAssumption
  <2>2. \A c \in Commits : ~(c < m)
    BY <1>1, <1>2, <2>1
  <2> QED BY <2>1, <2>2
<1> QED BY <1>3 DEF Min

\* The places of a set's elements are 1, 2, ... up to their number.
LEMMA PlacesTaken ==
  ASSUME NEW S \in SUBSET Nat, IsFiniteSet(S)
  PROVE  \A i \in 1..Cardinality(S) : \E e \in S : Place(e, S) = i
<1> DEFINE Upto(e) == {d \in S : d <= e}
           f == [e \in S |-> Cardinality(Upto(e))]
           n == Cardinality(S)
<1>1. n \in Nat /\ IsFiniteSet(1..n) /\ Cardinality(1..n) = n
  <2>1. n \in Nat
    BY FS_CardinalityType
  <2> QED BY <2>1, FS_Interval
<1>2. ASSUME NEW e \in S PROVE IsFiniteSet(Upto(e)) /\ Cardinality(Upto(e)) \in 1..n
  <2>1. IsFiniteSet(Upto(e)) /\ Cardinality(Upto(e)) <= n
    BY FS_Subset
  <2>2. Upto(e) # {}
    OBVIOUS
  <2>3. Cardinality(Upto(e)) \in Nat /\ Cardinality(Upto(e)) # 0
    BY <2>1, <2>2, FS_CardinalityType, FS_EmptySet
  <2> QED BY <1>1, <2>1, <2>3
<1>3. ASSUME NEW d \in S, NEW e \in S, d < e PROVE Cardinality(Upto(d)) # Cardinality(Upto(e))
  <2>1. Upto(d) \in SUBSET Upto(e) /\ e \in Upto(e) /\ e \notin Upto(d)
    <3>1. d \in Nat /\ e \in Nat /\ ~(e <= d) /\ \A x \in S : x <= d => x <= e
      BY <1>3
    <3>2. \A x : x \in Upto(d) <=> x \in S /\ x <= d
      OBVIOUS
    <3>3. \A x : x \in Upto(e) <=> x \in S /\ x <= e
      OBVIOUS
    <3>4. e <= e
      BY <3>1
    <3> HIDE DEF Upto
    <3> QED BY <3>1, <3>2, <3>3, <3>4
  <2> QED BY <1>2, <2>1, FS_Subset
<1>4. f \in [S -> 1..n]
  BY <1>2
<1>5. \A d, e \in S : d # e => f[d] # f[e]
  <2> SUFFICES ASSUME NEW d \in S, NEW e \in S, d # e PROVE f[d] # f[e]
    OBVIOUS
  <2>1. d < e \/ e < d
    OBVIOUS
  <2> QED BY <2>1, <1>3
<1>6. f \in Injection(S, 1..n)
  BY <1>4, <1>5 DEF Injection, IsInjective
<1>7. f \in Surjection(S, 1..n)
  BY <1>1, <1>6, FS_Injection
<1> QED BY <1>7 DEF Surjection, Place

\* What is discovered: a sequence of patterns, each under its own name.
LEMMA Discovered ==
  ASSUME NEW listed \in Listings, NEW c \in Commits, NEW t \in Trees[c]
  PROVE  LET ps == discover_patterns(listed, t)
         IN  /\ ps \in Seq([name : Entries, sides : SUBSET Sides])
             /\ \A i, j \in DOMAIN ps : ps[i].name = ps[j].name => i = j
<1> DEFINE found == {e \in listed : t[e].dir /\ e \in NNNames}
           n == Cardinality(found)
           at(i) == CHOOSE e \in found : Place(e, found) = i
<1>1. found \in SUBSET Nat /\ IsFiniteSet(found) /\ n \in Nat
  BY HarnessAssumption, FS_Subset, FS_CardinalityType
<1>2. \A i \in 1..n : at(i) \in found /\ Place(at(i), found) = i
  BY <1>1, PlacesTaken
<1>3. discover_patterns(listed, t) = [i \in 1..n |-> Pattern(at(i), t)]
  BY DEF discover_patterns
<1> HIDE DEF at, n
<1>4. \A i \in 1..n : Pattern(at(i), t) \in [name : Entries, sides : SUBSET Sides]
  BY <1>2, HarnessAssumption DEF Pattern
<1>5. [i \in 1..n |-> Pattern(at(i), t)] \in Seq([name : Entries, sides : SUBSET Sides])
  BY <1>1, <1>4, IsASeq
<1>6. \A i \in 1..n : Pattern(at(i), t).name = at(i)
  BY DEF Pattern
<1> DEFINE ps == discover_patterns(listed, t)
<1>7. DOMAIN ps = 1..n /\ \A i \in DOMAIN ps : ps[i].name = at(i)
  BY <1>3, <1>6
<1>8. ps \in Seq([name : Entries, sides : SUBSET Sides])
  BY <1>3, <1>5
<1> HIDE DEF ps, found
<1>9. \A i, j \in DOMAIN ps : ps[i].name = ps[j].name => i = j
  BY <1>2, <1>7
<1> QED BY <1>8, <1>9 DEF ps, found

------------------------------------------------------------------------------
\* What an analysis can read of a side: it at the commit the checkout is at, or
\* has gone on to.
SidesUntil(c) == {head, c} \X {head, c}

\* An analysis that goes well says what the analyzer counts on the two sides,
\* left-out zeros included; one that does not says why.
LEMMA Measures ==
  ASSUME head \in Commits, NEW c \in Commits, NEW e \in Entries, NEW output \in Outputs(e, c)
  PROVE  LET outcome == analyze_pair(output)
         IN  \/ /\ outcome.error = None /\ outcome.delta \in Deltas
                /\ \E sides \in SidesUntil(c) : outcome.delta = Diff(Reading(sides, e))
             \/ outcome.error \in Errors /\ outcome.delta = None
<1> DEFINE outcome == analyze_pair(output)
<1>1. CASE output \in Mishaps
  <2>1. outcome.error # None
    BY <1>1, HarnessAssumption
  <2> QED BY <2>1 DEF analyze_pair, Delta, Error, Errors
<1>2. ASSUME NEW sides \in SidesUntil(c), NEW json \in Printed(Reading(sides, e)),
             output = Output(TRUE, TRUE, json)
      PROVE  outcome.error = None /\ outcome.delta = Diff(Reading(sides, e)) /\ outcome.delta \in Deltas
  <2> DEFINE counts == Reading(sides, e)
  <2>1. PICK stated \in SUBSET Metrics :
          /\ \A m \in Metrics \ stated : Diff(counts)[m] = 0
          /\ json = [left |-> counts.left, right |-> counts.right,
                     summary |-> [m \in stated |-> Diff(counts)[m]]]
    BY DEF Printed
  <2>2. Required \subseteq DOMAIN json /\ json.summary = [m \in stated |-> Diff(counts)[m]]
    BY <2>1 DEF Required
  <2>3. \A m \in Metrics : OrZero(json.summary, m) = Diff(counts)[m]
    BY <2>1, <2>2 DEF OrZero
  <2>4. contention_delta(json) = Diff(counts)
    BY <2>3 DEF contention_delta, Diff
  <2>5. outcome = Delta(Diff(counts))
    BY <1>2, <2>2, <2>4 DEF analyze_pair, Output
  <2>6. counts.left \in Counts /\ counts.right \in Counts
    BY HarnessAssumption DEF Reading, SidesUntil
  <2>7. Diff(counts) \in Deltas
    BY <2>6 DEF Counts, Diff, Deltas
  <2> QED BY <2>5, <2>7 DEF Delta
<1> QED BY <1>1, <1>2 DEF Outputs, SidesUntil

\* A cell says the number it was made from.
LEMMA NumberOfDelta == \A n \in Int : signed_delta(n) \in Cells /\ Number(signed_delta(n)) = n
BY DEF signed_delta, Cells, Number

Patterns == [name : Entries, sides : SUBSET Sides]
Results  == [pattern : Entries, delta : Deltas \cup {None},
             missing_sides : SUBSET Sides, error : Errors \cup {None}]

\* The result of an analysis is well-formed.
LEMMA ResultTyped ==
  ASSUME head \in Commits, NEW c \in Commits, NEW p \in Patterns, NEW output \in Outputs(p.name, c)
  PROVE  LET r == ResultOf(p, analyze_pair(output))
         IN  /\ r \in Results /\ r.pattern = p.name
             /\ WellFormed(r)
             /\ r.delta # None => \E sides \in SidesUntil(c) : r.delta = Diff(Reading(sides, p.name))
<1> DEFINE outcome == analyze_pair(output)
           r == ResultOf(p, outcome)
<1>1. \/ /\ outcome.error = None /\ outcome.delta \in Deltas
         /\ \E sides \in SidesUntil(c) : outcome.delta = Diff(Reading(sides, p.name))
      \/ outcome.error \in Errors /\ outcome.delta = None
  BY Measures DEF Patterns
<1>2. None \notin Deltas /\ None \notin Errors
  BY HarnessAssumption
<1> HIDE DEF outcome
<1>3. /\ r \in Results /\ r.pattern = p.name
      /\ r.delta # None => \E sides \in SidesUntil(c) : r.delta = Diff(Reading(sides, p.name))
  BY <1>1 DEF ResultOf, Result, Results, Patterns
<1>4. \/ r.delta # None /\ r.missing_sides = {} /\ r.error = None
      \/ r.delta = None /\ r.missing_sides # {} /\ r.error = None
      \/ r.delta = None /\ r.missing_sides = {} /\ r.error # None
  BY <1>1, <1>2 DEF ResultOf, Result, Patterns, is_complete
<1> HIDE DEF r
<1> DEFINE Says(x) == CASE x = 1 -> r.delta # None
                        [] x = 2 -> r.missing_sides # {}
                        [] x = 3 -> r.error # None
<1>5. \E x : {y \in {1, 2, 3} : Says(y)} = {x}
  <2>1. /\ Says(1) <=> r.delta # None
        /\ Says(2) <=> r.missing_sides # {}
        /\ Says(3) <=> r.error # None
    OBVIOUS
  <2> HIDE DEF Says
  <2>2. CASE Says(1)
    <3>1. {y \in {1, 2, 3} : Says(y)} = {1}
      BY <1>4, <2>1, <2>2
    <3> QED BY <3>1
  <2>3. CASE Says(2)
    <3>1. {y \in {1, 2, 3} : Says(y)} = {2}
      BY <1>4, <2>1, <2>3
    <3> QED BY <3>1
  <2>4. CASE Says(3)
    <3>1. {y \in {1, 2, 3} : Says(y)} = {3}
      BY <1>4, <2>1, <2>4
    <3> QED BY <3>1
  <2> QED BY <1>4, <2>1, <2>2, <2>3, <2>4
<1>6. Cardinality({y \in {1, 2, 3} : Says(y)}) = 1
  BY <1>5, FS_Singleton
<1>7. WellFormed(r)
  BY <1>3, <1>6 DEF WellFormed, Results
<1> QED BY <1>3, <1>7 DEF r, outcome

------------------------------------------------------------------------------
\* Reading and writing pieces.
LEMMA FindIs ==
  ASSUME NEW S, NEW f \in Seq(S), NEW x
  PROVE  /\ Find(f, x) \in 0..Len(f)
         /\ Find(f, x) # 0 => f[Find(f, x)] = x /\ \A j \in 1..(Find(f, x) - 1) : f[j] # x
         /\ Find(f, x) = 0 => \A j \in 1..Len(f) : f[j] # x
<1>1. Len(f) \in Nat /\ DOMAIN f = 1..Len(f)
  BY LenProperties
<1>2. CASE ~Contains(f, x)
  BY <1>1, <1>2 DEF Find, Contains
<1>3. CASE Contains(f, x)
  <2> DEFINE T == {i \in 1..Len(f) : f[i] = x}
  <2>1. T \subseteq Nat /\ T # {}
    BY <1>1, <1>3 DEF Contains
  <2>2. PICK i \in T : \A j \in T : ~(<<j, i>> \in OpToRel(<, Nat))
    BY <2>1, NatLessThanWellFounded, WFMin
  <2>3. \A j, k \in Nat : <<j, k>> \in OpToRel(<, Nat) <=> j < k
    BY DEF OpToRel
  <2>4. \A j \in 1..(i - 1) : f[j] # x
    <3> SUFFICES ASSUME NEW j \in 1..(i - 1), f[j] = x PROVE FALSE
      OBVIOUS
    <3>1. j \in T /\ j < i /\ j \in Nat /\ i \in Nat
      BY <1>1, <2>1
    <3> QED BY <2>2, <2>3, <3>1
  <2>5. \E k \in DOMAIN f : f[k] = x /\ \A j \in 1..(k - 1) : f[j] # x
    BY <1>1, <2>4
  <2>6. /\ Find(f, x) \in DOMAIN f
        /\ f[Find(f, x)] = x /\ \A j \in 1..(Find(f, x) - 1) : f[j] # x
    BY <1>3, <2>5 DEF Find
  <2> QED BY <1>1, <2>6
<1> QED BY <1>2, <1>3

\* An updated file is made of the pieces of the file, the block, and line ends.
LEMMA UpdatedTyped ==
  ASSUME NEW S, NEW f \in Seq(S), NEW block \in Seq(S), Newline \in S
  PROVE  Updated(f, block) \in Seq(S)
<1> DEFINE begin == Find(f, BENCH_BEGIN)
           end   == Find(f, BENCH_END)
<1>1. begin \in 0..Len(f) /\ end \in 0..Len(f) /\ Len(f) \in Nat
  BY FindIs, LenProperties
<1>2. \A i \in 1..Len(f) : f[i] \in S
  BY ElementOfSeq
<1>3. CASE begin # 0 /\ end # 0
  <2>1. SubSeq(f, 1, begin - 1) \in Seq(S) /\ SubSeq(f, end + 1, Len(f)) \in Seq(S)
    BY <1>1, <1>2, SubSeqProperties
  <2>2. SubSeq(f, 1, begin - 1) \o block \o SubSeq(f, end + 1, Len(f)) \in Seq(S)
    BY <2>1, ConcatProperties
  <2> QED BY <1>3, <2>2 DEF Updated
<1>4. CASE ~(begin # 0 /\ end # 0)
  <2>1. <<>> \in Seq(S) /\ <<Newline>> \in Seq(S)
    OBVIOUS
  <2>2. Gap(f) \in Seq(S)
    BY <2>1, ConcatProperties DEF Gap
  <2>3. f \o Gap(f) \o block \o <<Newline>> \in Seq(S)
    BY <2>1, <2>2, ConcatProperties
  <2> QED BY <1>4, <2>3 DEF Updated, Appended
<1> QED BY <1>3, <1>4

------------------------------------------------------------------------------
Pieces == Marks \cup FirstPieces \cup Bodies

\* What OwnNumbers says of one body.
BodyIsTrue(e, body) ==
  /\ body.pattern = e
  /\ \E sides \in Commits \X Commits :
       /\ \A m \in Metrics : Number(body.cells[m]) =
            Reading(sides, e).right[m] - Reading(sides, e).left[m]
       /\ \/ moved
          \/ sides[1] = sides[2] /\ body.stamp.contracts_sha \in {sides[1], Unknown}

\* What may be in the BENCH.md of e.
TruePieces(e) == {x \in Pieces : x \in Bodies => BodyIsTrue(e, x)}

Updater == {"updating", "opening", "writing"}

ProcessTyped ==
  /\ head \in Commits /\ tree \in Trees[head]
  /\ pc \in {"idle", "preflight", "analyzing"} \cup Updater
  /\ cmd \in {"usage", "pair", "all", "bench"}
  /\ patterns \in Seq(Patterns)
  /\ results \in Seq(Results) /\ Len(results) <= Len(patterns)
  /\ \A i \in DOMAIN results : WellFormed(results[i]) /\ results[i].pattern = patterns[i].name
  /\ prov \in Stamps \cup {None}
  /\ tally \in [DOMAIN NoTally -> Nat] /\ Sum(tally) <= Len(patterns)
  /\ exit \in {None, 0, 1, 2}

CutsTyped ==
  /\ cuts \in [Entries -> Nat]
  /\ Cuts <= MaxCuts

\* Where the process stands says how far it got.
Staged ==
  /\ pc \in {"idle", "preflight", "analyzing", "updating"} => todo = <<>>
  /\ pc = "preflight" => results = <<>> /\ patterns = <<>>
  /\ pc \in {"preflight", "analyzing"} => tally = NoTally
  /\ pc \in Updater => cmd = "bench" /\ Len(results) = Len(patterns) /\ prov \in Stamps
  /\ pc \in {"opening", "writing"} => At <= Len(patterns) /\ results[At].delta # None
  /\ pc = "opening" => todo = NewContents

MeasuredAt(c) ==
  \A i \in DOMAIN results :
    results[i].delta # None => results[i].delta = Diff(Reading(<<c, c>>, results[i].pattern))

\* Every result has its own pattern's numbers, each side's of some commit; if
\* the checkout stayed where it was, of the one it is at, or of the one in the
\* provenance.
ResultsTrue ==
  /\ \A i \in DOMAIN results :
       results[i].delta # None =>
         \E sides \in Commits \X Commits : results[i].delta = Diff(Reading(sides, results[i].pattern))
  /\ pc = "analyzing" /\ ~moved => MeasuredAt(head)
  /\ pc \in Updater /\ ~moved =>
       \E c \in Commits : MeasuredAt(c) /\ prov.contracts_sha \in {c, Unknown}

FilesTrue ==
  /\ files = [e \in Entries |-> files[e]]
  /\ \A e \in Entries : files[e] \in {None} \cup Seq(TruePieces(e))
  /\ \A e \in Entries :
       /\ pc \in {"opening", "writing"} /\ Here = e => todo \in Seq(TruePieces(e))
       /\ Writing(e) => files[e] \in Seq(TruePieces(e))

HInv == ProcessTyped /\ CutsTyped /\ Staged /\ ResultsTrue /\ FilesTrue

\* ... all of it what TypeOK and OwnNumbers say.
LEMMA HInvImplies == HInv => TypeOK /\ OwnNumbers
<1> SUFFICES ASSUME HInv PROVE TypeOK /\ OwnNumbers
  OBVIOUS
<1>1. /\ tally \in [DOMAIN NoTally -> 0..Len(patterns)]
      /\ Sum(tally) <= Len(patterns)
  <2>1. tally \in [DOMAIN NoTally -> Nat] /\ Sum(tally) <= Len(patterns) /\ Len(patterns) \in Nat
    BY LenProperties DEF HInv, ProcessTyped
  <2>2. DOMAIN NoTally = {"updated", "unchanged", "skipped", "failed"}
    BY DEF NoTally
  <2>3. \A k \in DOMAIN NoTally : tally[k] \in Nat
    BY <2>1
  <2>4. \A k \in DOMAIN NoTally : tally[k] <= Sum(tally)
    BY <2>2, <2>3 DEF Sum
  <2>5. Sum(tally) \in Nat
    BY <2>2, <2>3 DEF Sum
  <2>6. \A k \in DOMAIN NoTally : tally[k] \in 0..Len(patterns)
    BY <2>1, <2>3, <2>4, <2>5
  <2> QED BY <2>1, <2>6
<1>2. \A e \in Entries : cuts[e] \in 0..MaxCuts
  <2> SUFFICES ASSUME NEW e \in Entries PROVE cuts[e] \in 0..MaxCuts
    OBVIOUS
  <2>1. cuts \in [Entries -> Nat] /\ Cuts <= MaxCuts /\ MaxCuts \in Nat /\ IsFiniteSet(Entries)
    BY HarnessAssumption DEF HInv, CutsTyped
  <2>2. SumOver(cuts, Entries) = SumOver(cuts, Entries \ {e}) + cuts[e]
    BY <2>1, SumOverSplit
  <2>3. SumOver(cuts, Entries \ {e}) \in Nat
    BY <2>1, SumOverType
  <2> QED BY <2>1, <2>2, <2>3 DEF Cuts
<1>3. TypeOK
  BY <1>1, <1>2 DEF HInv, ProcessTyped, Staged, FilesTrue, TypeOK, Updater
<1>4. OwnNumbers
  <2> SUFFICES ASSUME NEW e \in Entries, NEW i \in DOMAIN Contents(e), Contents(e)[i] \in Bodies
               PROVE  BodyIsTrue(e, Contents(e)[i])
    BY DEF OwnNumbers, BodyIsTrue
  <2>1. Contents(e) \in Seq(TruePieces(e))
    BY DEF HInv, FilesTrue, Contents
  <2>2. Contents(e)[i] \in TruePieces(e)
    BY <2>1, LenProperties, ElementOfSeq
  <2> QED BY <2>2 DEF TruePieces
<1> QED BY <1>3, <1>4

LEMMA InitHInv == Init => HInv
<1> SUFFICES ASSUME Init PROVE HInv
  OBVIOUS
<1>1. Sum(NoTally) = 0 /\ NoTally \in [DOMAIN NoTally -> Nat]
  BY DEF Sum, NoTally
<1>2. ProcessTyped
  BY <1>1, FirstCommit DEF Init, ProcessTyped
<1>3. CutsTyped
  <2>1. \A e \in Entries : cuts[e] = 0
    BY DEF Init
  <2>2. Cuts = 0
    BY <2>1, SumOverZero DEF Cuts
  <2> QED BY <2>2, HarnessAssumption DEF Init, CutsTyped
<1>4. Staged /\ ResultsTrue
  BY DEF Init, Staged, ResultsTrue, Updater
<1>5. FilesTrue
  <2>1. files \in [Entries -> {None} \cup Seq(FirstPieces)]
    BY HarnessAssumption DEF Init
  <2>2. \A e : FirstPieces \subseteq TruePieces(e)
    BY HarnessAssumption DEF TruePieces, Pieces
  <2>3. \A e \in Entries : files[e] \in {None} \cup Seq(TruePieces(e))
    BY <2>1, <2>2, SeqMonotonic
  <2> QED BY <2>1, <2>3 DEF Init, FilesTrue, Writing
<1> QED BY <1>2, <1>3, <1>4, <1>5 DEF HInv

------------------------------------------------------------------------------
\* The pattern the loop stands at has a name and a result of its own.
LEMMA HereIs ==
  ASSUME HInv, pc \in Updater, At <= Len(patterns)
  PROVE  /\ At \in 1..Len(patterns) /\ At \in DOMAIN patterns /\ At \in DOMAIN results
         /\ Here \in Entries /\ results[At].pattern = Here /\ results[At] \in Results
<1>1. /\ patterns \in Seq(Patterns) /\ results \in Seq(Results)
      /\ Len(results) = Len(patterns) /\ tally \in [DOMAIN NoTally -> Nat]
  BY DEF HInv, ProcessTyped, Staged
<1>2. Len(patterns) \in Nat /\ DOMAIN patterns = 1..Len(patterns) /\ DOMAIN results = 1..Len(patterns)
  BY <1>1, LenProperties
<1>3. Sum(tally) \in Nat
  BY <1>1 DEF Sum, NoTally
<1>4. At \in 1..Len(patterns)
  BY <1>2, <1>3 DEF At
<1>5. patterns[At] \in Patterns /\ results[At] \in Results
  BY <1>1, <1>2, <1>4, ElementOfSeq
<1>6. results[At].pattern = patterns[At].name
  BY <1>2, <1>4 DEF HInv, ProcessTyped
<1> QED BY <1>2, <1>4, <1>5, <1>6 DEF Here, Patterns

\* The next pattern is counted, once.
LEMMA CountedOnce ==
  ASSUME HInv, pc \in Updater, At <= Len(patterns),
         NEW outcome \in DOMAIN NoTally, Counted(outcome)
  PROVE  /\ tally' \in [DOMAIN NoTally -> Nat]
         /\ Sum(tally') = Sum(tally) + 1 /\ Sum(tally') <= Len(patterns)
<1>1. tally \in [DOMAIN NoTally -> Nat]
  BY DEF HInv, ProcessTyped
<1>2. DOMAIN NoTally = {"updated", "unchanged", "skipped", "failed"}
  BY DEF NoTally
<1>3. tally' = [tally EXCEPT ![outcome] = tally[outcome] + 1]
  BY DEF Counted
<1>4. \A k \in DOMAIN NoTally : tally[k] \in Nat
  BY <1>1
<1>5. tally'[outcome] = tally[outcome] + 1 /\ \A k \in DOMAIN NoTally \ {outcome} : tally'[k] = tally[k]
  BY <1>1, <1>3
<1>6. tally' \in [DOMAIN NoTally -> Nat]
  BY <1>1, <1>3
<1>7. Sum(tally') = Sum(tally) + 1
  <2>1. \A k \in {"updated", "unchanged", "skipped", "failed"} :
          tally[k] \in Nat /\ tally'[k] = IF k = outcome THEN tally[k] + 1 ELSE tally[k]
    BY <1>2, <1>4, <1>5
  <2>2. PICK a, b, c, d \in Nat :
          tally.updated = a /\ tally.unchanged = b /\ tally.skipped = c /\ tally.failed = d
    BY <2>1
  <2>3. Sum(tally) = a + b + c + d
    BY <2>2 DEF Sum
  <2>4. \/ Sum(tally') = (a + 1) + b + c + d
        \/ Sum(tally') = a + (b + 1) + c + d
        \/ Sum(tally') = a + b + (c + 1) + d
        \/ Sum(tally') = a + b + c + (d + 1)
    BY <1>2, <2>1, <2>2 DEF Sum
  <2> QED BY <2>3, <2>4
<1>8. At \in 1..Len(patterns)
  BY HereIs
<1> QED BY <1>6, <1>7, <1>8 DEF At

\* A piece stays true: the checkout's having moved is never taken back.
LEMMA SameTruth ==
  /\ moved' = moved => \A e : TruePieces(e)' = TruePieces(e)
  /\ (moved => moved') => \A e : TruePieces(e) \subseteq TruePieces(e)'
<1>1. moved' = moved => \A e : TruePieces(e)' = TruePieces(e)
  BY DEF TruePieces, BodyIsTrue
<1>2. (moved => moved') => \A e : TruePieces(e) \subseteq TruePieces(e)'
  <2>1. (moved => moved') => \A e, x : BodyIsTrue(e, x) => BodyIsTrue(e, x)'
    BY DEF BodyIsTrue
  <2> QED BY <2>1 DEF TruePieces
<1> QED BY <1>1, <1>2

\* A block is made of the pattern's own numbers and of the provenance, which
\* names the one commit they are of unless the checkout moved.
LEMMA BlockIsTrue ==
  ASSUME HInv, pc \in Updater, At <= Len(patterns), results[At].delta # None
  PROVE  /\ Block \in Seq(TruePieces(Here))
         /\ NewContents \in Seq(TruePieces(Here))
         /\ \E sides \in Commits \X Commits, stamp \in Stamps :
              Block = render_bench_block(Here, Diff(Reading(sides, Here)), stamp)
<1> DEFINE delta == results[At].delta
           body  == [pattern |-> Here, cells |-> [m \in DOMAIN delta |-> signed_delta(delta[m])],
                     stamp |-> prov]
<1>1. /\ At \in DOMAIN results /\ Here \in Entries /\ delta # None
      /\ results[At].pattern = Here /\ results[At] \in Results /\ prov \in Stamps
  BY HereIs DEF HInv, Staged
<1>2. PICK sides \in Commits \X Commits :
        /\ delta = Diff(Reading(sides, Here))
        /\ \/ moved
           \/ sides[1] = sides[2] /\ prov.contracts_sha \in {sides[1], Unknown}
  <2>1. CASE moved
    <3>1. \E sides \in Commits \X Commits : delta = Diff(Reading(sides, Here))
      BY <1>1 DEF HInv, ResultsTrue
    <3> QED BY <2>1, <3>1
  <2>2. CASE ~moved
    <3>1. PICK c \in Commits : MeasuredAt(c) /\ prov.contracts_sha \in {c, Unknown}
      BY <2>2 DEF HInv, ResultsTrue
    <3>2. delta = Diff(Reading(<<c, c>>, Here))
      BY <1>1, <3>1 DEF MeasuredAt
    <3>3. <<c, c>> \in Commits \X Commits /\ <<c, c>>[1] = c /\ <<c, c>>[2] = c
      OBVIOUS
    <3> QED BY <3>1, <3>2, <3>3
  <2> QED BY <2>1, <2>2
<1>3. \A m \in Metrics : delta[m] = Reading(sides, Here).right[m] - Reading(sides, Here).left[m]
  BY <1>2 DEF Diff
<1>4. DOMAIN delta = Metrics /\ \A m \in Metrics : delta[m] \in Int
  BY <1>1 DEF Results, Deltas
<1>5. body \in Bodies
  BY <1>1, <1>4, NumberOfDelta DEF Bodies
<1>6. BodyIsTrue(Here, body)
  BY <1>2, <1>3, <1>4, NumberOfDelta DEF BodyIsTrue
<1>7. body \in TruePieces(Here) /\ \A e : Marks \subseteq TruePieces(e)
  BY <1>5, <1>6, HarnessAssumption DEF TruePieces, Pieces
<1>8. Block = <<BENCH_BEGIN, body, BENCH_END>>
  BY DEF Block, render_bench_block
<1>9. Block \in Seq(TruePieces(Here))
  BY <1>7, <1>8 DEF Marks
<1>10. Contents(Here) \in Seq(TruePieces(Here))
  BY <1>1 DEF HInv, FilesTrue, Contents
<1>11. NewContents \in Seq(TruePieces(Here))
  BY <1>7, <1>9, <1>10, UpdatedTyped DEF NewContents, Marks
<1>12. Block = render_bench_block(Here, Diff(Reading(sides, Here)), prov)
  BY <1>2 DEF Block
<1> QED BY <1>1, <1>9, <1>11, <1>12

\* Outside of an update what a step leaves in the files stays true.
LEMMA SameFiles ==
  ASSUME HInv, UNCHANGED files, moved => moved', pc' \notin {"opening", "writing"}
  PROVE  FilesTrue'
<1>1. \A e : TruePieces(e) \subseteq TruePieces(e)'
  BY SameTruth
<1>2. /\ files = [e \in Entries |-> files[e]]
      /\ \A e \in Entries : files[e] \in {None} \cup Seq(TruePieces(e))
  BY DEF HInv, FilesTrue
<1>3. \A e \in Entries : files[e] \in {None} \cup Seq(TruePieces(e)')
  BY <1>1, <1>2, SeqMonotonic
<1> QED BY <1>2, <1>3 DEF FilesTrue, Writing

\* In an update it does if the process stays at the same pattern, too.
LEMMA SameUpdate ==
  ASSUME HInv, UNCHANGED <<files, patterns, tally, todo, pc>>, moved => moved'
  PROVE  FilesTrue'
<1>1. \A e : TruePieces(e) \subseteq TruePieces(e)'
  BY SameTruth
<1>2. Here' = Here
  BY DEF Here, At
<1>3. \A e, s : s \in Seq(TruePieces(e)) => s \in Seq(TruePieces(e)')
  BY <1>1, SeqMonotonic
<1> QED BY <1>2, <1>3 DEF HInv, FilesTrue, Writing

\* The file that is being written gets more pieces.
LEMMA FileExtended ==
  ASSUME HInv, pc = "writing", NEW s \in Seq(TruePieces(Here)),
         files' = [files EXCEPT ![Here] = files[Here] \o s]
  PROVE  /\ files' = [e \in Entries |-> files'[e]]
         /\ \A e \in Entries : files'[e] \in {None} \cup Seq(TruePieces(e))
         /\ files'[Here] \in Seq(TruePieces(Here))
<1>1. Here \in Entries
  BY HereIs DEF HInv, Staged, Updater
<1>2. files[Here] \in Seq(TruePieces(Here))
  BY <1>1 DEF HInv, FilesTrue, Writing
<1>3. files[Here] \o s \in Seq(TruePieces(Here))
  BY <1>2, ConcatProperties
<1>4. /\ files = [e \in Entries |-> files[e]]
      /\ \A e \in Entries : files[e] \in {None} \cup Seq(TruePieces(e))
  BY DEF HInv, FilesTrue
<1>5. files'[Here] = files[Here] \o s /\ \A e \in Entries \ {Here} : files'[e] = files[e]
  BY <1>1, <1>4
<1>6. files' = [e \in Entries |-> files'[e]]
  BY <1>4
<1> QED BY <1>3, <1>4, <1>5, <1>6

\* A write that is cut short leaves the beginning of true contents, and counts.
LEMMA CutIsTrue ==
  ASSUME HInv, CutWrite, moved' = moved, pc' \notin {"opening", "writing"}
  PROVE  CutsTyped' /\ FilesTrue'
<1>1. Here \in Entries
  BY HereIs DEF HInv, Staged, Updater, CutWrite
<1>2. CutsTyped'
  <2>1. cuts \in [Entries -> Nat] /\ cuts' = [cuts EXCEPT ![Here] = cuts[Here] + 1]
    BY DEF CutWrite, HInv, CutsTyped
  <2>2. cuts' \in [Entries -> Nat]
    BY <1>1, <2>1
  <2>3. \A e \in Entries \ {Here} : cuts'[e] = cuts[e]
    BY <2>1
  <2>4. cuts'[Here] = cuts[Here] + 1 /\ cuts[Here] \in Nat
    BY <1>1, <2>1
  <2>5. /\ SumOver(cuts, Entries) \in Nat /\ SumOver(cuts', Entries) \in Nat
        /\ SumOver(cuts', Entries) + cuts[Here] = SumOver(cuts, Entries) + cuts'[Here]
    <3>1. IsFiniteSet(Entries)
      BY HarnessAssumption
    <3>2. PICK a \in Entries : a = Here
      BY <1>1
    <3>3. PICK g \in [Entries -> Nat] : g = cuts'
      BY <2>2
    <3>4. PICK f \in [Entries -> Nat] : f = cuts
      BY <2>1
    <3>5. \A x \in Entries \ {a} : g[x] = f[x]
      BY <2>3, <3>2, <3>3, <3>4
    <3>6. /\ SumOver(f, Entries) \in Nat /\ SumOver(g, Entries) \in Nat
          /\ SumOver(g, Entries) + f[a] = SumOver(f, Entries) + g[a]
      BY <3>1, <3>5, SumOverUpdate
    <3> QED BY <3>2, <3>3, <3>4, <3>6
  <2>6. Cuts' = Cuts + 1 /\ Cuts \in Nat
    BY <2>4, <2>5 DEF Cuts
  <2>7. Cuts < MaxCuts /\ MaxCuts \in Nat
    BY HarnessAssumption DEF CutWrite
  <2> QED BY <2>2, <2>6, <2>7 DEF CutsTyped
<1>3. PICK rest \in Rests(Head(todo)) : files' = [files EXCEPT ![Here] = files[Here] \o rest]
  BY DEF CutWrite
<1>4. rest \in Seq(TruePieces(Here))
  <2>1. rest = <<>> \/ rest = <<Fragment>> \/ rest = <<Garbled>>
    BY DEF Rests
  <2>2. Fragment \in TruePieces(Here) /\ Garbled \in TruePieces(Here)
    BY HarnessAssumption DEF TruePieces, Pieces, Marks
  <2>3. <<>> \in Seq(TruePieces(Here)) /\ \A x \in TruePieces(Here) : <<x>> \in Seq(TruePieces(Here))
    OBVIOUS
  <2> QED BY <2>1, <2>2, <2>3
<1>5. /\ files' = [e \in Entries |-> files'[e]]
      /\ \A e \in Entries : files'[e] \in {None} \cup Seq(TruePieces(e))
  BY <1>3, <1>4, FileExtended DEF CutWrite
<1>6. \A e : TruePieces(e)' = TruePieces(e)
  BY SameTruth
<1>7. FilesTrue'
  BY <1>5, <1>6 DEF FilesTrue, Writing
<1> QED BY <1>2, <1>7

\* A process that begins, or is killed, has found and measured nothing.
LEMMA NothingYet ==
  ASSUME HInv, head' \in Commits, tree' \in Trees[head'],
         patterns' = <<>>, results' = <<>>, tally' = NoTally, prov' = None, todo' = <<>>,
         pc' \in {"idle", "preflight"}, cmd' \in {"usage", "pair", "all", "bench"},
         exit' \in {None, 0, 1, 2}
  PROVE  ProcessTyped' /\ Staged' /\ ResultsTrue'
<1>1. Sum(NoTally) = 0 /\ NoTally \in [DOMAIN NoTally -> Nat]
  BY DEF Sum, NoTally
<1>2. ProcessTyped'
  BY <1>1 DEF HInv, ProcessTyped
<1> QED BY <1>2 DEF Staged, ResultsTrue, Updater

\* What a step does not touch stays as it was.
LEMMA SameCuts == HInv /\ UNCHANGED cuts => CutsTyped'
BY DEF HInv, CutsTyped, Cuts

\* Wherever the checkout goes on to, there is a tree of that commit.
LEMMA GoesOnTyped ==
  ASSUME HInv, NEW c \in Commits, GoesOn(c)
  PROVE  head' \in Commits /\ tree' \in Trees[head']
BY DEF GoesOn, HInv, ProcessTyped

\* Every process begins alike.
LEMMA LaunchHInv ==
  ASSUME HInv, NEW c \in {"usage", "pair", "all", "bench"}, Launch(c),
         pc' \in {"idle", "preflight"}, exit' \in {None, 0, 1, 2},
         head' \in Commits, tree' \in Trees[head'], moved => moved'
  PROVE  HInv'
<1>1. todo = <<>>
  BY DEF Launch, HInv, Staged
<1>2. ProcessTyped' /\ Staged' /\ ResultsTrue'
  BY <1>1, NothingYet DEF Launch
<1>3. CutsTyped'
  BY SameCuts DEF Launch
<1>4. FilesTrue'
  BY SameFiles DEF Launch
<1> QED BY <1>2, <1>3, <1>4 DEF HInv

LEMMA PreflightHInv ==
  ASSUME HInv, NEW available, NEW listed \in Listings, Preflight(available, listed)
  PROVE  HInv'
<1>1. /\ results = <<>> /\ patterns = <<>> /\ tally = NoTally /\ todo = <<>> /\ pc = "preflight"
      /\ UNCHANGED <<tree, files, head, cuts, cmd, results, prov, todo, tally, moved>>
  BY DEF Preflight, HInv, Staged, shared, past
<1>2. patterns' \in Seq(Patterns)
  BY <1>1, Discovered DEF Preflight, HInv, ProcessTyped, Patterns
<1>3. pc' \in {"idle", "analyzing"} /\ exit' \in {None, 0, 1, 2}
  BY DEF Preflight, Exit, said, HInv, ProcessTyped
<1>4. Sum(NoTally) = 0 /\ Len(patterns') \in Nat
  BY <1>2, LenProperties DEF Sum, NoTally
<1>5. ProcessTyped'
  BY <1>1, <1>2, <1>3, <1>4 DEF HInv, ProcessTyped
<1>6. Staged' /\ ResultsTrue'
  BY <1>1, <1>3 DEF Staged, ResultsTrue, MeasuredAt, Updater
<1>7. CutsTyped' /\ FilesTrue'
  BY <1>1, <1>3, SameCuts, SameFiles
<1> QED BY <1>5, <1>6, <1>7 DEF HInv

\* An analysis adds the result of the next pattern.
LEMMA AnalyzeHInv == ASSUME HInv, NEW c \in Commits, Analyze(c) PROVE HInv'
<1> DEFINE n == Len(results)
           p == patterns[n + 1]
<1>1. /\ pc = "analyzing" /\ n < Len(patterns) /\ todo = <<>> /\ tally = NoTally
      /\ UNCHANGED <<files, cuts, pc, cmd, patterns, prov, todo, tally, exit>>
      /\ head' = c /\ moved' = (moved \/ c # head)
      /\ head' \in Commits /\ tree' \in Trees[head']
  BY GoesOnTyped DEF Analyze, GoesOn, HInv, Staged, said
<1>2. results \in Seq(Results) /\ patterns \in Seq(Patterns) /\ n \in Nat /\ Len(patterns) \in Nat
  BY LenProperties DEF HInv, ProcessTyped
<1>3. n + 1 \in 1..Len(patterns)
  BY <1>1, <1>2
<1>4. p \in Patterns /\ head \in Commits
  BY <1>2, <1>3, ElementOfSeq DEF HInv, ProcessTyped
<1>5. PICK r \in Results :
        /\ results' = Append(results, r)
        /\ r.pattern = p.name /\ WellFormed(r)
        /\ r.delta # None => \E sides \in SidesUntil(c) : r.delta = Diff(Reading(sides, p.name))
  <2>1. PICK output \in Outputs(p.name, c) : results' = Append(results, ResultOf(p, analyze_pair(output)))
    BY DEF Analyze
  <2> QED BY <1>4, <2>1, ResultTyped
<1> HIDE DEF p
<1>6. /\ results' \in Seq(Results) /\ Len(results') = n + 1 /\ DOMAIN results' = 1..(n + 1)
      /\ results'[n + 1] = r /\ \A i \in 1..n : results'[i] = results[i]
  BY <1>2, <1>5
<1>7. DOMAIN results = 1..n
  BY <1>2, LenProperties
<1>8. \A i \in DOMAIN results' :
        \/ i \in DOMAIN results /\ results'[i] = results[i]
        \/ i = n + 1 /\ results'[i] = r
  BY <1>2, <1>6, <1>7
<1>9. ProcessTyped'
  <2>1. \A i \in DOMAIN results' : WellFormed(results'[i]) /\ results'[i].pattern = patterns[i].name
    BY <1>5, <1>8 DEF HInv, ProcessTyped, p
  <2>2. Len(results') <= Len(patterns)
    BY <1>2, <1>3, <1>6
  <2> QED BY <1>1, <1>6, <2>1, <2>2 DEF HInv, ProcessTyped
<1>10. Staged'
  BY <1>1 DEF Staged, Updater
<1>11. ResultsTrue'
  <2>1. \A i \in DOMAIN results' : results'[i].delta # None =>
          \E sides \in Commits \X Commits : results'[i].delta = Diff(Reading(sides, results'[i].pattern))
    BY <1>4, <1>5, <1>8 DEF HInv, ResultsTrue, SidesUntil
  <2>2. ~moved' => \A i \in DOMAIN results' : results'[i].delta # None =>
          results'[i].delta = Diff(Reading(<<head, head>>, results'[i].pattern))
    <3> SUFFICES ASSUME ~moved', NEW i \in DOMAIN results', results'[i].delta # None
                 PROVE  results'[i].delta = Diff(Reading(<<head, head>>, results'[i].pattern))
      OBVIOUS
    <3>1. ~moved /\ c = head
      BY <1>1
    <3>2. \A sides \in SidesUntil(c) : sides = <<head, head>>
      BY <3>1 DEF SidesUntil
    <3>3. CASE i \in DOMAIN results /\ results'[i] = results[i]
      BY <1>1, <3>1, <3>3 DEF HInv, ResultsTrue, MeasuredAt
    <3>4. CASE results'[i] = r
      BY <1>5, <3>2, <3>4
    <3> QED BY <1>8, <3>3, <3>4
  <2>3. ~moved' => head' = head
    BY <1>1
  <2> QED BY <1>1, <2>1, <2>2, <2>3 DEF ResultsTrue, MeasuredAt, Updater
<1>12. CutsTyped' /\ FilesTrue'
  BY <1>1, SameCuts, SameFiles
<1> QED BY <1>9, <1>10, <1>11, <1>12 DEF HInv

\* The commit that is noted is the one all was measured at, unless it moved.
LEMMA CollectHInv == ASSUME HInv, NEW time \in Times, CollectProvenance(time) PROVE HInv'
<1>1. /\ pc = "analyzing" /\ cmd = "bench" /\ Len(results) = Len(patterns)
      /\ todo = <<>> /\ tally = NoTally /\ pc' = "updating"
      /\ UNCHANGED <<tree, files, head, cuts, cmd, patterns, results, todo, tally, exit, moved>>
  BY DEF CollectProvenance, HInv, Staged, shared, batch, past, said
<1>2. PICK sha \in {head, Unknown} : prov' = [contracts_sha |-> sha, run_time |-> time]
  BY DEF CollectProvenance
<1>3. prov' \in Stamps /\ prov'.contracts_sha \in {head, Unknown} /\ head \in Commits
  BY <1>2 DEF Stamps, HInv, ProcessTyped
<1>4. ProcessTyped'
  BY <1>1, <1>3 DEF HInv, ProcessTyped, Updater
<1>5. Staged'
  BY <1>1, <1>3 DEF Staged, Updater
<1>6. ResultsTrue'
  <2>1. ~moved => MeasuredAt(head)
    BY <1>1 DEF HInv, ResultsTrue
  <2>2. \A c : MeasuredAt(c) => MeasuredAt(c)'
    BY <1>1 DEF MeasuredAt
  <2>3. pc' \in Updater /\ ~moved' => \E c \in Commits : MeasuredAt(c)' /\ prov'.contracts_sha \in {c, Unknown}
    BY <1>1, <1>3, <2>1, <2>2
  <2> QED BY <1>1, <2>3 DEF HInv, ResultsTrue
<1>7. CutsTyped' /\ FilesTrue'
  BY <1>1, SameCuts, SameFiles
<1> QED BY <1>4, <1>5, <1>6, <1>7 DEF HInv

\* The results stay true while they are used.
LEMMA SameResults ==
  ASSUME HInv, UNCHANGED <<patterns, results, prov, moved>>, pc' \notin {"analyzing"},
         pc' \in Updater => pc \in Updater
  PROVE  ResultsTrue'
<1>1. \A c : MeasuredAt(c) => MeasuredAt(c)'
  BY DEF MeasuredAt
<1>2. pc' \in Updater /\ ~moved' => \E c \in Commits : MeasuredAt(c)' /\ prov'.contracts_sha \in {c, Unknown}
  BY <1>1 DEF HInv, ResultsTrue
<1> QED BY <1>2 DEF HInv, ResultsTrue

\* A batch that is over leaves everything as it is.
LEMMA FinishHInv == ASSUME HInv, FinishAll \/ FinishBench PROVE HInv'
<1>1. /\ todo = <<>> /\ pc' = "idle" /\ exit' \in {0, 1}
      /\ UNCHANGED <<tree, files, head, cuts, cmd, patterns, results, prov, todo, tally, moved>>
  BY DEF FinishAll, FinishBench, Exit, AllExitCode, BenchExitCode, HInv, Staged, shared, batch, past
<1>2. ProcessTyped'
  BY <1>1 DEF HInv, ProcessTyped
<1>3. Staged'
  BY <1>1 DEF Staged, Updater
<1>4. ResultsTrue'
  BY <1>1, SameResults DEF Updater
<1>5. CutsTyped' /\ FilesTrue'
  BY <1>1, SameCuts, SameFiles
<1> QED BY <1>2, <1>3, <1>4, <1>5 DEF HInv

\* The pattern at hand is done with, and no file has changed.
LEMMA NextPatternHInv ==
  ASSUME HInv, pc \in Updater, At <= Len(patterns), NEW outcome \in DOMAIN NoTally, Counted(outcome),
         UNCHANGED <<tree, files, head, cuts, cmd, batch, prov, said, moved>>,
         pc' = "updating", todo' = <<>>
  PROVE  HInv'
<1>1. tally' \in [DOMAIN NoTally -> Nat] /\ Sum(tally') <= Len(patterns)
  BY CountedOnce
<1>2. ProcessTyped'
  BY <1>1 DEF HInv, ProcessTyped, Updater, batch, said
<1>3. Staged'
  BY DEF HInv, Staged, Updater, batch
<1>4. ResultsTrue'
  BY SameResults DEF batch
<1>5. CutsTyped' /\ FilesTrue'
  BY SameCuts, SameFiles
<1> QED BY <1>2, <1>3, <1>4, <1>5 DEF HInv

LEMMA SkipHInv == ASSUME HInv, Skip PROVE HInv'
<1>1. todo = <<>>
  BY DEF Skip, HInv, Staged
<1>2. "skipped" \in DOMAIN NoTally
  BY DEF NoTally
<1> QED BY <1>1, <1>2, NextPatternHInv DEF Skip, Updater, shared, past

LEMMA UpdateFailsHInv == ASSUME HInv, UpdateFails PROVE HInv'
<1>1. pc \in Updater /\ At <= Len(patterns)
  BY DEF UpdateFails, Updating, Updater, HInv, Staged
<1>2. "failed" \in DOMAIN NoTally
  BY DEF NoTally
<1> QED BY <1>1, <1>2, NextPatternHInv DEF UpdateFails, shared, past

LEMMA CurrentHInv == ASSUME HInv, Current PROVE HInv'
<1>1. todo = <<>> /\ pc \in Updater /\ At <= Len(patterns)
  BY DEF Current, Updating, Updater, HInv, Staged
<1>2. "unchanged" \in DOMAIN NoTally
  BY DEF NoTally
<1> QED BY <1>1, <1>2, NextPatternHInv DEF Current, Updating, shared

LEMMA EndWriteHInv == ASSUME HInv, EndWrite PROVE HInv'
<1>1. pc \in Updater /\ At <= Len(patterns)
  BY DEF EndWrite, Updater, HInv, Staged
<1>2. "updated" \in DOMAIN NoTally
  BY DEF NoTally
<1> QED BY <1>1, <1>2, NextPatternHInv DEF EndWrite, shared

\* The new contents are made of true pieces: those of the file and the block.
LEMMA ReadHInv == ASSUME HInv, Read PROVE HInv'
<1>1. /\ pc = "updating" /\ At <= Len(patterns) /\ results[At].delta # None
      /\ pc' = "opening" /\ todo' = NewContents
      /\ UNCHANGED <<tree, files, head, cuts, cmd, patterns, results, prov, tally, exit, moved>>
  BY DEF Read, Updating, shared, batch, past, said
<1>2. ProcessTyped'
  BY <1>1 DEF HInv, ProcessTyped, Updater
<1>3. At' = At /\ Here' = Here /\ NewContents' = NewContents
  BY <1>1 DEF At, Here, NewContents, Contents, Block
<1>4. Staged'
  BY <1>1, <1>3 DEF HInv, Staged, Updater
<1>5. ResultsTrue'
  BY <1>1, SameResults DEF Updater
<1>6. FilesTrue'
  <2>1. NewContents \in Seq(TruePieces(Here))
    BY <1>1, BlockIsTrue DEF Updater
  <2>2. \A e : TruePieces(e)' = TruePieces(e)
    BY <1>1, SameTruth
  <2>3. \A e \in Entries : Here = e => todo' \in Seq(TruePieces(e))
    BY <1>1, <2>1
  <2> QED BY <1>1, <1>3, <2>2, <2>3 DEF HInv, FilesTrue, Writing
<1>7. CutsTyped'
  BY <1>1, SameCuts
<1> QED BY <1>2, <1>4, <1>5, <1>6, <1>7 DEF HInv

LEMMA TruncateHInv == ASSUME HInv, Truncate PROVE HInv'
<1>1. /\ pc = "opening" /\ pc' = "writing" /\ files' = [files EXCEPT ![Here] = <<>>]
      /\ UNCHANGED <<tree, head, cuts, cmd, patterns, results, prov, todo, tally, exit, moved>>
  BY DEF Truncate, batch, said
<1>2. ProcessTyped'
  BY <1>1 DEF HInv, ProcessTyped, Updater
<1>3. At' = At /\ Here' = Here
  BY <1>1 DEF At, Here
<1>4. Staged'
  BY <1>1, <1>3 DEF HInv, Staged, Updater
<1>5. ResultsTrue'
  BY <1>1, SameResults DEF Updater
<1>6. FilesTrue'
  <2>1. Here \in Entries
    BY <1>1, HereIs DEF HInv, Staged, Updater
  <2>2. \A e : TruePieces(e)' = TruePieces(e) /\ <<>> \in Seq(TruePieces(e))
    BY <1>1, SameTruth
  <2>3. /\ files = [e \in Entries |-> files[e]]
        /\ \A e \in Entries : files[e] \in {None} \cup Seq(TruePieces(e))
        /\ \A e \in Entries : Here = e => todo \in Seq(TruePieces(e))
    BY <1>1 DEF HInv, FilesTrue
  <2>4. files' = [e \in Entries |-> files'[e]]
    BY <1>1, <2>3
  <2>5. files'[Here] = <<>> /\ \A e \in Entries \ {Here} : files'[e] = files[e]
    BY <1>1, <2>1, <2>3
  <2>6. \A e \in Entries : files'[e] \in {None} \cup Seq(TruePieces(e))
    BY <2>2, <2>3, <2>5
  <2>7. \A e \in Entries : Here = e => files'[e] \in Seq(TruePieces(e)) /\ todo' \in Seq(TruePieces(e))
    BY <1>1, <2>2, <2>3, <2>5
  <2> QED BY <1>1, <1>3, <2>2, <2>4, <2>6, <2>7 DEF FilesTrue, Writing
<1>7. CutsTyped'
  BY <1>1, SameCuts
<1> QED BY <1>2, <1>4, <1>5, <1>6, <1>7 DEF HInv

\* Of what is to be written the first piece goes to the file.
LEMMA WritePieceHInv == ASSUME HInv, WritePiece PROVE HInv'
<1>1. /\ pc = "writing" /\ todo # <<>> /\ todo' = Tail(todo) /\ pc' = pc
      /\ files' = [files EXCEPT ![Here] = Append(files[Here], Head(todo))]
      /\ UNCHANGED <<tree, head, cuts, cmd, patterns, results, prov, tally, exit, moved>>
  BY DEF WritePiece, batch, said, past
<1>2. ProcessTyped'
  BY <1>1 DEF HInv, ProcessTyped
<1>3. At' = At /\ Here' = Here
  BY <1>1 DEF At, Here
<1>4. Staged'
  BY <1>1, <1>3 DEF HInv, Staged, Updater
<1>5. ResultsTrue'
  BY <1>1, SameResults DEF Updater
<1>6. FilesTrue'
  <2>1. Here \in Entries
    BY <1>1, HereIs DEF HInv, Staged, Updater
  <2>2. todo \in Seq(TruePieces(Here)) /\ files[Here] \in Seq(TruePieces(Here))
    BY <1>1, <2>1 DEF HInv, FilesTrue, Writing
  <2>3. Head(todo) \in TruePieces(Here) /\ Tail(todo) \in Seq(TruePieces(Here))
    BY <1>1, <2>2
  <2>4. <<Head(todo)>> \in Seq(TruePieces(Here)) /\ Append(files[Here], Head(todo)) = files[Here] \o <<Head(todo)>>
    BY <2>2, <2>3
  <2>5. /\ files' = [e \in Entries |-> files'[e]]
        /\ \A e \in Entries : files'[e] \in {None} \cup Seq(TruePieces(e))
        /\ files'[Here] \in Seq(TruePieces(Here))
    BY <1>1, <2>4, FileExtended
  <2>6. \A e : TruePieces(e)' = TruePieces(e)
    BY <1>1, SameTruth
  <2>7. \A e \in Entries : Here = e => files'[e] \in Seq(TruePieces(e)) /\ todo' \in Seq(TruePieces(e))
    BY <1>1, <2>3, <2>5
  <2> QED BY <1>3, <2>5, <2>6, <2>7 DEF FilesTrue, Writing
<1>7. CutsTyped'
  BY <1>1, SameCuts
<1> QED BY <1>2, <1>4, <1>5, <1>6, <1>7 DEF HInv

LEMMA WriteFailsHInv == ASSUME HInv, WriteFails PROVE HInv'
<1>1. /\ CutWrite /\ pc \in Updater /\ At <= Len(patterns) /\ Counted("failed")
      /\ pc' = "updating" /\ todo' = <<>>
      /\ UNCHANGED <<tree, head, cmd, patterns, results, prov, exit, moved>>
  BY DEF WriteFails, CutWrite, HInv, Staged, Updater, batch, said, past
<1>2. "failed" \in DOMAIN NoTally
  BY DEF NoTally
<1>3. tally' \in [DOMAIN NoTally -> Nat] /\ Sum(tally') <= Len(patterns)
  BY <1>1, <1>2, CountedOnce
<1>4. ProcessTyped'
  BY <1>1, <1>3 DEF HInv, ProcessTyped, Updater
<1>5. Staged'
  BY <1>1 DEF HInv, Staged, Updater
<1>6. ResultsTrue'
  BY <1>1, SameResults
<1>7. CutsTyped' /\ FilesTrue'
  BY <1>1, CutIsTrue
<1> QED BY <1>4, <1>5, <1>6, <1>7 DEF HInv

LEMMA CrashHInv == ASSUME HInv, Crash PROVE HInv'
<1>1. /\ UNCHANGED <<tree, head, cmd, moved>> /\ pc' = "idle" /\ exit' = None
      /\ patterns' = <<>> /\ results' = <<>> /\ prov' = None /\ tally' = NoTally /\ todo' = <<>>
      /\ CutWrite \/ UNCHANGED <<files, cuts>>
  BY DEF Crash, CutWrite
<1>2. ProcessTyped' /\ Staged' /\ ResultsTrue'
  BY <1>1, NothingYet DEF HInv, ProcessTyped
<1>3. CutsTyped' /\ FilesTrue'
  BY <1>1, CutIsTrue, SameCuts, SameFiles
<1> QED BY <1>2, <1>3 DEF HInv

\* What was measured before the checkout moves is known to be out of date.
LEMMA CheckoutHInv == ASSUME HInv, NEW c \in Commits, Checkout(c) PROVE HInv'
<1>1. /\ head' = c /\ moved' = (moved \/ (pc = "analyzing" /\ results # <<>>))
      /\ UNCHANGED <<files, cuts, pc, cmd, patterns, results, prov, todo, tally, exit>>
      /\ head' \in Commits /\ tree' \in Trees[head']
  BY GoesOnTyped DEF Checkout, GoesOn, batch, said
<1>2. ProcessTyped'
  BY <1>1 DEF HInv, ProcessTyped
<1>3. At' = At /\ NewContents' = NewContents
  BY <1>1 DEF At, Here, NewContents, Contents, Block
<1>4. Staged'
  BY <1>1, <1>3 DEF HInv, Staged
<1>5. ResultsTrue'
  <2>1. \A d : MeasuredAt(d)' <=> MeasuredAt(d)
    BY <1>1 DEF MeasuredAt
  <2>2. pc = "analyzing" /\ ~moved' => results' = <<>>
    BY <1>1
  <2>3. pc' = "analyzing" /\ ~moved' => MeasuredAt(head)'
    BY <1>1, <2>2 DEF MeasuredAt
  <2>4. pc' \in Updater /\ ~moved' => \E d \in Commits : MeasuredAt(d)' /\ prov'.contracts_sha \in {d, Unknown}
    BY <1>1, <2>1 DEF HInv, ResultsTrue
  <2> QED BY <1>1, <2>3, <2>4 DEF HInv, ResultsTrue
<1>6. CutsTyped' /\ FilesTrue'
  BY <1>1, SameCuts, SameUpdate
<1> QED BY <1>2, <1>4, <1>5, <1>6 DEF HInv

\* No step of any process, and nobody's checkout, breaks the invariant.
LEMMA NextHInv == HInv /\ [Next]_vars => HInv'
<1> SUFFICES ASSUME HInv, [Next]_vars PROVE HInv'
  OBVIOUS
<1>1. CASE Usage
  BY <1>1, LaunchHInv DEF Usage, Exit, HInv, ProcessTyped
<1>2. ASSUME NEW e \in Entries, NEW c \in Commits, RunPair(e, c) PROVE HInv'
  <2>1. /\ Launch("pair") /\ pc' = "idle" /\ exit' \in {0, 1}
        /\ GoesOn(c) /\ moved' = (moved \/ c # head)
    BY <1>2 DEF RunPair, Exit
  <2>2. head' \in Commits /\ tree' \in Trees[head']
    BY <2>1, GoesOnTyped
  <2> QED BY <2>1, <2>2, LaunchHInv
<1>3. ASSUME NEW c \in {"all", "bench"}, Start(c) PROVE HInv'
  BY <1>3, LaunchHInv DEF Start, HInv, ProcessTyped
<1>4. ASSUME NEW available \in BOOLEAN, NEW listed \in Listings, Preflight(available, listed) PROVE HInv'
  BY <1>4, PreflightHInv
<1>5. ASSUME NEW c \in Commits, Analyze(c) PROVE HInv'
  BY <1>5, AnalyzeHInv
<1>6. ASSUME NEW time \in Times, CollectProvenance(time) PROVE HInv'
  BY <1>6, CollectHInv
<1>7. CASE FinishAll \/ FinishBench
  BY <1>7, FinishHInv
<1>8. CASE Skip
  BY <1>8, SkipHInv
<1>9. CASE UpdateFails
  BY <1>9, UpdateFailsHInv
<1>10. CASE Current
  BY <1>10, CurrentHInv
<1>11. CASE Read
  BY <1>11, ReadHInv
<1>12. CASE Truncate
  BY <1>12, TruncateHInv
<1>13. CASE WritePiece
  BY <1>13, WritePieceHInv
<1>14. CASE EndWrite
  BY <1>14, EndWriteHInv
<1>15. CASE WriteFails
  BY <1>15, WriteFailsHInv
<1>16. CASE Crash
  BY <1>16, CrashHInv
<1>17. ASSUME NEW c \in Commits, Checkout(c) PROVE HInv'
  BY <1>17, CheckoutHInv
<1>18. CASE UNCHANGED vars
  <2>1. UNCHANGED <<tree, files, head, cuts, pc, cmd, patterns, results, prov, todo, tally, exit, moved>>
    BY <1>18 DEF vars, shared, own, batch, said, past
  <2>2. ProcessTyped' /\ CutsTyped'
    BY <2>1, SameCuts DEF HInv, ProcessTyped
  <2>3. At' = At /\ NewContents' = NewContents
    BY <2>1 DEF At, Here, NewContents, Contents, Block
  <2>4. Staged'
    BY <2>1, <2>3 DEF HInv, Staged
  <2>5. ResultsTrue'
    BY <2>1 DEF HInv, ResultsTrue, MeasuredAt
  <2>6. FilesTrue'
    BY <2>1, SameUpdate
  <2> QED BY <2>2, <2>4, <2>5, <2>6 DEF HInv
<1> QED BY <1>1, <1>2, <1>3, <1>4, <1>5, <1>6, <1>7, <1>8, <1>9, <1>10, <1>11, <1>12, <1>13,
           <1>14, <1>15, <1>16, <1>17, <1>18 DEF Next, Step

LEMMA AlwaysHInv == Spec => []HInv
<1>1. Init => HInv
  BY InitHInv
<1>2. HInv /\ [Next]_vars => HInv'
  BY NextHInv
<1> QED BY <1>1, <1>2, PTL DEF Spec

\* TypeOK, for every directory and every number of patterns, commits and cuts.
THEOREM TypeCorrect == Spec => []TypeOK
<1>1. HInv => TypeOK
  BY HInvImplies
<1> QED BY <1>1, AlwaysHInv, PTL

\* OwnNumbers: what is measured in a BENCH.md are the numbers of its own
\* pattern, and, unless the checkout moved under a batch, those of the commit
\* the block names (main.rs:176-200).
THEOREM NumbersOwn == Spec => []OwnNumbers
<1>1. HInv => OwnNumbers
  BY HInvImplies
<1> QED BY <1>1, AlwaysHInv, PTL

------------------------------------------------------------------------------
\* BenchUpdates speaks of blocks and files as Harness does.
LEMMA SameFileOperators ==
  /\ \A f, b : Updates!Updated(f, b) = Updated(f, b)
  /\ \A e, d, p : Updates!render_bench_block(e, d, p) = render_bench_block(e, d, p)
  /\ \A counts : Updates!Diff(counts) = Diff(counts)
  /\ \A sides, e : Updates!Reading(sides, e) = Reading(sides, e)
  /\ \A piece : Updates!Rests(piece) = Rests(piece)
  /\ Updates!Stamps = Stamps
<1>1. \A f, x : Updates!Find(f, x) = Find(f, x)
  BY DEF Updates!Find, Find, Contains, Updates!Contains
<1>2. \A f : Updates!Gap(f) = Gap(f)
  BY DEF Updates!Gap, Gap, Last, Updates!Last
<1>3. \A f, b : Updates!Updated(f, b) = Updated(f, b)
  BY <1>1, <1>2 DEF Updates!Updated, Updated, Updates!Appended, Appended
<1>4. \A n : Updates!signed_delta(n) = signed_delta(n)
  BY DEF Updates!signed_delta, signed_delta
<1>5. \A e, d, p : Updates!render_bench_block(e, d, p) = render_bench_block(e, d, p)
  BY <1>4 DEF Updates!render_bench_block, render_bench_block
<1>6. \A counts : Updates!Diff(counts) = Diff(counts)
  BY DEF Updates!Diff, Diff, Updates!Metrics, Metrics
<1>7. \A piece : Updates!Rests(piece) = Rests(piece)
  BY DEF Updates!Rests, Rests
<1>8. Updates!Stamps = Stamps
  BY DEF Updates!Stamps, Stamps
<1>9. \A sides, e : Updates!Reading(sides, e) = Reading(sides, e)
  BY DEF Updates!Reading, Reading
<1> QED BY <1>3, <1>5, <1>6, <1>7, <1>8, <1>9

\* The first state of a process is one of files that nobody has updated yet.
LEMMA InitImplements == Init => Updates!Init
BY DEF Init, Intended, Updates!Init

\* No write in progress, before and after: nothing happens to the files.
LEMMA NoUpdate ==
  ASSUME UNCHANGED <<files, cuts>>, pc # "writing", pc' # "writing"
  PROVE  UNCHANGED Updates!vars
BY DEF Updates!vars, Intended

\* Emptying the file is the moment the update is done, by what is intended.
LEMMA TruncateImplements ==
  ASSUME HInv, Truncate
  PROVE  /\ Updates!Update(Here) /\ Here \in Entries
         /\ Intended = files /\ Intended' = [Intended EXCEPT ![Here] = NewContents]
<1>1. /\ pc = "opening" /\ pc' = "writing" /\ files' = [files EXCEPT ![Here] = <<>>]
      /\ UNCHANGED <<cuts, patterns, tally, todo>>
      /\ todo = NewContents /\ At <= Len(patterns) /\ results[At].delta # None
  BY DEF Truncate, HInv, Staged, batch
<1>2. Here' = Here /\ Here \in Entries
  BY <1>1, HereIs DEF Here, At, Updater
<1>3. PICK sides \in Commits \X Commits, stamp \in Stamps :
        Block = render_bench_block(Here, Diff(Reading(sides, Here)), stamp)
  BY <1>1, BlockIsTrue DEF Updater
<1>4. todo = Updated(Contents(Here), render_bench_block(Here, Diff(Reading(sides, Here)), stamp))
  BY <1>1, <1>3 DEF NewContents
<1>5. todo \in Seq(TruePieces(Here))
  BY <1>1, <1>2 DEF HInv, FilesTrue
<1>6. files = [e \in Entries |-> files[e]]
  BY DEF HInv, FilesTrue
<1>7. Intended = files
  BY <1>1 DEF Intended
<1>8. Intended' = [files EXCEPT ![Here] = todo]
  <2>1. Intended' = [files' EXCEPT ![Here] = files'[Here] \o todo]
    BY <1>1, <1>2 DEF Intended
  <2>2. files'[Here] = <<>>
    BY <1>1, <1>2, <1>6
  <2>3. <<>> \o todo = todo
    BY <1>5, ConcatEmptySeq
  <2> QED BY <1>1, <1>2, <1>6, <2>1, <2>2, <2>3
<1>9. Updates!Update(Here)
  <2>1. todo = Updates!Updated(IF Intended[Here] = None THEN <<>> ELSE Intended[Here],
                               Updates!render_bench_block(Here, Updates!Diff(Updates!Reading(sides, Here)), stamp))
    BY <1>4, <1>7, SameFileOperators DEF Contents
  <2>2. sides \in Commits \X Commits /\ stamp \in Updates!Stamps
    BY SameFileOperators
  <2> QED BY <1>1, <1>7, <1>8, <2>1, <2>2 DEF Updates!Update
<1> QED BY <1>1, <1>2, <1>7, <1>8, <1>9

\* A piece that gets to the file is one less to be written.
LEMMA WritePieceImplements == ASSUME HInv, WritePiece PROVE UNCHANGED Updates!vars
<1>1. /\ pc = "writing" /\ todo # <<>> /\ todo' = Tail(todo) /\ pc' = pc
      /\ files' = [files EXCEPT ![Here] = Append(files[Here], Head(todo))]
      /\ UNCHANGED <<cuts, patterns, tally>>
  BY DEF WritePiece, batch
<1>2. Here' = Here
  BY <1>1 DEF Here, At
<1>3. Here \in Entries
  BY <1>1, HereIs DEF HInv, Staged, Updater
<1>4. /\ files = [e \in Entries |-> files[e]]
      /\ files[Here] \in Seq(TruePieces(Here)) /\ todo \in Seq(TruePieces(Here))
  BY <1>1, <1>3 DEF HInv, FilesTrue, Writing
<1>5. Append(files[Here], Head(todo)) \o Tail(todo) = files[Here] \o todo
  <2>1. Head(todo) \in TruePieces(Here) /\ Tail(todo) \in Seq(TruePieces(Here))
    BY <1>1, <1>4
  <2>2. <<Head(todo)>> \in Seq(TruePieces(Here)) /\ Append(files[Here], Head(todo)) = files[Here] \o <<Head(todo)>>
    BY <1>4, <2>1
  <2>3. todo = <<Head(todo)>> \o Tail(todo)
    BY <1>1, <1>4
  <2>4. (files[Here] \o <<Head(todo)>>) \o Tail(todo) = files[Here] \o (<<Head(todo)>> \o Tail(todo))
    BY <1>4, <2>1, <2>2, ConcatAssociative
  <2> QED BY <2>2, <2>3, <2>4
<1>6. Intended' = [files' EXCEPT ![Here] = files'[Here] \o Tail(todo)]
  BY <1>1, <1>2 DEF Intended
<1>7. files'[Here] = Append(files[Here], Head(todo))
  BY <1>1, <1>3, <1>4
<1>8. Intended' = [files EXCEPT ![Here] = files[Here] \o todo]
  BY <1>1, <1>4, <1>5, <1>6, <1>7
<1> QED BY <1>1, <1>8 DEF Updates!vars, Intended

\* Once all of it is out, what is intended is what is there.
LEMMA AllIsOut ==
  ASSUME HInv, pc = "writing", todo = <<>>, UNCHANGED <<files, cuts>>, pc' # "writing"
  PROVE  UNCHANGED Updates!vars
<1>1. Here \in Entries
  BY HereIs DEF HInv, Staged, Updater
<1>2. files = [e \in Entries |-> files[e]] /\ files[Here] \in Seq(TruePieces(Here))
  BY <1>1 DEF HInv, FilesTrue, Writing
<1>3. files[Here] \o <<>> = files[Here]
  BY <1>2, ConcatEmptySeq
<1>4. Intended = [files EXCEPT ![Here] = files[Here]]
  BY <1>3 DEF Intended
<1>5. Intended = files
  BY <1>1, <1>2, <1>4
<1> QED BY <1>5 DEF Updates!vars, Intended

\* A write that is cut short leaves a beginning of what was intended.
LEMMA CutImplements ==
  ASSUME HInv, CutWrite, pc' # "writing"
  PROVE  Updates!Stop(Here) /\ Here \in Entries
<1> DEFINE i == Len(files[Here]) + 1
<1>1. pc = "writing" /\ todo # <<>> /\ Here \in Entries
  BY HereIs DEF CutWrite, HInv, Staged, Updater
<1>2. /\ files = [e \in Entries |-> files[e]]
      /\ files[Here] \in Seq(TruePieces(Here)) /\ todo \in Seq(TruePieces(Here))
  BY <1>1 DEF HInv, FilesTrue, Writing
<1>3. PICK rest \in Rests(Head(todo)) : files' = [files EXCEPT ![Here] = files[Here] \o rest]
  BY DEF CutWrite
<1>4. Intended = [files EXCEPT ![Here] = files[Here] \o todo] /\ Intended' = files'
  BY <1>1 DEF Intended
<1>5. Intended[Here] = files[Here] \o todo
  BY <1>1, <1>2, <1>4
<1>6. /\ files[Here] \o todo \in Seq(TruePieces(Here))
      /\ Len(files[Here] \o todo) = Len(files[Here]) + Len(todo)
      /\ Len(files[Here]) \in Nat /\ Len(todo) \in Nat /\ Len(todo) # 0
  BY <1>1, <1>2, ConcatProperties, LenProperties, EmptySeq
<1>7. i \in DOMAIN Intended[Here]
  BY <1>5, <1>6, LenProperties
<1>8. Intended[Here][i] = Head(todo)
  <2>1. (files[Here] \o todo)[i] = todo[1]
    <3>1. i \in 1..Len(files[Here]) + Len(todo) /\ ~(i <= Len(files[Here])) /\ i - Len(files[Here]) = 1
      BY <1>6
    <3> QED BY <1>2, <3>1, ConcatProperties
  <2>2. todo[1] = Head(todo)
    BY <1>1, <1>2
  <2> QED BY <1>5, <2>1, <2>2
<1>9. SubSeq(Intended[Here], 1, i - 1) = files[Here]
  <2>1. i - 1 = Len(files[Here])
    BY <1>6
  <2>2. SubSeq(files[Here] \o todo, 1, Len(files[Here])) = files[Here]
    BY <1>2, <1>6
  <2> QED BY <1>5, <2>1, <2>2
<1>10. Intended[Here] # None
  <2>1. TruePieces(Here) \subseteq Pieces
    BY DEF TruePieces
  <2>2. Intended[Here] \in Seq(Pieces)
    BY <1>5, <1>6, <2>1, SeqMonotonic
  <2> QED BY <2>2, HarnessAssumption DEF Pieces
<1>11. cuts[Here] < MaxCuts /\ cuts' = [cuts EXCEPT ![Here] = cuts[Here] + 1]
  <2>1. cuts \in [Entries -> Nat] /\ IsFiniteSet(Entries) /\ MaxCuts \in Nat
    BY HarnessAssumption DEF HInv, CutsTyped
  <2>2. PICK e \in Entries : e = Here
    BY <1>1
  <2>3. /\ SumOver(cuts, Entries) = SumOver(cuts, Entries \ {e}) + cuts[e]
        /\ SumOver(cuts, Entries \ {e}) \in Nat /\ cuts[e] \in Nat
    BY <2>1, SumOverSplit, SumOverType
  <2>4. Cuts < MaxCuts /\ cuts' = [cuts EXCEPT ![Here] = cuts[Here] + 1]
    BY DEF CutWrite
  <2> QED BY <2>1, <2>2, <2>3, <2>4 DEF Cuts
<1>12. Intended' = [Intended EXCEPT ![Here] = SubSeq(Intended[Here], 1, i - 1) \o rest]
  BY <1>1, <1>2, <1>3, <1>4, <1>9
<1>13. rest \in Updates!Rests(Intended[Here][i])
  BY <1>8, SameFileOperators
<1> HIDE DEF i
<1>14. Updates!Stop(Here)
  BY <1>7, <1>10, <1>11, <1>12, <1>13 DEF Updates!Stop
<1> QED BY <1>1, <1>14

\* Every step of a process is an update of one file, a write that stops, or
\* nothing to the files; so are a kill and a checkout.
LEMMA StepImplements == HInv /\ [Next]_vars => UNCHANGED Updates!vars \/ Updates!Next
<1> SUFFICES ASSUME HInv, [Next]_vars PROVE UNCHANGED Updates!vars \/ Updates!Next
  OBVIOUS
<1>1. ASSUME NEW c, Launch(c), pc' # "writing" PROVE UNCHANGED Updates!vars
  <2>1. pc = "idle" /\ UNCHANGED <<files, cuts>>
    BY <1>1 DEF Launch
  <2> QED BY <1>1, <2>1, NoUpdate
<1>2. CASE Usage
  BY <1>1, <1>2 DEF Usage, Exit
<1>3. ASSUME NEW e \in Entries, NEW c \in Commits, RunPair(e, c) PROVE UNCHANGED Updates!vars
  <2>1. Launch("pair") /\ pc' = "idle"
    BY <1>3 DEF RunPair, Exit
  <2> QED BY <1>1, <2>1
<1>4. ASSUME NEW c \in {"all", "bench"}, Start(c) PROVE UNCHANGED Updates!vars
  BY <1>1, <1>4 DEF Start
<1>5. ASSUME NEW available \in BOOLEAN, NEW listed \in Listings, Preflight(available, listed)
      PROVE  UNCHANGED Updates!vars
  <2>1. pc = "preflight" /\ pc' # "writing" /\ UNCHANGED <<files, cuts>>
    BY <1>5 DEF Preflight, Exit, shared
  <2> QED BY <2>1, NoUpdate
<1>6. ASSUME NEW c \in Commits, Analyze(c) PROVE UNCHANGED Updates!vars
  BY <1>6, NoUpdate DEF Analyze
<1>7. ASSUME NEW time \in Times, CollectProvenance(time) PROVE UNCHANGED Updates!vars
  BY <1>7, NoUpdate DEF CollectProvenance, shared
<1>8. CASE FinishAll \/ FinishBench
  BY <1>8, NoUpdate DEF FinishAll, FinishBench, Exit, shared
<1>9. CASE Skip
  BY <1>9, NoUpdate DEF Skip, shared
<1>10. CASE UpdateFails
  BY <1>10, NoUpdate DEF UpdateFails, Updating, shared
<1>11. CASE Current \/ Read
  BY <1>11, NoUpdate DEF Current, Read, Updating, shared
<1>12. CASE Truncate
  BY <1>12, TruncateImplements DEF Updates!Next
<1>13. CASE WritePiece
  BY <1>13, WritePieceImplements
<1>14. CASE EndWrite
  BY <1>14, AllIsOut DEF EndWrite, shared
<1>15. CASE WriteFails
  BY <1>15, CutImplements DEF WriteFails, Updates!Next
<1>16. CASE Crash
  <2>1. CASE CutWrite
    BY <1>16, <2>1, CutImplements DEF Crash, Updates!Next
  <2>2. CASE ~(pc = "writing" /\ todo # <<>>) /\ UNCHANGED <<files, cuts>>
    <3>1. CASE pc = "writing"
      BY <1>16, <2>2, <3>1, AllIsOut DEF Crash
    <3>2. CASE pc # "writing"
      BY <1>16, <2>2, <3>2, NoUpdate DEF Crash
    <3> QED BY <3>1, <3>2
  <2> QED BY <1>16, <2>1, <2>2 DEF Crash
<1>17. ASSUME NEW c \in Commits, Checkout(c) PROVE UNCHANGED Updates!vars
  BY <1>17 DEF Checkout, Updates!vars, Intended, Here, At, batch
<1>18. CASE UNCHANGED vars
  BY <1>18 DEF vars, shared, own, batch, Updates!vars, Intended, Here, At
<1> QED BY <1>2, <1>3, <1>4, <1>5, <1>6, <1>7, <1>8, <1>9, <1>10, <1>11, <1>12, <1>13,
           <1>14, <1>15, <1>16, <1>17, <1>18 DEF Next, Step

\* ImplementsUpdates: the harness keeps what BenchUpdates promises.  With what
\* a write has still to put out taken as done, every step is an update of one
\* file with its own pattern's block, or a write that stops (lib.rs:394-439).
THEOREM HarnessUpdates == Spec => ImplementsUpdates
<1>1. Init => Updates!Init
  BY InitImplements
<1>2. HInv /\ [Next]_vars => [UNCHANGED Updates!vars \/ Updates!Next]_vars
  BY StepImplements
<1> QED BY <1>1, <1>2, AlwaysHInv, PTL DEF Spec, ImplementsUpdates

------------------------------------------------------------------------------
\* Markers in a sequence of pieces.
LEMMA FindAt ==
  ASSUME NEW S, NEW f \in Seq(S), NEW x, NEW k \in 1..Len(f),
         f[k] = x, \A j \in 1..(k - 1) : f[j] # x
  PROVE  Find(f, x) = k
<1> DEFINE n == Find(f, x)
<1>1. Len(f) \in Nat /\ k \in 1..Len(f)
  BY LenProperties
<1>2. n \in 0..Len(f) /\ (n # 0 => f[n] = x /\ \A j \in 1..(n - 1) : f[j] # x)
      /\ (n = 0 => \A j \in 1..Len(f) : f[j] # x)
  BY FindIs
<1> HIDE DEF n
<1>3. n # 0
  BY <1>1, <1>2
<1>4. ~(n < k)
  <2> SUFFICES ASSUME n < k PROVE FALSE
    OBVIOUS
  <2>1. n \in 1..(k - 1)
    BY <1>1, <1>2, <1>3
  <2> QED BY <1>2, <1>3, <2>1
<1>5. ~(k < n)
  <2> SUFFICES ASSUME k < n PROVE FALSE
    OBVIOUS
  <2>1. k \in 1..(n - 1)
    BY <1>1, <1>2
  <2> QED BY <1>2, <1>3, <2>1
<1>6. n = k
  BY <1>1, <1>2, <1>4, <1>5
<1> QED BY <1>6 DEF n

LEMMA FindNone ==
  ASSUME NEW S, NEW f \in Seq(S), NEW x, \A j \in 1..Len(f) : f[j] # x
  PROVE  Find(f, x) = 0
<1>1. Len(f) \in Nat /\ Find(f, x) \in 0..Len(f) /\ (Find(f, x) # 0 => f[Find(f, x)] = x)
  BY FindIs, LenProperties
<1> QED BY <1>1

\* Pieces without a marker among them.
Clean(f) == \A i \in 1..Len(f) : f[i] \notin {BENCH_BEGIN, BENCH_END}

Blocks == {<<BENCH_BEGIN, body, BENCH_END>> : body \in Bodies}

LEMMA BlockTyped ==
  ASSUME NEW b \in Blocks
  PROVE  /\ b \in Seq(Pieces) /\ Len(b) = 3
         /\ b[1] = BENCH_BEGIN /\ b[3] = BENCH_END /\ b[2] \notin {BENCH_BEGIN, BENCH_END}
<1>1. PICK body \in Bodies : b = <<BENCH_BEGIN, body, BENCH_END>>
  BY DEF Blocks
<1>2. BENCH_BEGIN \in Pieces /\ BENCH_END \in Pieces /\ body \in Pieces
  BY DEF Pieces, Marks
<1>3. body \notin {BENCH_BEGIN, BENCH_END}
  BY HarnessAssumption DEF Marks
<1> QED BY <1>1, <1>2, <1>3

\* g is one after the other.
Joined(g, s, t) ==
  /\ Len(g) = Len(s) + Len(t)
  /\ \A i \in 1..(Len(s) + Len(t)) : g[i] = IF i <= Len(s) THEN s[i] ELSE t[i - Len(s)]

LEMMA ConcatJoins ==
  ASSUME NEW S, NEW s \in Seq(S), NEW t \in Seq(S)
  PROVE  s \o t \in Seq(S) /\ Joined(s \o t, s, t)
BY ConcatProperties DEF Joined

\* g is a block with clean pieces around it.
Between(g, pre, post) ==
  /\ g \in Seq(Pieces) /\ Len(g) = Len(pre) + 3 + Len(post)
  /\ Len(pre) \in Nat /\ Len(post) \in Nat
  /\ Find(g, BENCH_BEGIN) = Len(pre) + 1 /\ Find(g, BENCH_END) = Len(pre) + 3
  /\ SubSeq(g, 1, Len(pre)) = pre
  /\ SubSeq(g, Len(pre) + 4, Len(g)) = post
  /\ \A j \in 1..Len(g) :
       /\ j <= Len(pre) => g[j] = pre[j]
       /\ j = Len(pre) + 1 => g[j] = BENCH_BEGIN
       /\ j = Len(pre) + 2 => g[j] \notin {BENCH_BEGIN, BENCH_END}
       /\ j = Len(pre) + 3 => g[j] = BENCH_END
       /\ j > Len(pre) + 3 => g[j] = post[j - Len(pre) - 3]

\* A block between clean pieces is where it is looked for, whole, and the only one.
LEMMA BlockBetween ==
  ASSUME NEW pre \in Seq(Pieces), NEW post \in Seq(Pieces), Clean(pre), Clean(post),
         NEW b \in Blocks
  PROVE  Between(pre \o b \o post, pre, post)
<1> DEFINE g == pre \o b \o post
           n == Len(pre)
           m == Len(post)
<1>1. n \in Nat /\ m \in Nat
  BY LenProperties
<1>2. /\ b \in Seq(Pieces) /\ Len(b) = 3
      /\ b[1] = BENCH_BEGIN /\ b[3] = BENCH_END /\ b[2] \notin {BENCH_BEGIN, BENCH_END}
  BY BlockTyped
<1>3. /\ pre \o b \in Seq(Pieces) /\ Len(pre \o b) = n + 3
      /\ \A i \in 1..(n + 3) : (pre \o b)[i] = IF i <= n THEN pre[i] ELSE b[i - n]
  <2>1. /\ pre \o b \in Seq(Pieces) /\ Len(pre \o b) = Len(pre) + Len(b)
        /\ \A i \in 1..(Len(pre) + Len(b)) : (pre \o b)[i] = IF i <= Len(pre) THEN pre[i] ELSE b[i - Len(pre)]
    <3>1. pre \o b \in Seq(Pieces) /\ Joined(pre \o b, pre, b)
      BY ONLY pre \in Seq(Pieces), <1>2, ConcatJoins
    <3> QED BY ONLY <3>1 DEF Joined
  <2> QED BY <1>2, <2>1
<1>4. /\ g \in Seq(Pieces) /\ Len(g) = n + 3 + m
      /\ \A i \in 1..(n + 3 + m) : g[i] = IF i <= n + 3 THEN (pre \o b)[i] ELSE post[i - (n + 3)]
  <2> DEFINE s == pre \o b
  <2>1. s \in Seq(Pieces) /\ Len(s) = n + 3
    BY <1>3
  <2> HIDE DEF s
  <2>2. /\ s \o post \in Seq(Pieces) /\ Len(s \o post) = Len(s) + Len(post)
        /\ \A i \in 1..(Len(s) + Len(post)) : (s \o post)[i] = IF i <= Len(s) THEN s[i] ELSE post[i - Len(s)]
    BY <2>1, ConcatProperties
  <2>3. /\ s \o post \in Seq(Pieces) /\ Len(s \o post) = n + 3 + m
        /\ \A i \in 1..(n + 3 + m) : (s \o post)[i] = IF i <= n + 3 THEN s[i] ELSE post[i - (n + 3)]
    BY <2>1, <2>2
  <2> QED BY <2>3 DEF s
<1> HIDE DEF g, n, m
<1>5. \A j \in 1..Len(g) :
        /\ j <= n => g[j] = pre[j]
        /\ j = n + 1 => g[j] = BENCH_BEGIN
        /\ j = n + 2 => g[j] \notin {BENCH_BEGIN, BENCH_END}
        /\ j = n + 3 => g[j] = BENCH_END
        /\ j > n + 3 => g[j] = post[j - n - 3]
  <2> SUFFICES ASSUME NEW j \in 1..(n + 3 + m)
               PROVE  /\ j <= n => g[j] = pre[j]
                      /\ j = n + 1 => g[j] = BENCH_BEGIN
                      /\ j = n + 2 => g[j] \notin {BENCH_BEGIN, BENCH_END}
                      /\ j = n + 3 => g[j] = BENCH_END
                      /\ j > n + 3 => g[j] = post[j - n - 3]
    BY <1>4
  <2>1. j <= n + 3 => j \in 1..(n + 3) /\ g[j] = IF j <= n THEN pre[j] ELSE b[j - n]
    <3>1. j <= n + 3 => j \in 1..(n + 3)
      BY <1>1
    <3>2. j <= n + 3 => g[j] = (pre \o b)[j]
      BY <1>4
    <3> QED BY <1>3, <3>1, <3>2
  <2>2. j > n + 3 => g[j] = post[j - n - 3]
    <3>1. j - (n + 3) = j - n - 3
      BY <1>1
    <3> QED BY <1>1, <1>4, <3>1
  <2>3. j = n + 1 => ~(j <= n) /\ j <= n + 3 /\ j - n = 1
    BY <1>1
  <2>4. j = n + 2 => ~(j <= n) /\ j <= n + 3 /\ j - n = 2
    BY <1>1
  <2>5. j = n + 3 => ~(j <= n) /\ j <= n + 3 /\ j - n = 3
    BY <1>1
  <2>6. j <= n => j <= n + 3
    BY <1>1
  <2> QED BY <1>2, <2>1, <2>2, <2>3, <2>4, <2>5, <2>6
<1>6. \A j \in 1..n : g[j] \notin {BENCH_BEGIN, BENCH_END}
  BY <1>1, <1>4, <1>5 DEF Clean, n
<1>7. n + 1 \in 1..Len(g) /\ n + 2 \in 1..Len(g) /\ n + 3 \in 1..Len(g) /\ (n + 1) - 1 = n
  BY <1>1, <1>4
<1>8. Find(g, BENCH_BEGIN) = n + 1
  <2>1. g[n + 1] = BENCH_BEGIN /\ \A j \in 1..((n + 1) - 1) : g[j] # BENCH_BEGIN
    BY <1>5, <1>6, <1>7
  <2> QED BY <1>4, <1>7, <2>1, FindAt
<1>9. Find(g, BENCH_END) = n + 3
  <2>1. \A j \in 1..((n + 3) - 1) : j \in 1..n \/ j = n + 1 \/ j = n + 2
    BY <1>1
  <2>2. \A j \in 1..((n + 3) - 1) : g[j] # BENCH_END
    BY <1>5, <1>6, <1>7, <2>1, HarnessAssumption
  <2>3. g[n + 3] = BENCH_END
    BY <1>5, <1>7
  <2> HIDE DEF g
  <2>4. g \in Seq(Pieces) /\ n + 3 \in 1..Len(g)
    BY <1>4, <1>7
  <2> QED BY ONLY <2>2, <2>3, <2>4, FindAt
<1>10. SubSeq(g, 1, n) = pre
  <2>1. \A i \in 1..n : g[i] = pre[i] /\ pre[i] \in Pieces
    BY <1>1, <1>4, <1>5, ElementOfSeq DEF n
  <2>2. /\ SubSeq(g, 1, n) \in Seq(Pieces) /\ Len(SubSeq(g, 1, n)) = n
        /\ \A i \in 1..n : SubSeq(g, 1, n)[i] = g[i]
    <3>1. \A i \in 1..n : g[i] \in Pieces
      BY <2>1
    <3>2. /\ SubSeq(g, 1, n) \in Seq(Pieces) /\ Len(SubSeq(g, 1, n)) = (IF 1 <= n THEN n - 1 + 1 ELSE 0)
          /\ \A i \in 1..(n - 1 + 1) : SubSeq(g, 1, n)[i] = g[1 + i - 1]
      BY <1>1, <3>1, SubSeqProperties
    <3> QED BY <1>1, <3>2
  <2> QED BY <2>1, <2>2, SeqEqual DEF n
<1>11. SubSeq(g, n + 4, Len(g)) = post
  <2>1. \A i \in (n + 4)..Len(g) : g[i] \in Pieces
    BY <1>1, <1>4, ElementOfSeq
  <2>2. /\ SubSeq(g, n + 4, Len(g)) \in Seq(Pieces)
        /\ Len(SubSeq(g, n + 4, Len(g))) = (IF n + 4 <= Len(g) THEN Len(g) - (n + 4) + 1 ELSE 0)
        /\ \A i \in 1..(Len(g) - (n + 4) + 1) : SubSeq(g, n + 4, Len(g))[i] = g[(n + 4) + i - 1]
    BY <1>1, <1>4, <2>1, SubSeqProperties
  <2>3. Len(SubSeq(g, n + 4, Len(g))) = m
    BY <1>1, <1>4, <2>2
  <2>4. \A i \in 1..m : SubSeq(g, n + 4, Len(g))[i] = post[i]
    <3> SUFFICES ASSUME NEW i \in 1..m PROVE SubSeq(g, n + 4, Len(g))[i] = post[i]
      OBVIOUS
    <3>1. /\ i \in 1..(Len(g) - (n + 4) + 1) /\ (n + 4) + i - 1 \in 1..Len(g)
          /\ (n + 4) + i - 1 > n + 3 /\ ((n + 4) + i - 1) - n - 3 = i
      BY <1>1, <1>4
    <3> QED BY <1>5, <2>2, <3>1
  <2> QED BY <2>2, <2>3, <2>4, SeqEqual DEF m
<1> QED BY <1>1, <1>4, <1>5, <1>8, <1>9, <1>10, <1>11 DEF g, n, m, Between

\* ... so that an update puts another in its place, and nothing else changes.
LEMMA BlockReplaced ==
  ASSUME NEW pre \in Seq(Pieces), NEW post \in Seq(Pieces), Clean(pre), Clean(post),
         NEW b \in Blocks, NEW c \in Blocks
  PROVE  Updated(pre \o b \o post, c) = pre \o c \o post
<1> DEFINE g == pre \o b \o post
           n == Len(pre)
<1>1. /\ n \in Nat
      /\ Find(g, BENCH_BEGIN) = n + 1 /\ Find(g, BENCH_END) = n + 3
      /\ SubSeq(g, 1, n) = pre /\ SubSeq(g, n + 4, Len(g)) = post
  <2>1. Between(g, pre, post)
    BY BlockBetween
  <2> QED BY <2>1 DEF Between
<1> HIDE DEF g, n
<1>2. (n + 1) - 1 = n /\ (n + 3) + 1 = n + 4 /\ n + 1 # 0 /\ n + 3 # 0
  BY <1>1
<1>3. Updated(g, c) = pre \o c \o post
  BY <1>1, <1>2 DEF Updated
<1> QED BY <1>3 DEF g

\* It is one block.
LEMMA BetweenIsOne ==
  ASSUME NEW pre \in Seq(Pieces), NEW post \in Seq(Pieces), Clean(pre), Clean(post),
         NEW b \in Blocks
  PROVE  OneBlock(pre \o b \o post) /\ Find(pre \o b \o post, BENCH_BEGIN) # 0
<1> DEFINE g == pre \o b \o post
           n == Len(pre)
           m == Len(post)
<1>1. /\ n \in Nat /\ m \in Nat /\ g \in Seq(Pieces) /\ Len(g) = n + 3 + m
      /\ Find(g, BENCH_BEGIN) = n + 1
      /\ \A j \in 1..Len(g) :
           /\ j <= n => g[j] = pre[j]
           /\ j = n + 1 => g[j] = BENCH_BEGIN
           /\ j = n + 2 => g[j] \notin {BENCH_BEGIN, BENCH_END}
           /\ j = n + 3 => g[j] = BENCH_END
           /\ j > n + 3 => g[j] = post[j - n - 3]
  <2>1. Between(g, pre, post)
    BY BlockBetween
  <2> QED BY <2>1 DEF Between
<1>2. DOMAIN g = 1..Len(g)
  BY <1>1, LenProperties
<1> HIDE DEF g, n, m
<1>3. (n + 1) + 2 = n + 3 /\ n + 3 \in DOMAIN g /\ n + 1 # 0
  BY <1>1, <1>2
<1>4. ASSUME NEW j \in DOMAIN g, g[j] \in {BENCH_BEGIN, BENCH_END} PROVE j \in {n + 1, n + 3}
  <2>1. j \in 1..(n + 3 + m)
    BY <1>1, <1>2
  <2>2. CASE j <= n
    BY <1>1, <1>2, <1>4, <2>1, <2>2 DEF Clean, n
  <2>3. CASE j > n + 3
    <3>1. j - n - 3 \in 1..m
      BY <1>1, <2>1, <2>3
    <3> QED BY <1>1, <1>2, <1>4, <2>3, <3>1 DEF Clean, m
  <2>4. j <= n \/ j = n + 1 \/ j = n + 2 \/ j = n + 3 \/ j > n + 3
    BY <1>1, <2>1
  <2> QED BY <1>1, <1>2, <1>4, <2>2, <2>3, <2>4
<1>5. OneBlock(g)
  BY <1>1, <1>2, <1>3, <1>4 DEF OneBlock
<1> QED BY <1>1, <1>3, <1>5 DEF g

\* A file of one block or none, by what is around the place of the block.
Plain == Pieces \ {BENCH_BEGIN, BENCH_END}

Ahead(o)  == IF Find(o, BENCH_BEGIN) # 0 THEN SubSeq(o, 1, Find(o, BENCH_BEGIN) - 1)
             ELSE o \o Gap(o)
Behind(o) == IF Find(o, BENCH_BEGIN) # 0 THEN SubSeq(o, Find(o, BENCH_BEGIN) + 3, Len(o))
             ELSE <<Newline>>

Around(o, b) == Ahead(o) \o b \o Behind(o)

LEMMA PlainIsClean == \A f \in Seq(Plain) : f \in Seq(Pieces) /\ Clean(f)
<1> SUFFICES ASSUME NEW f \in Seq(Plain) PROVE f \in Seq(Pieces) /\ Clean(f)
  OBVIOUS
<1>1. f \in Seq(Pieces)
  BY SeqMonotonic DEF Plain
<1>2. \A i \in 1..Len(f) : f[i] \in Plain
  BY ElementOfSeq
<1> QED BY <1>1, <1>2 DEF Clean, Plain

LEMMA GapPlain == \A f : Gap(f) \in Seq(Plain) /\ <<Newline>> \in Seq(Plain)
<1> SUFFICES ASSUME NEW f PROVE Gap(f) \in Seq(Plain) /\ <<Newline>> \in Seq(Plain)
  OBVIOUS
<1>1. Newline \in Plain
  BY HarnessAssumption DEF Plain, Pieces, Marks
<1>2. <<>> \in Seq(Plain) /\ <<Newline>> \in Seq(Plain)
  BY <1>1
<1> QED BY <1>2, ConcatProperties DEF Gap

LEMMA Surroundings ==
  ASSUME NEW o \in Seq(Pieces), OneBlock(o)
  PROVE  /\ Ahead(o) \in Seq(Plain) /\ Behind(o) \in Seq(Plain)
         /\ \A b \in Blocks : Updated(o, b) = Around(o, b)
<1> DEFINE k == Find(o, BENCH_BEGIN)
<1>1. Len(o) \in Nat /\ DOMAIN o = 1..Len(o) /\ k \in 0..Len(o)
      /\ \A i \in 1..Len(o) : o[i] \in Pieces
  BY LenProperties, FindIs, ElementOfSeq
<1>2. k # 0 => o[k] = BENCH_BEGIN
  BY FindIs
<1>3. k # 0 => k + 2 \in DOMAIN o /\ o[k + 2] = BENCH_END
  BY DEF OneBlock
<1>4. \A i \in DOMAIN o : o[i] \in {BENCH_BEGIN, BENCH_END} => k # 0 /\ i \in {k, k + 2}
  BY DEF OneBlock
<1>5. CASE k # 0
  <2> HIDE DEF k
  <2>1. \A i \in 1..(k - 1) : i \in 1..Len(o) /\ i # k /\ i # k + 2
    BY <1>1, <1>5
  <2>2. \A i \in 1..(k - 1) : o[i] \in Plain
    BY <1>1, <1>4, <2>1 DEF Plain
  <2>3. \A i \in (k + 3)..Len(o) : i \in 1..Len(o) /\ i # k /\ i # k + 2
    BY <1>1, <1>5
  <2>4. \A i \in (k + 3)..Len(o) : o[i] \in Plain
    BY <1>1, <1>4, <2>3 DEF Plain
  <2>5. SubSeq(o, 1, k - 1) \in Seq(Plain) /\ SubSeq(o, k + 3, Len(o)) \in Seq(Plain)
    BY <1>1, <2>2, <2>4, SubSeqProperties
  <2>6. Find(o, BENCH_END) = k + 2
    <3>1. \A j \in 1..((k + 2) - 1) : j \in DOMAIN o /\ j # k + 2
      BY <1>1, <1>3, <1>5
    <3>2. \A j \in 1..((k + 2) - 1) : o[j] # BENCH_END
      BY <1>2, <1>4, <1>5, <3>1, HarnessAssumption
    <3>3. k + 2 \in 1..Len(o) /\ o[k + 2] = BENCH_END
      BY <1>1, <1>3, <1>5
    <3> QED BY <3>2, <3>3, FindAt
  <2>7. (k + 2) + 1 = k + 3 /\ k + 2 # 0
    BY <1>1
  <2>8. \A b \in Blocks : Updated(o, b) = SubSeq(o, 1, k - 1) \o b \o SubSeq(o, k + 3, Len(o))
    BY <1>5, <2>6, <2>7 DEF Updated, k
  <2> QED BY <1>5, <2>5, <2>8 DEF Ahead, Behind, Around, k
<1>6. CASE k = 0
  <2>1. \A i \in 1..Len(o) : o[i] \in Plain /\ o[i] # BENCH_END
    BY <1>1, <1>4, <1>6 DEF Plain
  <2>2. o \in Seq(Plain)
    <3>1. SubSeq(o, 1, Len(o)) \in Seq(Plain)
      BY <1>1, <2>1, SubSeqProperties
    <3> QED BY <3>1, SubSeqFull
  <2>3. Gap(o) \in Seq(Plain) /\ <<Newline>> \in Seq(Plain)
    BY GapPlain
  <2>4. o \o Gap(o) \in Seq(Plain)
    BY <2>2, <2>3, ConcatProperties
  <2>5. \A b \in Blocks : Updated(o, b) = o \o Gap(o) \o b \o <<Newline>>
    BY <1>6 DEF Updated, Appended
  <2> QED BY <1>6, <2>3, <2>4, <2>5 DEF Ahead, Behind, Around
<1> QED BY <1>5, <1>6

\* Whatever block was put there before, the next takes its place.
LEMMA AroundUpdated ==
  ASSUME NEW o \in Seq(Pieces), OneBlock(o), NEW b \in Blocks
  PROVE  /\ Around(o, b) \in Seq(Pieces)
         /\ OneBlock(Around(o, b)) /\ Find(Around(o, b), BENCH_BEGIN) # 0
         /\ \A c \in Blocks : Updated(Around(o, b), c) = Around(o, c)
<1>1. /\ Ahead(o) \in Seq(Pieces) /\ Clean(Ahead(o))
      /\ Behind(o) \in Seq(Pieces) /\ Clean(Behind(o))
  BY Surroundings, PlainIsClean
<1>2. Around(o, b) \in Seq(Pieces)
  BY <1>1, BlockBetween DEF Around, Between
<1>3. OneBlock(Around(o, b)) /\ Find(Around(o, b), BENCH_BEGIN) # 0
  BY <1>1, BetweenIsOne DEF Around
<1>4. ASSUME NEW c \in Blocks PROVE Updated(Around(o, b), c) = Around(o, c)
  BY <1>1, BlockReplaced DEF Around
<1> QED BY <1>2, <1>3, <1>4

------------------------------------------------------------------------------
\* What is left of a file after writes that were cut short: a BENCH_END has
\* every BENCH_BEGIN before it, one at least, and is the only one.
Mendable(f) ==
  \A i \in 1..Len(f) : f[i] = BENCH_END =>
    /\ \E k \in 1..(i - 1) : f[k] = BENCH_BEGIN
    /\ \A j \in 1..Len(f) : (f[j] = BENCH_END => j = i) /\ (f[j] = BENCH_BEGIN => j < i)

LEMMA OneIsMendable ==
  ASSUME NEW f \in Seq(Pieces), OneBlock(f)
  PROVE  Mendable(f)
<1> DEFINE k == Find(f, BENCH_BEGIN)
<1>1. Len(f) \in Nat /\ DOMAIN f = 1..Len(f) /\ k \in 0..Len(f)
  BY LenProperties, FindIs
<1>2. k # 0 => f[k] = BENCH_BEGIN
  BY FindIs
<1>3. k # 0 => k + 2 \in DOMAIN f /\ f[k + 2] = BENCH_END
  BY DEF OneBlock
<1>4. \A i \in DOMAIN f : f[i] \in {BENCH_BEGIN, BENCH_END} => k # 0 /\ i \in {k, k + 2}
  BY DEF OneBlock
<1> HIDE DEF k
<1>5. ASSUME NEW i \in 1..Len(f), f[i] = BENCH_END PROVE k # 0 /\ i = k + 2
  BY <1>1, <1>2, <1>4, <1>5, HarnessAssumption
<1>6. ASSUME NEW i \in 1..Len(f), f[i] = BENCH_BEGIN PROVE k # 0 /\ i = k
  BY <1>1, <1>3, <1>4, <1>6, HarnessAssumption
<1>7. k # 0 => k \in 1..((k + 2) - 1) /\ k < k + 2
  BY <1>1
<1> QED BY <1>2, <1>5, <1>6, <1>7 DEF Mendable

\* With both markers there, an update makes one whole block of it.
LEMMA EndedIsHealed ==
  ASSUME NEW f \in Seq(Pieces), Mendable(f), Find(f, BENCH_END) # 0, NEW b \in Blocks
  PROVE  \E pre, post \in Seq(Plain) : Updated(f, b) = pre \o b \o post
<1> DEFINE k == Find(f, BENCH_BEGIN)
           i == Find(f, BENCH_END)
<1>1. /\ Len(f) \in Nat /\ k \in 0..Len(f) /\ i \in 1..Len(f) /\ f[i] = BENCH_END
      /\ \A j \in 1..Len(f) : f[j] \in Pieces
      /\ k # 0 => \A j \in 1..(k - 1) : f[j] # BENCH_BEGIN
      /\ k = 0 => \A j \in 1..Len(f) : f[j] # BENCH_BEGIN
  BY LenProperties, FindIs, ElementOfSeq
<1> HIDE DEF k, i
<1>2. /\ \E j \in 1..(i - 1) : f[j] = BENCH_BEGIN
      /\ \A j \in 1..Len(f) : (f[j] = BENCH_END => j = i) /\ (f[j] = BENCH_BEGIN => j < i)
  BY <1>1 DEF Mendable
<1>3. k # 0
  <2>1. \A j \in 1..(i - 1) : j \in 1..Len(f)
    BY <1>1
  <2> QED BY <1>1, <1>2, <2>1
<1>4. k < i
  BY <1>1, <1>2, <1>3, FindIs DEF k
<1>5. \A j \in 1..(k - 1) : f[j] \in Plain
  <2>1. \A j \in 1..(k - 1) : j \in 1..Len(f) /\ j # i
    BY <1>1, <1>4
  <2> QED BY <1>1, <1>2, <1>3, <2>1 DEF Plain
<1>6. \A j \in (i + 1)..Len(f) : f[j] \in Plain
  <2>1. \A j \in (i + 1)..Len(f) : j \in 1..Len(f) /\ j # i /\ ~(j < i)
    BY <1>1
  <2> QED BY <1>1, <1>2, <2>1 DEF Plain
<1>7. SubSeq(f, 1, k - 1) \in Seq(Plain) /\ SubSeq(f, i + 1, Len(f)) \in Seq(Plain)
  BY <1>1, <1>5, <1>6, SubSeqProperties
<1>8. Updated(f, b) = SubSeq(f, 1, k - 1) \o b \o SubSeq(f, i + 1, Len(f))
  BY <1>1, <1>3 DEF Updated, k, i
<1> QED BY <1>7, <1>8

\* Without a BENCH_END, an update appends a block, and that has one.
LEMMA AppendedIsMendable ==
  ASSUME NEW f \in Seq(Pieces), Find(f, BENCH_END) = 0, NEW b \in Blocks
  PROVE  /\ Updated(f, b) \in Seq(Pieces) /\ Mendable(Updated(f, b))
         /\ Find(Updated(f, b), BENCH_END) # 0
<1> DEFINE pre == f \o Gap(f)
           g   == Updated(f, b)
           n   == Len(pre)
<1>1. /\ b \in Seq(Pieces) /\ Len(b) = 3
      /\ b[1] = BENCH_BEGIN /\ b[3] = BENCH_END /\ b[2] \notin {BENCH_BEGIN, BENCH_END}
  BY BlockTyped
<1>2. Gap(f) \in Seq(Pieces) /\ Clean(Gap(f))
  BY GapPlain, PlainIsClean
<1>3. pre \in Seq(Pieces) /\ \A j \in 1..n : pre[j] # BENCH_END
  <2>1. /\ pre \in Seq(Pieces) /\ n = Len(f) + Len(Gap(f))
        /\ \A j \in 1..(Len(f) + Len(Gap(f))) : pre[j] = IF j <= Len(f) THEN f[j] ELSE Gap(f)[j - Len(f)]
    BY <1>2, ConcatProperties
  <2>2. Len(f) \in Nat /\ Len(Gap(f)) \in Nat /\ \A j \in 1..Len(f) : f[j] # BENCH_END
    BY <1>2, LenProperties, FindIs
  <2> HIDE DEF pre, n
  <2> SUFFICES ASSUME NEW j \in 1..n PROVE pre[j] # BENCH_END
    BY <2>1
  <2>3. CASE j <= Len(f)
    <3>1. j \in 1..Len(f)
      BY <2>1, <2>2, <2>3
    <3> QED BY <2>1, <2>2, <2>3, <3>1
  <2>4. CASE ~(j <= Len(f))
    <3>1. j - Len(f) \in 1..Len(Gap(f))
      BY <2>1, <2>2, <2>4
    <3> QED BY <1>2, <2>1, <2>4, <3>1 DEF Clean
  <2> QED BY <2>3, <2>4
<1>4. g = pre \o b \o <<Newline>>
  BY DEF Updated, Appended
<1> HIDE DEF pre, g, n
<1>5. n \in Nat
  BY <1>3, LenProperties DEF n
<1>6. /\ g \in Seq(Pieces) /\ Len(g) = n + 4
      /\ \A j \in 1..n : g[j] = pre[j]
      /\ g[n + 1] = BENCH_BEGIN /\ g[n + 2] # BENCH_END /\ g[n + 3] = BENCH_END /\ g[n + 4] = Newline
  <2> DEFINE s == pre \o b
             nl == <<Newline>>
  <2>1. nl \in Seq(Pieces) /\ Len(nl) = 1 /\ nl[1] = Newline
    BY DEF Pieces, Marks
  <2>2. /\ s \in Seq(Pieces) /\ Len(s) = Len(pre) + Len(b)
        /\ \A j \in 1..(Len(pre) + Len(b)) : s[j] = IF j <= Len(pre) THEN pre[j] ELSE b[j - Len(pre)]
    <3>1. s \in Seq(Pieces) /\ Joined(s, pre, b)
      BY ONLY <1>1, <1>3, ConcatJoins
    <3> HIDE DEF s
    <3> QED BY ONLY <3>1 DEF Joined
  <2>3. g = s \o nl
    BY <1>4
  <2> HIDE DEF s, nl
  <2>4. /\ g \in Seq(Pieces) /\ Len(g) = Len(s) + Len(nl)
        /\ \A j \in 1..(Len(s) + Len(nl)) : g[j] = IF j <= Len(s) THEN s[j] ELSE nl[j - Len(s)]
    <3>1. /\ s \o nl \in Seq(Pieces) /\ Len(s \o nl) = Len(s) + Len(nl)
          /\ \A j \in 1..(Len(s) + Len(nl)) : (s \o nl)[j] = IF j <= Len(s) THEN s[j] ELSE nl[j - Len(s)]
      <4>1. s \in Seq(Pieces) /\ nl \in Seq(Pieces)
        BY <2>1, <2>2
      <4> QED BY <4>1, ConcatProperties
    <3> QED BY <2>3, <3>1
  <2>5. /\ Len(s) = n + 3 /\ Len(g) = n + 4
        /\ \A j \in 1..(n + 3) : s[j] = IF j <= n THEN pre[j] ELSE b[j - n]
        /\ \A j \in 1..(n + 4) : g[j] = IF j <= n + 3 THEN s[j] ELSE nl[j - (n + 3)]
    <3>1. (n + 3) + 1 = n + 4
      BY <1>5
    <3> QED BY <1>1, <2>1, <2>2, <2>4, <3>1 DEF n
  <2>6. \A j \in 1..n : j \in 1..(n + 3) /\ j \in 1..(n + 4) /\ j <= n + 3
    BY <1>5
  <2>7. /\ n + 1 \in 1..(n + 3) /\ n + 2 \in 1..(n + 3) /\ n + 3 \in 1..(n + 3)
        /\ n + 1 \in 1..(n + 4) /\ n + 2 \in 1..(n + 4) /\ n + 3 \in 1..(n + 4) /\ n + 4 \in 1..(n + 4)
        /\ ~(n + 1 <= n) /\ ~(n + 2 <= n) /\ ~(n + 3 <= n) /\ ~(n + 4 <= n + 3)
        /\ n + 1 <= n + 3 /\ n + 2 <= n + 3 /\ n + 3 <= n + 3
        /\ (n + 1) - n = 1 /\ (n + 2) - n = 2 /\ (n + 3) - n = 3 /\ (n + 4) - (n + 3) = 1
    BY <1>5
  <2>8. \A j \in 1..n : g[j] = pre[j]
    BY <2>5, <2>6
  <2>9. g[n + 1] = b[1] /\ g[n + 2] = b[2] /\ g[n + 3] = b[3] /\ g[n + 4] = nl[1]
    BY <2>5, <2>7
  <2> QED BY <1>1, <2>1, <2>4, <2>5, <2>8, <2>9
<1>7. \A j \in 1..Len(g) : j \in 1..n \/ j = n + 1 \/ j = n + 2 \/ j = n + 3 \/ j = n + 4
  BY <1>5, <1>6
<1>8. ASSUME NEW j \in 1..Len(g) PROVE (g[j] = BENCH_END => j = n + 3) /\ (g[j] = BENCH_BEGIN => j < n + 3)
  <2>1. Newline # BENCH_END /\ Newline # BENCH_BEGIN /\ BENCH_BEGIN # BENCH_END
    BY HarnessAssumption
  <2>2. j \in 1..n => g[j] # BENCH_END /\ j < n + 3
    BY <1>3, <1>5, <1>6
  <2>3. j = n + 1 => g[j] # BENCH_END /\ j < n + 3
    BY <1>5, <1>6, <2>1
  <2>4. j = n + 2 => g[j] # BENCH_END /\ j < n + 3
    BY <1>5, <1>6
  <2>5. j = n + 3 => g[j] # BENCH_BEGIN
    BY <1>6, <2>1
  <2>6. j = n + 4 => g[j] # BENCH_END /\ g[j] # BENCH_BEGIN
    BY <1>6, <2>1
  <2> QED BY <1>7, <2>2, <2>3, <2>4, <2>5, <2>6
<1>9. Mendable(g)
  <2>1. n + 1 \in 1..((n + 3) - 1)
    BY <1>5
  <2> QED BY <1>6, <1>8, <2>1 DEF Mendable
<1>10. Find(g, BENCH_END) # 0
  <2>1. n + 3 \in 1..Len(g)
    BY <1>5, <1>6
  <2> QED BY <1>6, <2>1, FindIs
<1> QED BY <1>6, <1>9, <1>10 DEF g

\* An update keeps a file mendable, and the next one makes one block of it.
LEMMA Mends ==
  ASSUME NEW f \in Seq(Pieces), Mendable(f), NEW b \in Blocks
  PROVE  /\ Updated(f, b) \in Seq(Pieces) /\ Mendable(Updated(f, b))
         /\ Find(Updated(f, b), BENCH_END) # 0
<1>1. CASE Find(f, BENCH_END) = 0
  BY <1>1, AppendedIsMendable
<1>2. CASE Find(f, BENCH_END) # 0
  <2>1. PICK pre, post \in Seq(Plain) : Updated(f, b) = pre \o b \o post
    BY <1>2, EndedIsHealed
  <2>2. /\ pre \in Seq(Pieces) /\ Clean(pre) /\ post \in Seq(Pieces) /\ Clean(post)
    BY PlainIsClean
  <2>3. pre \o b \o post \in Seq(Pieces) /\ Find(pre \o b \o post, BENCH_END) = Len(pre) + 3 /\ Len(pre) \in Nat
    BY <2>2, BlockBetween DEF Between
  <2>4. OneBlock(pre \o b \o post)
    BY <2>2, BetweenIsOne
  <2>5. Mendable(pre \o b \o post)
    BY <2>3, <2>4, OneIsMendable
  <2>6. Len(pre) + 3 # 0
    BY <2>3
  <2> QED BY <2>1, <2>3, <2>5, <2>6
<1> QED BY <1>1, <1>2

LEMMA MendsInTwo ==
  ASSUME NEW f \in Seq(Pieces), Mendable(f), NEW b \in Blocks, NEW c \in Blocks
  PROVE  LET healed == Updated(Updated(f, b), c)
         IN  OneBlock(healed) /\ Find(healed, BENCH_BEGIN) # 0
<1> DEFINE g == Updated(f, b)
<1>1. g \in Seq(Pieces) /\ Mendable(g) /\ Find(g, BENCH_END) # 0
  BY Mends
<1> HIDE DEF g
<1>2. PICK pre, post \in Seq(Plain) : Updated(g, c) = pre \o c \o post
  BY <1>1, EndedIsHealed
<1>3. pre \in Seq(Pieces) /\ Clean(pre) /\ post \in Seq(Pieces) /\ Clean(post)
  BY PlainIsClean
<1>4. OneBlock(pre \o c \o post) /\ Find(pre \o c \o post, BENCH_BEGIN) # 0
  BY <1>3, BetweenIsOne
<1> QED BY <1>2, <1>4 DEF g

\* A beginning of a mendable file is mendable, wherever the cut went through.
LEMMA CutIsMendable ==
  ASSUME NEW f \in Seq(Pieces), Mendable(f), NEW i \in 1..Len(f), NEW rest \in Rests(f[i])
  PROVE  SubSeq(f, 1, i - 1) \o rest \in Seq(Pieces) /\ Mendable(SubSeq(f, 1, i - 1) \o rest)
<1> DEFINE head0 == SubSeq(f, 1, i - 1)
           g     == head0 \o rest
<1>1. Len(f) \in Nat /\ \A j \in 1..Len(f) : f[j] \in Pieces
  BY LenProperties, ElementOfSeq
<1>2. rest \in Seq(Plain)
  <2>1. rest = <<>> \/ rest = <<Fragment>> \/ rest = <<Garbled>>
    BY DEF Rests
  <2>2. Fragment \in Plain /\ Garbled \in Plain
    BY HarnessAssumption DEF Plain, Pieces, Marks
  <2>3. <<>> \in Seq(Plain) /\ <<Fragment>> \in Seq(Plain) /\ <<Garbled>> \in Seq(Plain)
    BY <2>2
  <2> QED BY <2>1, <2>3
<1>3. rest \in Seq(Pieces) /\ Clean(rest) /\ Len(rest) \in Nat
  BY <1>2, PlainIsClean, LenProperties
<1>4. head0 \in Seq(Pieces) /\ Len(head0) = i - 1 /\ \A j \in 1..(i - 1) : head0[j] = f[j]
  <2>1. \A j \in 1..(i - 1) : f[j] \in Pieces
    BY <1>1
  <2>2. /\ head0 \in Seq(Pieces) /\ Len(head0) = (IF 1 <= i - 1 THEN (i - 1) - 1 + 1 ELSE 0)
        /\ \A j \in 1..((i - 1) - 1 + 1) : head0[j] = f[1 + j - 1]
    BY <1>1, <2>1, SubSeqProperties
  <2> HIDE DEF head0
  <2> QED BY <1>1, <2>2
<1> HIDE DEF head0
<1>5. /\ g \in Seq(Pieces) /\ Len(g) = Len(head0) + Len(rest)
      /\ \A j \in 1..(Len(head0) + Len(rest)) : g[j] = IF j <= Len(head0) THEN head0[j] ELSE rest[j - Len(head0)]
  BY <1>3, <1>4, ConcatProperties
<1> HIDE DEF g
<1>6. ASSUME NEW j \in 1..Len(g), g[j] \in {BENCH_BEGIN, BENCH_END} PROVE j \in 1..(i - 1) /\ g[j] = f[j]
  <2>1. CASE j <= i - 1
    BY <1>1, <1>4, <1>5, <2>1
  <2>2. CASE ~(j <= i - 1)
    <3>1. j - Len(head0) \in 1..Len(rest)
      BY <1>1, <1>3, <1>4, <1>5, <2>2
    <3> QED BY <1>3, <1>4, <1>5, <1>6, <2>2, <3>1 DEF Clean
  <2> QED BY <2>1, <2>2
<1>7. Mendable(g)
  <2> SUFFICES ASSUME NEW k \in 1..Len(g), g[k] = BENCH_END
               PROVE  /\ \E j \in 1..(k - 1) : g[j] = BENCH_BEGIN
                      /\ \A j \in 1..Len(g) : (g[j] = BENCH_END => j = k) /\ (g[j] = BENCH_BEGIN => j < k)
    BY DEF Mendable
  <2>1. k \in 1..(i - 1) /\ f[k] = BENCH_END
    BY <1>6
  <2>2. k \in 1..Len(f) /\ \A j \in 1..(i - 1) : j \in 1..Len(f)
    BY <1>1, <2>1
  <2>3. /\ \E j \in 1..(k - 1) : f[j] = BENCH_BEGIN
        /\ \A j \in 1..Len(f) : (f[j] = BENCH_END => j = k) /\ (f[j] = BENCH_BEGIN => j < k)
    BY <2>1, <2>2 DEF Mendable
  <2>4. \A j \in 1..(k - 1) : g[j] = f[j]
    <3>1. \A j \in 1..(k - 1) : j \in 1..(i - 1) /\ j <= Len(head0) /\ j \in 1..(Len(head0) + Len(rest))
      BY <1>1, <1>3, <1>4, <2>1
    <3> QED BY <1>4, <1>5, <3>1
  <2>5. \E j \in 1..(k - 1) : g[j] = BENCH_BEGIN
    BY <2>3, <2>4
  <2>6. \A j \in 1..Len(g) : (g[j] = BENCH_END => j = k) /\ (g[j] = BENCH_BEGIN => j < k)
    BY <1>6, <2>2, <2>3
  <2> QED BY <2>5, <2>6
<1> QED BY <1>5, <1>7 DEF g, head0

------------------------------------------------------------------------------
\* The first contents of a file, and what it is meant to have now.
First(e) == IF original[e] = None THEN <<>> ELSE original[e]
Whole(e) == IF Intended[e] = None THEN <<>> ELSE Intended[e]

\* Every file can be mended; one none of whose writes was cut short is as it was
\* in the beginning, or that with one block at the block's place.
FilesShaped ==
  /\ original \in FirstFiles
  /\ \A e \in Entries :
       /\ Whole(e) \in Seq(Pieces) /\ Mendable(Whole(e))
       /\ cuts[e] = 0 => \/ Whole(e) = First(e)
                         \/ \E b \in Blocks : Whole(e) = Around(First(e), b)

\* ... and what was put there, or is being written, is that block.
BlocksPut ==
  /\ written = [e \in Entries |-> written[e]]
  /\ \A e \in Entries : cuts[e] = 0 =>
       /\ written[e] # None => written[e] \in Blocks /\ Whole(e) = Around(First(e), written[e])
       /\ Writing(e) => Block \in Blocks /\ Whole(e) = Around(First(e), Block)

LEMMA OriginalStays == [Next]_vars => original' = original
<1> SUFFICES ASSUME [Next]_vars PROVE original' = original
  OBVIOUS
<1>1. \/ Usage \/ (\E e \in Entries, c \in Commits : RunPair(e, c))
      \/ \E c \in {"all", "bench"} : Start(c)
      => original' = original
  BY DEF Usage, RunPair, Start, Launch
<1>2. CASE Step
  BY <1>2 DEF Step, Preflight, Analyze, CollectProvenance, FinishAll, FinishBench, Skip,
     UpdateFails, Current, Read, Truncate, WritePiece, EndWrite, WriteFails, shared
<1>3. CASE Crash \/ (\E c \in Commits : Checkout(c)) \/ UNCHANGED vars
  BY <1>3 DEF Crash, Checkout, vars, shared
<1> QED BY <1>1, <1>2, <1>3 DEF Next

\* Files are found with one block at most.
LEMMA FirstIsOne ==
  ASSUME NEW f \in FirstFiles, NEW e \in Entries
  PROVE  LET o == IF f[e] = None THEN <<>> ELSE f[e]
         IN  o \in Seq(Pieces) /\ OneBlock(o)
<1>1. CASE f[e] = None
  <2>1. <<>> \in Seq(Pieces) /\ Len(<<>>) = 0 /\ DOMAIN <<>> = {}
    OBVIOUS
  <2>2. Find(<<>>, BENCH_BEGIN) = 0
    <3>1. \A j \in 1..Len(<<>>) : <<>>[j] # BENCH_BEGIN
      BY <2>1
    <3> QED BY <2>1, <3>1, FindNone
  <2>3. OneBlock(<<>>)
    BY <2>1, <2>2 DEF OneBlock
  <2> QED BY <1>1, <2>1, <2>3
<1>2. CASE f[e] # None
  <2>1. f[e] \in Seq(FirstPieces) /\ OneBlock(f[e])
    BY <1>2, HarnessAssumption
  <2>2. FirstPieces \subseteq Pieces
    BY DEF Pieces
  <2> QED BY <1>2, <2>1, <2>2, SeqMonotonic
<1> QED BY <1>1, <1>2

LEMMA RenderIsBlock ==
  ASSUME NEW e \in Entries, NEW sides \in Commits \X Commits, NEW stamp \in Stamps
  PROVE  render_bench_block(e, Diff(Reading(sides, e)), stamp) \in Blocks
<1> DEFINE delta == Diff(Reading(sides, e))
<1>1. Reading(sides, e).left \in Counts /\ Reading(sides, e).right \in Counts
  BY HarnessAssumption DEF Reading
<1>2. DOMAIN delta = Metrics /\ \A m \in Metrics : delta[m] \in Int
  BY <1>1 DEF Diff, Counts
<1> HIDE DEF delta
<1>3. [m \in DOMAIN delta |-> signed_delta(delta[m])] \in [Metrics -> Cells]
  BY <1>2, NumberOfDelta
<1>4. [pattern |-> e, cells |-> [m \in DOMAIN delta |-> signed_delta(delta[m])], stamp |-> stamp] \in Bodies
  BY <1>3 DEF Bodies
<1> QED BY <1>4 DEF Blocks, render_bench_block, delta

\* What is intended is a file for every entry, or none.
LEMMA IntendedTyped ==
  ASSUME HInv
  PROVE  /\ Intended = [e \in Entries |-> Intended[e]]
         /\ \A e \in Entries : Intended[e] \in {None} \cup Seq(Pieces)
         /\ \A e \in Entries : ~Writing(e) => Intended[e] = files[e]
         /\ \A e \in Entries : Intended[e] # None => Whole(e) = Intended[e]
         /\ None \notin Seq(Pieces)
<1>1. /\ files = [e \in Entries |-> files[e]]
      /\ \A e \in Entries : files[e] \in {None} \cup Seq(Pieces)
  <2>1. \A e : TruePieces(e) \subseteq Pieces
    BY DEF TruePieces
  <2>2. \A e, s : s \in Seq(TruePieces(e)) => s \in Seq(Pieces)
    BY <2>1, SeqMonotonic
  <2> QED BY <2>2 DEF HInv, FilesTrue
<1>2. None \notin Seq(Pieces)
  BY HarnessAssumption DEF Pieces
<1>3. CASE pc # "writing"
  BY <1>1, <1>2, <1>3 DEF Intended, Whole
<1>4. CASE pc = "writing"
  <2>1. Here \in Entries
    BY <1>4, HereIs DEF HInv, Staged, Updater
  <2>2. files[Here] \in Seq(TruePieces(Here)) /\ todo \in Seq(TruePieces(Here))
    BY <1>4, <2>1 DEF HInv, FilesTrue, Writing
  <2>3. files[Here] \o todo \in Seq(TruePieces(Here))
    BY <2>2, ConcatProperties
  <2>4. files[Here] \o todo \in Seq(Pieces)
    <3>1. TruePieces(Here) \subseteq Pieces
      BY DEF TruePieces
    <3> QED BY <2>3, <3>1, SeqMonotonic
  <2>5. Intended = [files EXCEPT ![Here] = files[Here] \o todo]
    BY <1>4 DEF Intended
  <2>6. Intended[Here] = files[Here] \o todo /\ \A e \in Entries \ {Here} : Intended[e] = files[e]
    BY <1>1, <2>1, <2>5
  <2>7. Intended = [e \in Entries |-> Intended[e]]
    BY <1>1, <2>5
  <2>8. \A e \in Entries : Intended[e] \in {None} \cup Seq(Pieces)
    BY <1>1, <2>4, <2>6
  <2> QED BY <1>2, <1>4, <2>6, <2>7, <2>8 DEF Writing, Whole
<1> QED BY <1>3, <1>4

LEMMA InitShaped == Init => FilesShaped /\ BlocksPut
<1> SUFFICES ASSUME Init PROVE FilesShaped /\ BlocksPut
  OBVIOUS
<1>1. original \in FirstFiles /\ Intended = original
  BY DEF Init, Intended
<1>2. \A e \in Entries : Whole(e) = First(e) /\ Whole(e) \in Seq(Pieces) /\ Mendable(Whole(e))
  BY <1>1, FirstIsOne, OneIsMendable DEF Whole, First
<1> QED BY <1>1, <1>2 DEF Init, FilesShaped, BlocksPut, Writing

\* An update of a file none of whose writes was cut short.
LEMMA UpdatedIsAround ==
  ASSUME FilesShaped, NEW e \in Entries, cuts[e] = 0, NEW b \in Blocks
  PROVE  Updated(Whole(e), b) = Around(First(e), b)
<1>1. First(e) \in Seq(Pieces) /\ OneBlock(First(e))
  BY FirstIsOne DEF FilesShaped, First
<1>2. Updated(First(e), b) = Around(First(e), b)
  BY <1>1, Surroundings
<1>3. \A a \in Blocks : Updated(Around(First(e), a), b) = Around(First(e), b)
  BY <1>1, AroundUpdated
<1> QED BY <1>2, <1>3 DEF FilesShaped

\* All that BenchUpdates lets happen to the files keeps their shape.
LEMMA NextShaped ==
  ASSUME HInv, FilesShaped, original' = original, UNCHANGED Updates!vars \/ Updates!Next
  PROVE  FilesShaped'
<1>1. \A e : First(e)' = First(e)
  BY DEF First
<1>2. CASE UNCHANGED Updates!vars
  <2>1. Intended' = Intended /\ cuts' = cuts
    BY <1>2 DEF Updates!vars
  <2>2. \A e : Whole(e)' = Whole(e)
    BY <2>1 DEF Whole
  <2> QED BY <1>1, <2>1, <2>2 DEF FilesShaped
<1>3. ASSUME NEW e \in Entries, Updates!Update(e) PROVE FilesShaped'
  <2>1. PICK sides \in Commits \X Commits, stamp \in Stamps :
          Intended' = [Intended EXCEPT ![e] = Updated(Whole(e), render_bench_block(e, Diff(Reading(sides, e)), stamp))]
    BY <1>3, SameFileOperators DEF Updates!Update, Whole
  <2> DEFINE b == render_bench_block(e, Diff(Reading(sides, e)), stamp)
  <2>2. b \in Blocks
    BY RenderIsBlock
  <2> HIDE DEF b
  <2>3. cuts' = cuts /\ Whole(e) \in Seq(Pieces) /\ Mendable(Whole(e))
    BY <1>3 DEF Updates!Update, FilesShaped
  <2>4. Updated(Whole(e), b) \in Seq(Pieces) /\ Mendable(Updated(Whole(e), b))
    BY <2>2, <2>3, Mends
  <2>5. Intended'[e] = Updated(Whole(e), b) /\ \A d \in Entries \ {e} : Intended'[d] = Intended[d]
    BY <2>1, IntendedTyped DEF b
  <2>6. Whole(e)' = Updated(Whole(e), b) /\ \A d \in Entries \ {e} : Whole(d)' = Whole(d)
    BY <2>4, <2>5, IntendedTyped DEF Whole
  <2>7. cuts[e] = 0 => Updated(Whole(e), b) = Around(First(e), b)
    BY <2>2, UpdatedIsAround
  <2>8. \A d \in Entries :
          /\ Whole(d)' \in Seq(Pieces) /\ Mendable(Whole(d))'
          /\ cuts[d] = 0 => Whole(d)' = First(d) \/ \E a \in Blocks : Whole(d)' = Around(First(d), a)
    <3> SUFFICES ASSUME NEW d \in Entries
                 PROVE  /\ Whole(d)' \in Seq(Pieces) /\ Mendable(Whole(d))'
                        /\ cuts[d] = 0 => Whole(d)' = First(d) \/ \E a \in Blocks : Whole(d)' = Around(First(d), a)
      OBVIOUS
    <3>1. CASE d = e
      <4>1. Whole(d)' = Updated(Whole(e), b)
        BY <2>6, <3>1
      <4>2. Mendable(Whole(d)') /\ Whole(d)' \in Seq(Pieces)
        BY <2>4, <4>1
      <4>3. cuts[d] = 0 => Whole(d)' = Around(First(d), b)
        BY <2>7, <3>1, <4>1
      <4> QED BY <2>2, <4>2, <4>3 DEF Mendable
    <3>2. CASE d # e
      <4>1. Whole(d)' = Whole(d)
        BY <2>6, <3>2
      <4>2. Mendable(Whole(d)') /\ Whole(d)' \in Seq(Pieces)
        BY <4>1 DEF FilesShaped
      <4>3. cuts[d] = 0 => Whole(d)' = First(d) \/ \E a \in Blocks : Whole(d)' = Around(First(d), a)
        BY <4>1 DEF FilesShaped
      <4> QED BY <4>2, <4>3 DEF Mendable
    <3> QED BY <3>1, <3>2
  <2>9. original' \in FirstFiles
    BY DEF FilesShaped
  <2> QED BY <1>1, <2>3, <2>8, <2>9 DEF FilesShaped, Around, Ahead, Behind
<1>4. ASSUME NEW e \in Entries, Updates!Stop(e) PROVE FilesShaped'
  <2>1. /\ Intended[e] # None /\ cuts' = [cuts EXCEPT ![e] = cuts[e] + 1]
        /\ \E i \in DOMAIN Intended[e] : \E rest \in Rests(Intended[e][i]) :
             Intended' = [Intended EXCEPT ![e] = SubSeq(Intended[e], 1, i - 1) \o rest]
    BY <1>4, SameFileOperators DEF Updates!Stop
  <2>2. Whole(e) = Intended[e] /\ Whole(e) \in Seq(Pieces) /\ Mendable(Whole(e))
    BY <2>1, IntendedTyped DEF FilesShaped
  <2>3. PICK i \in 1..Len(Whole(e)) : \E rest \in Rests(Whole(e)[i]) :
          Intended' = [Intended EXCEPT ![e] = SubSeq(Whole(e), 1, i - 1) \o rest]
    BY <2>1, <2>2, LenProperties
  <2>4. PICK rest \in Rests(Whole(e)[i]) :
          Intended' = [Intended EXCEPT ![e] = SubSeq(Whole(e), 1, i - 1) \o rest]
    BY <2>3
  <2> DEFINE g == SubSeq(Whole(e), 1, i - 1) \o rest
  <2>5. g \in Seq(Pieces) /\ Mendable(g)
    BY <2>2, CutIsMendable
  <2>6. Intended'[e] = g /\ \A d \in Entries \ {e} : Intended'[d] = Intended[d]
    BY <2>4, IntendedTyped
  <2> HIDE DEF g
  <2>7. Whole(e)' = g /\ \A d \in Entries \ {e} : Whole(d)' = Whole(d)
    BY <2>5, <2>6, IntendedTyped DEF Whole
  <2>8. cuts'[e] # 0 /\ \A d \in Entries \ {e} : cuts'[d] = cuts[d]
    <3>1. cuts \in [Entries -> Nat]
      BY DEF HInv, CutsTyped
    <3> QED BY <2>1, <3>1
  <2>9. \A d \in Entries :
          /\ Whole(d)' \in Seq(Pieces) /\ Mendable(Whole(d))'
          /\ cuts'[d] = 0 => Whole(d)' = First(d) \/ \E a \in Blocks : Whole(d)' = Around(First(d), a)
    <3> SUFFICES ASSUME NEW d \in Entries
                 PROVE  /\ Whole(d)' \in Seq(Pieces) /\ Mendable(Whole(d))'
                        /\ cuts'[d] = 0 => Whole(d)' = First(d) \/ \E a \in Blocks : Whole(d)' = Around(First(d), a)
      OBVIOUS
    <3>1. CASE d = e
      <4>1. Mendable(Whole(d)') /\ Whole(d)' \in Seq(Pieces)
        BY <2>5, <2>7, <3>1
      <4> QED BY <2>8, <3>1, <4>1 DEF Mendable
    <3>2. CASE d # e
      <4>1. Whole(d)' = Whole(d) /\ cuts'[d] = cuts[d]
        BY <2>7, <2>8, <3>2
      <4>2. Mendable(Whole(d)') /\ Whole(d)' \in Seq(Pieces)
        BY <4>1 DEF FilesShaped
      <4>3. cuts'[d] = 0 => Whole(d)' = First(d) \/ \E a \in Blocks : Whole(d)' = Around(First(d), a)
        BY <4>1 DEF FilesShaped
      <4> QED BY <4>2, <4>3 DEF Mendable
    <3> QED BY <3>1, <3>2
  <2>10. original' \in FirstFiles
    BY DEF FilesShaped
  <2> QED BY <1>1, <2>9, <2>10 DEF FilesShaped, Around, Ahead, Behind
<1> QED BY <1>2, <1>3, <1>4 DEF Updates!Next

\* Where nothing happens to the files, what was put into them stays true.
LEMMA PutKept ==
  ASSUME BlocksPut, original' = original, UNCHANGED Updates!vars,
         written' \in {written, [e \in Entries |-> None]},
         pc' = "writing" => pc = "writing" /\ UNCHANGED <<patterns, results, tally, prov>>
  PROVE  BlocksPut'
<1>1. Intended' = Intended /\ cuts' = cuts
  BY DEF Updates!vars
<1>2. \A e : Whole(e)' = Whole(e) /\ First(e)' = First(e)
  BY <1>1 DEF Whole, First
<1>3. pc' = "writing" => pc = "writing" /\ Here' = Here /\ Block' = Block
  BY DEF Here, At, Block
<1>4. \A e \in Entries : cuts[e] = 0 =>
        /\ written'[e] # None => written'[e] \in Blocks /\ Whole(e)' = Around(First(e), written'[e])
        /\ Writing(e)' => Block' \in Blocks /\ Whole(e)' = Around(First(e), Block')
  BY <1>2, <1>3 DEF BlocksPut, Writing
<1>5. written' = [e \in Entries |-> written'[e]]
  BY DEF BlocksPut
<1> QED BY <1>1, <1>2, <1>4, <1>5 DEF BlocksPut, Around, Ahead, Behind

LEMMA CurrentPut == ASSUME HInv, FilesShaped, BlocksPut, Current PROVE BlocksPut'
<1>1. /\ pc = "updating" /\ pc' = "updating" /\ At <= Len(patterns) /\ results[At].delta # None
      /\ NewContents = Contents(Here) /\ written' = [written EXCEPT ![Here] = Block]
      /\ UNCHANGED <<files, cuts, original>>
  BY DEF Current, Updating, shared
<1>2. Here \in Entries /\ Block \in Blocks
  BY <1>1, HereIs, BlockIsTrue, RenderIsBlock DEF Updater
<1>3. Intended = files /\ Intended' = files
  BY <1>1 DEF Intended
<1>4. Whole(Here) = Contents(Here)
  BY <1>3 DEF Whole, Contents
<1>5. cuts[Here] = 0 => Whole(Here) = Around(First(Here), Block)
  BY <1>1, <1>2, <1>4, UpdatedIsAround DEF NewContents
<1>6. \A e : Whole(e)' = Whole(e) /\ First(e)' = First(e)
  BY <1>1, <1>3 DEF Whole, First
<1>7. \A e \in Entries : written'[e] # None => written'[e] = written[e] \/ (e = Here /\ written'[e] = Block)
  BY <1>1
<1>8. \A e \in Entries : cuts[e] = 0 /\ written'[e] # None =>
        written'[e] \in Blocks /\ Whole(e)' = Around(First(e), written'[e])
  BY <1>2, <1>5, <1>6, <1>7 DEF BlocksPut
<1>9. written' = [e \in Entries |-> written'[e]]
  BY <1>1 DEF BlocksPut
<1> QED BY <1>1, <1>6, <1>8, <1>9 DEF BlocksPut, Writing, Around, Ahead, Behind

LEMMA EndWritePut == ASSUME HInv, BlocksPut, EndWrite PROVE BlocksPut'
<1>1. /\ pc = "writing" /\ pc' = "updating" /\ todo = <<>>
      /\ written' = [written EXCEPT ![Here] = Block]
      /\ UNCHANGED <<files, cuts, original>>
  BY DEF EndWrite, shared
<1>2. Here \in Entries
  BY <1>1, HereIs DEF HInv, Staged, Updater
<1>3. Intended' = Intended
  BY <1>1, AllIsOut DEF Updates!vars
<1>4. \A e : Whole(e)' = Whole(e) /\ First(e)' = First(e)
  BY <1>1, <1>3 DEF Whole, First
<1>5. cuts[Here] = 0 => Block \in Blocks /\ Whole(Here) = Around(First(Here), Block)
  BY <1>1, <1>2 DEF BlocksPut, Writing
<1>6. \A e \in Entries : written'[e] # None => written'[e] = written[e] \/ (e = Here /\ written'[e] = Block)
  BY <1>1
<1>7. \A e \in Entries : cuts[e] = 0 /\ written'[e] # None =>
        written'[e] \in Blocks /\ Whole(e)' = Around(First(e), written'[e])
  BY <1>4, <1>5, <1>6 DEF BlocksPut
<1>8. written' = [e \in Entries |-> written'[e]]
  BY <1>1 DEF BlocksPut
<1> QED BY <1>1, <1>4, <1>7, <1>8 DEF BlocksPut, Writing, Around, Ahead, Behind

LEMMA TruncatePut == ASSUME HInv, FilesShaped, BlocksPut, Truncate PROVE BlocksPut'
<1>1. /\ pc = "opening" /\ pc' = "writing" /\ At <= Len(patterns) /\ results[At].delta # None
      /\ written' = [written EXCEPT ![Here] = None]
      /\ UNCHANGED <<cuts, original, patterns, results, tally, prov>>
  BY DEF Truncate, HInv, Staged, batch
<1>2. Here \in Entries /\ Block \in Blocks
  BY <1>1, HereIs, BlockIsTrue, RenderIsBlock DEF Updater
<1>3. Here' = Here /\ Block' = Block
  BY <1>1 DEF Here, At, Block
<1>4. Intended = files /\ Intended' = [Intended EXCEPT ![Here] = NewContents]
  BY TruncateImplements
<1>5. Intended'[Here] = NewContents /\ \A e \in Entries \ {Here} : Intended'[e] = Intended[e]
  BY <1>2, <1>4, IntendedTyped
<1>6. Whole(Here) = Contents(Here)
  BY <1>4 DEF Whole, Contents
<1>7. NewContents \in Seq(Pieces)
  <2>1. Whole(Here) \in Seq(Pieces) /\ Mendable(Whole(Here))
    BY <1>2 DEF FilesShaped
  <2> QED BY <1>2, <1>6, <2>1, Mends DEF NewContents
<1>8. \A e \in Entries : Whole(e)' = IF e = Here THEN NewContents ELSE Whole(e)
  <2>1. NewContents # None
    BY <1>7, IntendedTyped
  <2> QED BY <1>5, <2>1 DEF Whole
<1>9. cuts[Here] = 0 => NewContents = Around(First(Here), Block)
  BY <1>2, <1>6, UpdatedIsAround DEF NewContents
<1>10. \A e : First(e)' = First(e)
  BY <1>1 DEF First
<1>11. \A e \in Entries : written'[e] # None => e # Here /\ written'[e] = written[e]
  <2>1. written = [e \in Entries |-> written[e]]
    BY DEF BlocksPut
  <2>2. written'[Here] = None /\ \A e \in Entries \ {Here} : written'[e] = written[e]
    BY <1>1, <1>2, <2>1
  <2> QED BY <2>2
<1>12. \A e \in Entries : cuts[e] = 0 =>
        /\ written'[e] # None => written'[e] \in Blocks /\ Whole(e)' = Around(First(e), written'[e])
        /\ Here = e => Block \in Blocks /\ Whole(e)' = Around(First(e), Block)
  BY <1>2, <1>8, <1>9, <1>11 DEF BlocksPut
<1>13. written' = [e \in Entries |-> written'[e]]
  BY <1>1 DEF BlocksPut
<1> QED BY <1>1, <1>3, <1>10, <1>12, <1>13 DEF BlocksPut, Writing, Around, Ahead, Behind

\* A write that was cut short is not put there, and its file is known.
LEMMA CutPut ==
  ASSUME HInv, BlocksPut, CutWrite, original' = original, pc' # "writing",
         written' \in {written, [e \in Entries |-> None]}
  PROVE  BlocksPut'
<1>1. Here \in Entries /\ Updates!Stop(Here)
  BY CutImplements
<1>2. \A e \in Entries \ {Here} : Intended'[e] = Intended[e] /\ cuts'[e] = cuts[e]
  BY <1>1, IntendedTyped DEF Updates!Stop, HInv, CutsTyped
<1>3. cuts'[Here] # 0
  <2>1. cuts \in [Entries -> Nat] /\ cuts' = [cuts EXCEPT ![Here] = cuts[Here] + 1]
    BY DEF HInv, CutsTyped, CutWrite
  <2> QED BY <1>1, <2>1
<1>4. \A e : First(e)' = First(e)
  BY DEF First
<1>5. \A e \in Entries \ {Here} : Whole(e)' = Whole(e)
  BY <1>2 DEF Whole
<1>6. \A e \in Entries : cuts'[e] = 0 /\ written'[e] # None =>
        written'[e] \in Blocks /\ Whole(e)' = Around(First(e), written'[e])
  BY <1>2, <1>3, <1>5 DEF BlocksPut
<1>7. written' = [e \in Entries |-> written'[e]]
  BY DEF BlocksPut
<1> QED BY <1>4, <1>6, <1>7 DEF BlocksPut, Writing, Around, Ahead, Behind

LEMMA NextPut == HInv /\ FilesShaped /\ BlocksPut /\ [Next]_vars => BlocksPut'
<1> SUFFICES ASSUME HInv, FilesShaped, BlocksPut, [Next]_vars PROVE BlocksPut'
  OBVIOUS
<1>1. original' = original
  BY OriginalStays
<1>2. ASSUME NEW c, Launch(c), pc' # "writing" PROVE BlocksPut'
  <2>1. /\ pc = "idle" /\ UNCHANGED <<files, cuts>> /\ written' = [e \in Entries |-> None]
    BY <1>2 DEF Launch
  <2>2. UNCHANGED Updates!vars
    BY <1>2, <2>1, NoUpdate
  <2> QED BY <1>1, <1>2, <2>1, <2>2, PutKept
<1>3. CASE Usage
  BY <1>2, <1>3 DEF Usage, Exit
<1>4. ASSUME NEW e \in Entries, NEW c \in Commits, RunPair(e, c) PROVE BlocksPut'
  <2>1. Launch("pair") /\ pc' = "idle"
    BY <1>4 DEF RunPair, Exit
  <2> QED BY <1>2, <2>1
<1>5. ASSUME NEW c \in {"all", "bench"}, Start(c) PROVE BlocksPut'
  BY <1>2, <1>5 DEF Start
<1>6. ASSUME pc # "writing", pc' # "writing", UNCHANGED <<files, cuts, written>> PROVE BlocksPut'
  BY <1>1, <1>6, NoUpdate, PutKept
<1>7. ASSUME NEW available \in BOOLEAN, NEW listed \in Listings, Preflight(available, listed)
      PROVE  BlocksPut'
  <2>1. pc = "preflight" /\ pc' # "writing" /\ UNCHANGED <<files, cuts, written>>
    BY <1>7 DEF Preflight, Exit, shared, past
  <2> QED BY <1>6, <2>1
<1>8. ASSUME NEW c \in Commits, Analyze(c) PROVE BlocksPut'
  BY <1>6, <1>8 DEF Analyze
<1>9. ASSUME NEW time \in Times, CollectProvenance(time) PROVE BlocksPut'
  BY <1>6, <1>9 DEF CollectProvenance, shared, past
<1>10. CASE FinishAll \/ FinishBench
  BY <1>6, <1>10 DEF FinishAll, FinishBench, Exit, shared, past
<1>11. CASE Skip \/ UpdateFails \/ Read
  BY <1>6, <1>11 DEF Skip, UpdateFails, Read, Updating, shared, past
<1>12. CASE Current
  BY <1>12, CurrentPut
<1>13. CASE Truncate
  BY <1>13, TruncatePut
<1>14. CASE WritePiece
  BY <1>1, <1>14, WritePieceImplements, PutKept DEF WritePiece, batch, past
<1>15. CASE EndWrite
  BY <1>15, EndWritePut
<1>16. CASE WriteFails
  BY <1>1, <1>16, CutPut DEF WriteFails, past
<1>17. CASE Crash
  <2>1. pc' # "writing" /\ written' = [e \in Entries |-> None]
    BY <1>17 DEF Crash
  <2>2. CASE CutWrite
    BY <1>1, <2>1, <2>2, CutPut
  <2>3. CASE ~(pc = "writing" /\ todo # <<>>) /\ UNCHANGED <<files, cuts>>
    <3>1. UNCHANGED Updates!vars
      BY <2>1, <2>3, AllIsOut, NoUpdate
    <3> QED BY <1>1, <2>1, <3>1, PutKept
  <2> QED BY <1>17, <2>2, <2>3 DEF Crash
<1>18. ASSUME NEW c \in Commits, Checkout(c) PROVE BlocksPut'
  <2>1. UNCHANGED <<files, cuts, todo, pc, patterns, results, tally, prov, written>>
    BY <1>18 DEF Checkout, batch
  <2>2. UNCHANGED Updates!vars
    BY <2>1 DEF Updates!vars, Intended, Here, At
  <2> QED BY <1>1, <2>1, <2>2, PutKept
<1>19. CASE UNCHANGED vars
  <2>1. UNCHANGED <<files, cuts, todo, pc, patterns, results, tally, prov, written>>
    BY <1>19 DEF vars, shared, own, batch, past
  <2>2. UNCHANGED Updates!vars
    BY <2>1 DEF Updates!vars, Intended, Here, At
  <2> QED BY <1>1, <2>1, <2>2, PutKept
<1> QED BY <1>3, <1>4, <1>5, <1>7, <1>8, <1>9, <1>10, <1>11, <1>12, <1>13, <1>14, <1>15,
           <1>16, <1>17, <1>18, <1>19 DEF Next, Step

LEMMA AlwaysShaped == Spec => [](HInv /\ FilesShaped /\ BlocksPut)
<1>1. Init => FilesShaped /\ BlocksPut
  BY InitShaped
<1>2. HInv /\ FilesShaped /\ BlocksPut /\ [Next]_vars => FilesShaped' /\ BlocksPut'
  BY OriginalStays, StepImplements, NextShaped, NextPut
<1> QED BY <1>1, <1>2, AlwaysHInv, PTL DEF Spec

\* Between writes a file is what it is meant to be.
LEMMA WholeIsThere ==
  ASSUME HInv, NEW e \in Entries, ~Writing(e)
  PROVE  Whole(e) = Contents(e)
BY IntendedTyped DEF Whole, Contents

\* KeepsTheRest: "the rest of the file is never touched" (lib.rs:397), for all
\* authors' files with a block or without, and all runs and kills.
THEOREM RestKept == Spec => []KeepsTheRest
<1>1. HInv /\ FilesShaped => KeepsTheRest
  <2> SUFFICES ASSUME HInv, FilesShaped, NEW e \in Entries, cuts[e] = 0, ~Writing(e)
               PROVE  LET f     == Contents(e)
                          o     == First(e)
                          begin == Find(o, BENCH_BEGIN)
                      IN  \/ f = o
                          \/ \E i \in 1..(Len(f) - 2) :
                               /\ f[i] = BENCH_BEGIN /\ f[i + 2] = BENCH_END
                               /\ begin # 0 => /\ SubSeq(f, 1, i - 1) = SubSeq(o, 1, begin - 1)
                                               /\ SubSeq(f, i + 3, Len(f)) = SubSeq(o, begin + 3, Len(o))
                               /\ begin = 0 => /\ Len(o) < i /\ SubSeq(f, 1, Len(o)) = o
                                               /\ \A j \in DOMAIN f \ (1..Len(o) \cup i..(i + 2)) : f[j] = Newline
    BY DEF KeepsTheRest, First
  <2> DEFINE f     == Contents(e)
             o     == First(e)
             begin == Find(o, BENCH_BEGIN)
             pre   == Ahead(o)
             post  == Behind(o)
             i     == Len(pre) + 1
  <2>1. f = Whole(e) /\ o \in Seq(Pieces) /\ OneBlock(o)
    BY WholeIsThere, FirstIsOne DEF FilesShaped, First
  <2>2. SUFFICES ASSUME f # o
                 PROVE  \E k \in 1..(Len(f) - 2) :
                          /\ f[k] = BENCH_BEGIN /\ f[k + 2] = BENCH_END
                          /\ begin # 0 => /\ SubSeq(f, 1, k - 1) = SubSeq(o, 1, begin - 1)
                                          /\ SubSeq(f, k + 3, Len(f)) = SubSeq(o, begin + 3, Len(o))
                          /\ begin = 0 => /\ Len(o) < k /\ SubSeq(f, 1, Len(o)) = o
                                          /\ \A j \in DOMAIN f \ (1..Len(o) \cup k..(k + 2)) : f[j] = Newline
    OBVIOUS
  <2>3. PICK b \in Blocks : f = pre \o b \o post
    BY <2>1, <2>2 DEF FilesShaped, Around
  <2>4. /\ pre \in Seq(Plain) /\ post \in Seq(Plain)
        /\ pre \in Seq(Pieces) /\ Clean(pre) /\ post \in Seq(Pieces) /\ Clean(post)
    BY <2>1, Surroundings, PlainIsClean
  <2> HIDE DEF f, pre, post
  <2>5. /\ f \in Seq(Pieces) /\ Len(f) = Len(pre) + 3 + Len(post)
        /\ Len(pre) \in Nat /\ Len(post) \in Nat
        /\ SubSeq(f, 1, Len(pre)) = pre
        /\ SubSeq(f, Len(pre) + 4, Len(f)) = post
        /\ \A j \in 1..Len(f) :
             /\ j <= Len(pre) => f[j] = pre[j]
             /\ j = Len(pre) + 1 => f[j] = BENCH_BEGIN
             /\ j = Len(pre) + 3 => f[j] = BENCH_END
             /\ j > Len(pre) + 3 => f[j] = post[j - Len(pre) - 3]
    <3>1. Between(pre \o b \o post, pre, post)
      BY ONLY b \in Blocks, <2>4, BlockBetween
    <3>2. Between(f, pre, post)
      BY <2>3, <3>1
    <3> QED BY <3>2 DEF Between
  <2>6. /\ i \in 1..(Len(f) - 2) /\ i \in 1..Len(f) /\ i + 2 \in 1..Len(f)
        /\ i + 2 = Len(pre) + 3 /\ i - 1 = Len(pre) /\ i + 3 = Len(pre) + 4
    BY <2>5
  <2>7. f[i] = BENCH_BEGIN /\ f[i + 2] = BENCH_END
    BY <2>5, <2>6
  <2>8. CASE begin # 0
    <3>1. pre = SubSeq(o, 1, begin - 1) /\ post = SubSeq(o, begin + 3, Len(o))
      BY <2>8 DEF pre, post, Ahead, Behind
    <3>2. SubSeq(f, 1, i - 1) = SubSeq(o, 1, begin - 1) /\ SubSeq(f, i + 3, Len(f)) = SubSeq(o, begin + 3, Len(o))
      BY <2>5, <2>6, <3>1
    <3> HIDE DEF i, o, begin
    <3> QED BY <2>6, <2>7, <2>8, <3>2
  <2>9. CASE begin = 0
    <3>1. pre = o \o Gap(o) /\ post = <<Newline>> /\ Len(post) = 1 /\ post[1] = Newline
      BY <2>9 DEF pre, post, Ahead, Behind
    <3> HIDE DEF o, begin
    <3>2. /\ Len(o) \in Nat /\ Len(Gap(o)) \in Nat /\ Gap(o) \in Seq(Pieces)
          /\ \A j \in 1..Len(Gap(o)) : Gap(o)[j] = Newline
      <4>1. <<>> \in Seq({Newline}) /\ <<Newline>> \in Seq({Newline})
        OBVIOUS
      <4>2. Gap(o) \in Seq({Newline})
        BY <4>1, ConcatProperties DEF Gap
      <4>3. \A j \in 1..Len(Gap(o)) : Gap(o)[j] \in {Newline}
        BY <4>2, ElementOfSeq
      <4> QED BY <2>1, <4>2, <4>3, GapPlain, PlainIsClean, LenProperties
    <3>3. /\ Len(pre) = Len(o) + Len(Gap(o))
          /\ \A j \in 1..(Len(o) + Len(Gap(o))) : pre[j] = IF j <= Len(o) THEN o[j] ELSE Gap(o)[j - Len(o)]
      BY <2>1, <3>1, <3>2, ConcatProperties
    <3>4. Len(o) < i
      BY <3>2, <3>3
    <3>5. SubSeq(f, 1, Len(o)) = o
      <4>1. \A j \in 1..Len(o) : f[j] = o[j] /\ o[j] \in Pieces
        <5>1. \A j \in 1..Len(o) : j \in 1..(Len(o) + Len(Gap(o))) /\ j <= Len(o) /\ j <= Len(pre) /\ j \in 1..Len(f)
          BY <2>5, <3>2, <3>3
        <5> QED BY <2>1, <2>5, <3>3, <5>1, ElementOfSeq
      <4>2. /\ SubSeq(f, 1, Len(o)) \in Seq(Pieces) /\ Len(SubSeq(f, 1, Len(o))) = Len(o)
            /\ \A j \in 1..Len(o) : SubSeq(f, 1, Len(o))[j] = f[j]
        <5>1. \A j \in 1..Len(o) : f[j] \in Pieces
          BY <4>1
        <5>2. /\ SubSeq(f, 1, Len(o)) \in Seq(Pieces)
              /\ Len(SubSeq(f, 1, Len(o))) = (IF 1 <= Len(o) THEN Len(o) - 1 + 1 ELSE 0)
              /\ \A j \in 1..(Len(o) - 1 + 1) : SubSeq(f, 1, Len(o))[j] = f[1 + j - 1]
          BY <3>2, <5>1, SubSeqProperties
        <5> QED BY <3>2, <5>2
      <4> QED BY <2>1, <4>1, <4>2, SeqEqual
    <3>6. \A j \in DOMAIN f \ (1..Len(o) \cup i..(i + 2)) : f[j] = Newline
      <4> SUFFICES ASSUME NEW j \in 1..Len(f), j \notin 1..Len(o), j \notin i..(i + 2) PROVE f[j] = Newline
        BY <2>5, LenProperties
      <4>1. CASE j <= Len(pre)
        <5>1. ~(j <= Len(o)) /\ j \in 1..(Len(o) + Len(Gap(o))) /\ j - Len(o) \in 1..Len(Gap(o))
          BY <2>5, <3>2, <3>3, <4>1
        <5>2. f[j] = pre[j] /\ pre[j] = Gap(o)[j - Len(o)]
          BY <2>5, <3>3, <4>1, <5>1
        <5> QED BY <3>2, <5>1, <5>2
      <4>2. CASE ~(j <= Len(pre))
        <5>1. j > Len(pre) + 3 /\ j - Len(pre) - 3 = 1
          <6>1. Len(pre) \in Nat /\ Len(f) = Len(pre) + 4 /\ j \in Nat /\ j <= Len(f)
            BY <2>5, <3>1
          <6>2. j \notin (Len(pre) + 1)..(Len(pre) + 3)
            BY <2>6
          <6> QED BY <4>2, <6>1, <6>2
        <5> QED BY <2>5, <3>1, <5>1
      <4> QED BY <4>1, <4>2
    <3> HIDE DEF i
    <3> QED BY <2>6, <2>7, <2>9, <3>4, <3>5, <3>6
  <2> QED BY <2>8, <2>9
<1> QED BY <1>1, AlwaysShaped, PTL

\* BlocksStayWhole: updates never pile up (lib.rs:405-421).
THEOREM OneBlockOnly == Spec => []BlocksStayWhole
<1>1. HInv /\ FilesShaped => BlocksStayWhole
  <2> SUFFICES ASSUME HInv, FilesShaped, NEW e \in Entries, cuts[e] = 0, ~Writing(e)
               PROVE  OneBlock(Contents(e))
    BY DEF BlocksStayWhole
  <2>1. First(e) \in Seq(Pieces) /\ OneBlock(First(e))
    BY FirstIsOne DEF FilesShaped, First
  <2>2. \A b \in Blocks : OneBlock(Around(First(e), b))
    BY <2>1, AroundUpdated
  <2>3. Whole(e) = First(e) \/ \E b \in Blocks : Whole(e) = Around(First(e), b)
    BY DEF FilesShaped
  <2> QED BY <2>1, <2>2, <2>3, WholeIsThere
<1> QED BY <1>1, AlwaysShaped, PTL

\* IdempotentUncut: "Insert or replace the measured block in a BENCH.md,
\* idempotently" (lib.rs:394).
THEOREM SameBlockIsNoOp == Spec => []IdempotentUncut
<1>1. HInv /\ FilesShaped /\ BlocksPut => IdempotentUncut
  <2> SUFFICES ASSUME HInv, FilesShaped, BlocksPut, NEW e \in Entries,
                      cuts[e] = 0, written[e] # None, ~Writing(e)
               PROVE  Updated(Contents(e), written[e]) = Contents(e)
    BY DEF IdempotentUncut, NothingToChange
  <2>1. written[e] \in Blocks /\ Whole(e) = Around(First(e), written[e])
    BY DEF BlocksPut
  <2>2. Updated(Whole(e), written[e]) = Around(First(e), written[e])
    BY <2>1, UpdatedIsAround
  <2> QED BY <2>1, <2>2, WholeIsThere
<1> QED BY <1>1, AlwaysShaped, PTL

\* HealsInTwo: however often writes of a BENCH.md were cut short, two updates
\* later it has one whole block (lib.rs:405-421).
THEOREM TwoUpdatesHeal == Spec => []HealsInTwo
<1>1. HInv /\ FilesShaped => HealsInTwo
  <2> SUFFICES ASSUME HInv, FilesShaped, NEW e \in Entries, ~Writing(e),
                      NEW b \in BlocksFor(e), NEW c \in BlocksFor(e)
               PROVE  LET healed == Updated(Updated(Contents(e), b), c)
                      IN  OneBlock(healed) /\ Find(healed, BENCH_BEGIN) # 0
    BY DEF HealsInTwo
  <2>1. BlocksFor(e) \subseteq Blocks
    <3> DEFINE made(k, time) ==
          render_bench_block(e, Diff(Reading(<<k, k>>, e)), [contracts_sha |-> k, run_time |-> time])
    <3>1. ASSUME NEW k \in Commits, NEW time \in Times PROVE made(k, time) \in Blocks
      <4>1. PICK sides \in Commits \X Commits, stamp \in Stamps :
              sides = <<k, k>> /\ stamp = [contracts_sha |-> k, run_time |-> time]
        BY DEF Stamps
      <4>2. render_bench_block(e, Diff(Reading(sides, e)), stamp) \in Blocks
        BY RenderIsBlock
      <4> QED BY <4>1, <4>2
    <3>2. BlocksFor(e) = {made(k, time) : k \in Commits, time \in Times}
      BY DEF BlocksFor
    <3> HIDE DEF made
    <3> QED BY <3>1, <3>2
  <2>2. Contents(e) \in Seq(Pieces) /\ Mendable(Contents(e))
    BY WholeIsThere DEF FilesShaped
  <2> QED BY <2>1, <2>2, MendsInTwo
<1> QED BY <1>1, AlwaysShaped, PTL

------------------------------------------------------------------------------
\* What was printed, by the way a process went.
Silent == stdout = <<>> /\ cmd # "all" /\ (cmd = "pair" => exit # 0)

Refused == stdout = <<>> /\ exit \in {None, 2}

PairDone ==
  /\ cmd = "pair" /\ exit = 0
  /\ \E e \in Entries, sides \in Commits \X Commits :
       /\ stdout = <<report(e, Diff(Reading(sides, e)))>>
       /\ moved \/ sides[1] = sides[2]

AllDone ==
  /\ cmd = "all" /\ exit = AllExitCode(results) /\ stdout = render_table(results)
  /\ Len(results) = Len(patterns)
  /\ moved \/ \E c \in Commits : MeasuredAt(c)

SaidTrue ==
  /\ pc # "idle" => cmd \in {"all", "bench"} /\ exit = None /\ stdout = <<>>
  /\ Silent \/ Refused \/ PairDone \/ AllDone

LEMMA InitSaid == Init => SaidTrue
BY DEF Init, SaidTrue, Silent, Refused

\* A process says nothing until it ends, and then no more.
LEMMA NothingSaid ==
  ASSUME SaidTrue, pc # "idle", UNCHANGED <<cmd, exit, stdout>>
  PROVE  SaidTrue'
BY DEF SaidTrue, Refused, Silent

LEMMA NextSaid == HInv /\ SaidTrue /\ [Next]_vars => SaidTrue'
<1> SUFFICES ASSUME HInv, SaidTrue, [Next]_vars PROVE SaidTrue'
  OBVIOUS
<1>1. CASE Usage
  BY <1>1 DEF Usage, Exit, Launch, SaidTrue, Silent
<1>2. ASSUME NEW e \in Entries, NEW c \in Commits, RunPair(e, c) PROVE SaidTrue'
  <2>1. PICK output \in Outputs(e, c) :
          LET outcome == analyze_pair(output)
          IN  \/ outcome.error = None  /\ Exit(0, <<report(e, outcome.delta)>>)
              \/ outcome.error # None  /\ Exit(1, <<>>)
    BY <1>2 DEF RunPair
  <2> DEFINE outcome == analyze_pair(output)
  <2>2. head \in Commits
    BY DEF HInv, ProcessTyped
  <2>3. outcome.error = None => \E sides \in SidesUntil(c) : outcome.delta = Diff(Reading(sides, e))
    <3>1. None \notin Errors
      BY HarnessAssumption
    <3> QED BY <2>2, <3>1, Measures
  <2>4. cmd' = "pair" /\ moved' = (moved \/ c # head)
    BY <1>2 DEF RunPair, Launch
  <2> HIDE DEF outcome
  <2>5. CASE outcome.error = None /\ Exit(0, <<report(e, outcome.delta)>>)
    <3>1. PICK sides \in SidesUntil(c) : outcome.delta = Diff(Reading(sides, e))
      BY <2>3, <2>5
    <3>2. sides \in Commits \X Commits /\ (moved' \/ sides[1] = sides[2])
      BY <2>2, <2>4 DEF SidesUntil
    <3>3. stdout' = <<report(e, Diff(Reading(sides, e)))>> /\ exit' = 0 /\ pc' = "idle"
      BY <2>5, <3>1 DEF Exit
    <3>4. PairDone'
      BY <2>4, <3>2, <3>3 DEF PairDone
    <3> QED BY <3>3, <3>4 DEF SaidTrue
  <2>6. CASE Exit(1, <<>>)
    BY <2>4, <2>6 DEF Exit, SaidTrue, Silent
  <2> QED BY <2>1, <2>5, <2>6 DEF outcome
<1>3. ASSUME NEW c \in {"all", "bench"}, Start(c) PROVE SaidTrue'
  BY <1>3 DEF Start, Launch, SaidTrue, Refused
<1>4. ASSUME NEW available \in BOOLEAN, NEW listed \in Listings, Preflight(available, listed)
      PROVE  SaidTrue'
  <2>1. pc = "preflight" /\ cmd' = cmd /\ (Exit(2, <<>>) \/ UNCHANGED said)
    BY <1>4 DEF Preflight
  <2>2. CASE Exit(2, <<>>)
    BY <2>1, <2>2 DEF Exit, SaidTrue, Refused
  <2>3. CASE UNCHANGED said
    BY <2>1, <2>3, NothingSaid DEF said
  <2> QED BY <2>1, <2>2, <2>3
<1>5. ASSUME NEW c \in Commits, Analyze(c) PROVE SaidTrue'
  BY <1>5, NothingSaid DEF Analyze, said
<1>6. ASSUME NEW time \in Times, CollectProvenance(time) PROVE SaidTrue'
  BY <1>6, NothingSaid DEF CollectProvenance, said
<1>7. CASE FinishAll
  <2>1. /\ pc = "analyzing" /\ cmd' = "all" /\ Len(results) = Len(patterns)
        /\ pc' = "idle" /\ exit' = AllExitCode(results) /\ stdout' = render_table(results)
        /\ UNCHANGED <<results, patterns, moved>>
    BY <1>7 DEF FinishAll, Exit, batch, past
  <2>2. moved \/ \E c \in Commits : MeasuredAt(c)
    BY <2>1 DEF HInv, ResultsTrue, ProcessTyped
  <2>3. moved' \/ \E c \in Commits : MeasuredAt(c)'
    BY <2>1, <2>2 DEF MeasuredAt
  <2>4. AllExitCode(results)' = AllExitCode(results) /\ render_table(results)' = render_table(results)
    BY <2>1
  <2>5. AllDone'
    BY <2>1, <2>3, <2>4 DEF AllDone
  <2> QED BY <2>1, <2>5 DEF SaidTrue
<1>8. CASE FinishBench
  <2>1. pc # "idle" /\ cmd' = "bench" /\ pc' = "idle" /\ stdout' = <<>>
    BY <1>8 DEF FinishBench, Exit, HInv, Staged, Updater
  <2> QED BY <2>1 DEF SaidTrue, Silent
<1>9. CASE Skip \/ Current \/ Read
  BY <1>9, NothingSaid DEF Skip, Current, Read, Updating, said
<1>10. CASE UpdateFails
  BY <1>10, NothingSaid DEF UpdateFails, Updating, said
<1>11. CASE Truncate \/ WritePiece \/ EndWrite
  BY <1>11, NothingSaid DEF Truncate, WritePiece, EndWrite, said
<1>12. CASE WriteFails
  BY <1>12, NothingSaid DEF WriteFails, CutWrite, said
<1>13. CASE Crash
  BY <1>13 DEF Crash, SaidTrue, Refused
<1>14. ASSUME NEW c \in Commits, Checkout(c) PROVE SaidTrue'
  <2>1. /\ UNCHANGED <<pc, cmd, exit, stdout, results, patterns>>
        /\ moved => moved'
    BY <1>14 DEF Checkout, batch, said
  <2>2. CASE pc # "idle"
    BY <2>1, <2>2, NothingSaid
  <2>3. CASE pc = "idle"
    <3>1. AllDone => AllDone'
      BY <2>1 DEF AllDone, MeasuredAt, AllExitCode, incomplete, render_table
    <3> QED BY <2>1, <2>3, <3>1 DEF SaidTrue, Silent, Refused, PairDone
  <2> QED BY <2>2, <2>3
<1>15. CASE UNCHANGED vars
  <2>1. UNCHANGED <<pc, cmd, exit, stdout, results, patterns, moved>>
    BY <1>15 DEF vars, own, batch, said, past
  <2>2. AllDone => AllDone'
    BY <2>1 DEF AllDone, MeasuredAt, AllExitCode, incomplete, render_table
  <2> QED BY <2>1, <2>2 DEF SaidTrue, Silent, Refused, PairDone
<1> QED BY <1>1, <1>2, <1>3, <1>4, <1>5, <1>6, <1>7, <1>8, <1>9, <1>10, <1>11, <1>12, <1>13,
           <1>14, <1>15 DEF Next, Step

LEMMA AlwaysSaid == Spec => [](HInv /\ SaidTrue)
<1>1. Init => SaidTrue
  BY InitSaid
<1>2. HInv /\ SaidTrue /\ [Next]_vars => SaidTrue'
  BY NextSaid
<1> QED BY <1>1, <1>2, AlwaysHInv, PTL DEF Spec

\* A result says one thing.
LEMMA SaysOneThing ==
  ASSUME NEW r \in Results, WellFormed(r)
  PROVE  \/ r.delta \in Deltas /\ r.missing_sides = {} /\ r.error = None
         \/ r.delta = None /\ r.missing_sides # {} /\ r.error = None
         \/ r.delta = None /\ r.missing_sides = {} /\ r.error # None
<1> DEFINE Says(x) == CASE x = 1 -> r.delta # None
                        [] x = 2 -> r.missing_sides # {}
                        [] x = 3 -> r.error # None
           T == {x \in {1, 2, 3} : Says(x)}
<1>1. Cardinality(T) = 1
  BY DEF WellFormed
<1>2. /\ Says(1) <=> r.delta # None
      /\ Says(2) <=> r.missing_sides # {}
      /\ Says(3) <=> r.error # None
  OBVIOUS
<1> HIDE DEF Says
<1>3. IsFiniteSet(T)
  <2>1. T \in SUBSET (1..3)
    OBVIOUS
  <2>2. IsFiniteSet(1..3)
    <3>1. 1 \in Int /\ 3 \in Int
      OBVIOUS
    <3> QED BY ONLY <3>1, FS_Interval
  <2> QED BY <2>1, <2>2, FS_Subset
<1>4. PICK x : T = {x}
  BY <1>1, <1>3, FS_Singleton
<1>5. r.delta \in Deltas \cup {None}
  BY DEF Results
<1>6. \A y \in {1, 2, 3} : Says(y) <=> y = x
  BY <1>4
<1>7. x \in {1, 2, 3}
  BY <1>4
<1> QED BY <1>2, <1>5, <1>6, <1>7

\* ... and the verdict fits to it.
LEMMA Verdicts ==
  ASSUME NEW r \in Results, WellFormed(r)
  PROVE  /\ r.delta # None => /\ r.delta \in Deltas /\ r.missing_sides = {} /\ r.error = None
                              /\ verdict(r) = IF is_improvement(r.delta) THEN "IMPROVEMENT" ELSE "NO IMPROVEMENT"
         /\ r.delta = None => \/ r.missing_sides # {} /\ verdict(r) = "missing"
                              \/ r.missing_sides = {} /\ r.error # None /\ verdict(r) = "error"
BY SaysOneThing, HarnessAssumption DEF verdict

\* What is said of numbers.
Judged(d) == IF is_improvement(d) THEN "IMPROVEMENT" ELSE "NO IMPROVEMENT"

\* A row with numbers is true if they are the pattern's.
LEMMA TrueRow ==
  ASSUME NEW p \in Entries, NEW sides \in Commits \X Commits, NEW d, d = Diff(Reading(sides, p))
  PROVE  RowIsTrue(Row(p, d, Judged(d)), Reading(sides, p))
<1> DEFINE left  == Reading(sides, p).left
           right == Reading(sides, p).right
           row   == Row(p, d, Judged(d))
<1>1. \A m \in Metrics : left[m] \in Nat /\ right[m] \in Nat
  <2>1. left \in Counts /\ right \in Counts
    BY HarnessAssumption DEF Reading
  <2> QED BY <2>1 DEF Counts
<1>2. d \in Deltas /\ \A m \in Metrics : d[m] = right[m] - left[m]
  BY <1>1 DEF Diff, Deltas
<1>3. d # None
  BY <1>2, HarnessAssumption
<1> HIDE DEF left, right
<1>4. /\ row.writes = right.writes - left.writes
      /\ row.reads = right.reads - left.reads
      /\ row.findings = right.findings - left.findings
      /\ row.verdict = Judged(d)
  BY <1>2, <1>3 DEF Row, cell_delta, Metrics
<1>5. is_improvement(d) <=> right.writes < left.writes /\ right.findings <= left.findings
  <2>1. d.writes = right.writes - left.writes /\ d.findings = right.findings - left.findings
    BY <1>2 DEF Metrics
  <2>2. PICK a, b, x, y \in Nat : right.writes = a /\ left.writes = b /\ right.findings = x /\ left.findings = y
    BY <1>1 DEF Metrics
  <2>3. (a - b < 0 <=> a < b) /\ (x - y <= 0 <=> x <= y)
    OBVIOUS
  <2> QED BY <2>1, <2>2, <2>3 DEF is_improvement
<1> HIDE DEF row
<1>6. Judged(d) = IF right.writes < left.writes /\ right.findings <= left.findings
                  THEN "IMPROVEMENT" ELSE "NO IMPROVEMENT"
  BY <1>5, Zenon DEF Judged
<1> QED BY <1>4, <1>6, Zenon DEF RowIsTrue, left, right, row

LEMMA JudgedIsNumbered == \A d : Judged(d) \notin {"missing", "error", "unknown"}
BY Zenon DEF Judged

\* The row of a result: with the pattern's numbers, or without any.
LEMMA RowOfResult ==
  ASSUME HInv, NEW i \in DOMAIN results
  PROVE  LET row == render_table(results)[i]
         IN  /\ row.pattern = results[i].pattern /\ results[i].pattern \in Entries
             /\ results[i].delta # None =>
                  /\ row.verdict \notin {"missing", "error"}
                  /\ \A sides \in Commits \X Commits :
                       results[i].delta = Diff(Reading(sides, results[i].pattern)) =>
                         RowIsTrue(row, Reading(sides, results[i].pattern))
             /\ results[i].delta = None =>
                  /\ row.verdict \in {"missing", "error"}
                  /\ row.writes = None /\ row.reads = None /\ row.findings = None
<1> DEFINE r   == results[i]
           row == render_table(results)[i]
<1>1. r \in Results /\ WellFormed(r)
  <2>1. results \in Seq(Results) /\ DOMAIN results = 1..Len(results)
    BY LenProperties DEF HInv, ProcessTyped
  <2> QED BY <2>1, ElementOfSeq DEF HInv, ProcessTyped
<1>2. row = Row(r.pattern, r.delta, verdict(r))
  BY DEF render_table
<1> HIDE DEF r, row
<1>3. r.pattern \in Entries
  BY <1>1 DEF Results
<1>4. row.pattern = r.pattern /\ row.verdict = verdict(r)
  BY <1>2 DEF Row
<1>5. CASE r.delta # None
  <2>1. verdict(r) = Judged(r.delta)
    BY <1>1, <1>5, Verdicts DEF Judged
  <2>2. row.verdict \notin {"missing", "error"}
    BY <1>4, <2>1, JudgedIsNumbered
  <2>3. \A sides \in Commits \X Commits :
          r.delta = Diff(Reading(sides, r.pattern)) => RowIsTrue(row, Reading(sides, r.pattern))
    BY <1>2, <1>3, <2>1, TrueRow
  <2> QED BY <1>3, <1>4, <1>5, <2>2, <2>3 DEF r, row
<1>6. CASE r.delta = None
  <2>1. verdict(r) \in {"missing", "error"}
    BY <1>1, <1>6, Verdicts
  <2>2. row.writes = None /\ row.reads = None /\ row.findings = None
    BY <1>2, <1>6 DEF Row, cell_delta
  <2> QED BY <1>3, <1>4, <1>6, <2>1, <2>2 DEF r, row
<1> QED BY <1>5, <1>6

\* RowsAreTrue: one row per pattern in order, with the pattern's own numbers and
\* the verdict they deserve, or without any (lib.rs:255-300, main.rs:95-140).
THEOREM TableTrue == Spec => []RowsAreTrue
<1>1. HInv /\ SaidTrue => RowsAreTrue
  <2> SUFFICES ASSUME HInv, SaidTrue PROVE RowsAreTrue
    OBVIOUS
  <2> DEFINE Numbered   == {i \in DOMAIN stdout : stdout[i].verdict \notin {"missing", "error"}}
             True(sides, I) == \A i \in I : RowIsTrue(stdout[i], Reading(sides, stdout[i].pattern))
  <2>1. PICK c0 \in Commits : TRUE
    BY DEF HInv, ProcessTyped
  <2>2. CASE stdout = <<>> /\ ~(cmd = "all" /\ exit \in {0, 1}) /\ (cmd = "pair" => exit # 0)
    <3>1. DOMAIN stdout = {} /\ Len(stdout) = 0 /\ Numbered = {}
      BY <2>2
    <3>2. \A sides : True(sides, Numbered)
      BY <3>1
    <3> QED BY <2>1, <2>2, <3>1, <3>2 DEF RowsAreTrue
  <2>3. CASE PairDone
    <3>1. PICK e \in Entries, sides \in Commits \X Commits :
            /\ stdout = <<report(e, Diff(Reading(sides, e)))>>
            /\ moved \/ sides[1] = sides[2]
      BY <2>3 DEF PairDone
    <3> DEFINE d == Diff(Reading(sides, e))
    <3>2. report(e, d) = Row(e, d, Judged(d))
      BY DEF report, Judged
    <3>3. RowIsTrue(Row(e, d, Judged(d)), Reading(sides, e))
      BY TrueRow
    <3>4. Row(e, d, Judged(d)).pattern = e /\ Row(e, d, Judged(d)).verdict = Judged(d)
      BY DEF Row
    <3> HIDE DEF d
    <3>5. DOMAIN stdout = {1} /\ Len(stdout) = 1 /\ stdout[1] = Row(e, d, Judged(d))
      BY <3>1, <3>2 DEF d
    <3>6. stdout[1].verdict \notin {"missing", "error"}
      BY <3>4, <3>5, JudgedIsNumbered
    <3>7. Numbered = {1}
      BY <3>5, <3>6
    <3>8. True(sides, {1}) /\ True(sides, Numbered)
      BY <3>3, <3>4, <3>5, <3>7
    <3>9. cmd = "pair" /\ exit = 0 /\ DOMAIN stdout \ Numbered = {}
      BY <2>3, <3>5, <3>7 DEF PairDone
    <3>10. moved \/ \E c \in Commits : True(<<c, c>>, Numbered)
      <4>1. sides[1] = sides[2] => sides = <<sides[1], sides[1]>> /\ sides[1] \in Commits
        OBVIOUS
      <4> QED BY <3>1, <3>8, <4>1
    <3> HIDE DEF True, Numbered
    <3>11. \A i \in Numbered : \E t \in Commits \X Commits : True(t, {i})
      BY <3>7, <3>8
    <3> QED BY <3>5, <3>7, <3>9, <3>10, <3>11 DEF RowsAreTrue, True, Numbered
  <2>4. CASE AllDone
    <3>1. stdout = render_table(results) /\ DOMAIN stdout = DOMAIN results /\ cmd = "all"
      BY <2>4 DEF AllDone, render_table
    <3>2. \A i \in DOMAIN results :
            /\ stdout[i].pattern = results[i].pattern
            /\ results[i].delta # None =>
                 /\ stdout[i].verdict \notin {"missing", "error"}
                 /\ \A sides \in Commits \X Commits :
                      results[i].delta = Diff(Reading(sides, results[i].pattern)) =>
                        RowIsTrue(stdout[i], Reading(sides, results[i].pattern))
            /\ results[i].delta = None =>
                 /\ stdout[i].verdict \in {"missing", "error"}
                 /\ stdout[i].writes = None /\ stdout[i].reads = None /\ stdout[i].findings = None
      BY <3>1, RowOfResult
    <3>3. \A i \in DOMAIN stdout : i \in Numbered <=> results[i].delta # None
      BY <3>1, <3>2
    <3>4. [i \in DOMAIN stdout |-> stdout[i].pattern] = [i \in DOMAIN patterns |-> patterns[i].name]
      <4>1. DOMAIN stdout = DOMAIN patterns
        BY <2>4, <3>1, LenProperties DEF AllDone, HInv, ProcessTyped
      <4>2. \A i \in DOMAIN results : results[i].pattern = patterns[i].name
        BY DEF HInv, ProcessTyped
      <4> QED BY <3>1, <3>2, <4>1, <4>2
    <3>5. \A i \in DOMAIN stdout \ Numbered :
            stdout[i].writes = None /\ stdout[i].reads = None /\ stdout[i].findings = None
      BY <3>1, <3>2, <3>3
    <3>6. \A i \in Numbered : \E sides \in Commits \X Commits : True(sides, {i})
      <4> SUFFICES ASSUME NEW i \in Numbered PROVE \E sides \in Commits \X Commits : True(sides, {i})
        OBVIOUS
      <4>1. i \in DOMAIN results /\ results[i].delta # None
        BY <3>1, <3>3
      <4>2. PICK sides \in Commits \X Commits : results[i].delta = Diff(Reading(sides, results[i].pattern))
        BY <4>1 DEF HInv, ResultsTrue
      <4>3. RowIsTrue(stdout[i], Reading(sides, stdout[i].pattern))
        BY <3>2, <4>1, <4>2
      <4> QED BY <4>3
    <3>7. moved \/ \E c \in Commits : True(<<c, c>>, Numbered)
      <4> SUFFICES ASSUME NEW c \in Commits, MeasuredAt(c) PROVE True(<<c, c>>, Numbered)
        BY <2>4 DEF AllDone
      <4>1. \A i \in Numbered : i \in DOMAIN results /\ results[i].delta # None
        BY <3>1, <3>3
      <4>2. \A i \in Numbered : results[i].delta = Diff(Reading(<<c, c>>, results[i].pattern))
        BY <4>1 DEF MeasuredAt
      <4>3. <<c, c>> \in Commits \X Commits
        OBVIOUS
      <4> QED BY <3>2, <4>1, <4>2, <4>3
    <3> QED BY <3>1, <3>4, <3>5, <3>6, <3>7 DEF RowsAreTrue
  <2>5. None \notin {0, 1}
    BY HarnessAssumption
  <2>6. Silent \/ Refused =>
          stdout = <<>> /\ ~(cmd = "all" /\ exit \in {0, 1}) /\ (cmd = "pair" => exit # 0)
    BY <2>5 DEF Silent, Refused
  <2> QED BY <2>2, <2>3, <2>4, <2>6 DEF SaidTrue
<1> QED BY <1>1, AlwaysSaid, PTL

\* AllAgrees: the exit code of `all`, the verdicts and the summary are counted
\* apart from each other, and tell the same story (main.rs:118-140).
THEOREM AllTellsOneStory == Spec => []AllAgrees
<1>1. HInv /\ SaidTrue => AllAgrees
  <2> SUFFICES ASSUME HInv, SaidTrue, cmd = "all", exit \in {0, 1} PROVE AllAgrees
    BY DEF AllAgrees
  <2> DEFINE D    == DOMAIN results
             n    == Len(results)
             With == {i \in D : results[i].delta # None}
             Of(v) == {i \in D : verdict(results[i]) = v}
             Better == {i \in D : results[i].delta # None /\ is_improvement(results[i].delta)}
             Missing == {i \in D : results[i].delta = None /\ results[i].missing_sides # {}}
             Failed == {i \in D : results[i].delta = None /\ results[i].missing_sides = {}}
             s    == summarize(results)
  <2>1. exit = AllExitCode(results) /\ n = Len(patterns)
    <3>1. None \notin {0, 1}
      BY HarnessAssumption
    <3> QED BY <3>1 DEF SaidTrue, Silent, Refused, PairDone, AllDone
  <2>2. results \in Seq(Results) /\ D = 1..n /\ n \in Nat
    BY LenProperties DEF HInv, ProcessTyped
  <2>3. IsFiniteSet(D) /\ Cardinality(D) = n
    <3>1. IsFiniteSet(1..n) /\ Cardinality(1..n) = n
      BY <2>2, FS_Interval
    <3> QED BY <2>2, <3>1
  <2>4. s = IF Cardinality(With) > 0
            THEN [ok |-> Cardinality(With), missing |-> Cardinality(Missing),
                  failed |-> Cardinality(Failed), improved |-> Cardinality(Better)]
            ELSE None
    BY DEF summarize, Count
  <2>5. \A v : Count(results, LAMBDA r : verdict(r) = v) = Cardinality(Of(v))
    BY DEF Count
  <2>6. \A i \in D :
          /\ results[i].delta # None => /\ results[i].missing_sides = {} /\ results[i].error = None
                                        /\ verdict(results[i]) = Judged(results[i].delta)
          /\ results[i].delta = None => \/ results[i].missing_sides # {} /\ verdict(results[i]) = "missing"
                                        \/ /\ results[i].missing_sides = {} /\ results[i].error # None
                                           /\ verdict(results[i]) = "error"
    <3> SUFFICES ASSUME NEW i \in D
                 PROVE  /\ results[i].delta # None => /\ results[i].missing_sides = {} /\ results[i].error = None
                                                      /\ verdict(results[i]) = Judged(results[i].delta)
                        /\ results[i].delta = None => \/ results[i].missing_sides # {} /\ verdict(results[i]) = "missing"
                                                      \/ /\ results[i].missing_sides = {} /\ results[i].error # None
                                                         /\ verdict(results[i]) = "error"
      OBVIOUS
    <3>1. results[i] \in Results /\ WellFormed(results[i])
      BY <2>2, ElementOfSeq DEF HInv, ProcessTyped
    <3> QED BY <3>1, Verdicts, Zenon DEF Judged
  <2>7. IsFiniteSet(With) /\ Cardinality(With) \in Nat /\ (Cardinality(With) = n <=> With = D)
    <3>1. With \in SUBSET D
      OBVIOUS
    <3>2. IsFiniteSet(With) /\ (Cardinality(With) = Cardinality(D) => With = D)
      BY <2>3, <3>1, FS_Subset
    <3> QED BY <2>3, <3>2, FS_CardinalityType
  <2> DEFINE Good == "IMPROVEMENT"
             Bad  == "NO IMPROVEMENT"
  <2>8. \A d : (is_improvement(d) /\ Judged(d) = Good) \/ (~is_improvement(d) /\ Judged(d) = Bad)
    BY DEF Judged
  <2>9. Good # Bad /\ Good \notin {"missing", "error", "unknown"} /\ Bad \notin {"missing", "error", "unknown"}
    BY Zenon
  <2> HIDE DEF Good, Bad, s
  <2>10. With = Of(Good) \cup Of(Bad) /\ Of(Good) \cap Of(Bad) = {} /\ Better = Of(Good)
    BY <2>6, <2>8, <2>9
  <2>11. Missing = Of("missing") /\ Failed = Of("error") /\ Of("unknown") = {}
    BY <2>6, <2>8, <2>9
  <2>12. Cardinality(With) = Cardinality(Of(Good)) + Cardinality(Of(Bad))
    <3>1. Of(Good) \in SUBSET D /\ Of(Bad) \in SUBSET D
      OBVIOUS
    <3>2. IsFiniteSet(Of(Good)) /\ IsFiniteSet(Of(Bad))
      BY <2>3, <3>1, FS_Subset
    <3> HIDE DEF Of, With
    <3>3. Cardinality(Of(Good) \cap Of(Bad)) = 0
      BY <2>10, FS_EmptySet
    <3>4. Cardinality(Of(Good)) \in Nat /\ Cardinality(Of(Bad)) \in Nat
      BY <3>2, FS_CardinalityType
    <3>5. Cardinality(Of(Good) \cup Of(Bad)) =
            Cardinality(Of(Good)) + Cardinality(Of(Bad)) - Cardinality(Of(Good) \cap Of(Bad))
      BY <3>2, FS_Union
    <3> QED BY <2>10, <3>3, <3>4, <3>5
  <2>13. Cardinality(Of("unknown")) = 0
    BY <2>11, FS_EmptySet
  <2>14. exit = 0 <=> With = D
    <3>1. incomplete(results) <=> With # D
      BY <2>6 DEF incomplete
    <3> QED BY <2>1, <3>1 DEF AllExitCode
  <2>15. /\ n = Len(patterns)
         /\ exit = 0 <=> Cardinality(Of(Good)) + Cardinality(Of(Bad)) = Len(patterns)
         /\ Cardinality(Of("unknown")) = 0
         /\ s = IF Cardinality(Of(Good)) + Cardinality(Of(Bad)) = 0 THEN None
                ELSE [ok |-> Cardinality(Of(Good)) + Cardinality(Of(Bad)), missing |-> Cardinality(Of("missing")),
                      failed |-> Cardinality(Of("error")), improved |-> Cardinality(Of(Good))]
    <3>1. Cardinality(With) > 0 <=> ~(Cardinality(With) = 0)
      BY <2>7
    <3> HIDE DEF With, Of, Missing, Failed, Better
    <3> QED BY <2>1, <2>4, <2>7, <2>10, <2>11, <2>12, <2>13, <2>14, <3>1
  <2> HIDE DEF Of
  <2> QED BY <2>5, <2>15 DEF AllAgrees, Good, Bad, s
<1> QED BY <1>1, AlwaysSaid, PTL

------------------------------------------------------------------------------
\* What being counted as k says of the i-th pattern and its file.
Tells(i, k) ==
  LET e        == patterns[i].name
      numbered == results[i].delta # None
      same     == files[e] = before[e]
  IN  \/ k = "updated"   /\ numbered  /\ ~same /\ Readable(e)
      \/ k = "unchanged" /\ numbered  /\ same  /\ Readable(e)
      \/ k = "skipped"   /\ ~numbered /\ same
      \/ k = "failed"    /\ numbered  /\ (same \/ cuts[e] > 0)

\* o says as what each of the patterns done with was counted.
Accounts(o) ==
  /\ o \in [1..Sum(tally) -> DOMAIN NoTally]
  /\ \A k \in DOMAIN NoTally : tally[k] = Cardinality({i \in 1..Sum(tally) : o[i] = k})
  /\ \A i \in 1..Sum(tally) : Tells(i, o[i])

Tallied ==
  /\ pc \in Updater => \E o : Accounts(o)
  /\ pc = "idle" /\ cmd = "bench" /\ exit \in {0, 1} =>
       /\ Sum(tally) = Len(patterns) /\ exit = BenchExitCode(tally)
       /\ \E o : Accounts(o)

NamesDistinct ==
  \A i, j \in DOMAIN patterns : patterns[i].name = patterns[j].name => i = j

\* The files that are still to come are as the process found them; what is
\* being written is something else, and can be read.
Untouched ==
  /\ pc \in {"preflight", "analyzing"} => files = before
  /\ pc \in Updater =>
       \A i \in DOMAIN patterns : i >= At /\ ~(i = At /\ pc = "writing") =>
         files[patterns[i].name] = before[patterns[i].name]
  /\ pc = "opening" => Readable(Here) /\ NewContents # Contents(Here)
  /\ pc = "writing" => Intended[Here] # before[Here] /\ ~Contains(Intended[Here], Garbled)

ReportInv == Tallied /\ NamesDistinct /\ Untouched

\* A process that begins, or is killed, has no report.
LEMMA NoReportYet ==
  ASSUME patterns' = <<>>, pc' = "preflight" => files' = before',
         \/ pc' = "preflight"
         \/ pc' = "idle" /\ (cmd' # "bench" \/ exit' \notin {0, 1})
  PROVE  ReportInv'
BY DEF ReportInv, Tallied, NamesDistinct, Untouched, Updater

\* An account stays true while the files it is about do not change.
LEMMA SameAccounts ==
  ASSUME NEW o, Accounts(o), UNCHANGED <<patterns, results, tally, before>>,
         \A i \in 1..Sum(tally) : files'[patterns[i].name] = files[patterns[i].name]
                                  /\ cuts'[patterns[i].name] = cuts[patterns[i].name]
  PROVE  Accounts(o)'
<1>1. \A i \in 1..Sum(tally), k \in DOMAIN NoTally : Tells(i, k) => Tells(i, k)'
  <2> SUFFICES ASSUME NEW i \in 1..Sum(tally), NEW k \in DOMAIN NoTally, Tells(i, k)
               PROVE  Tells(i, k)'
    OBVIOUS
  <2>1. Readable(patterns[i].name)' <=> Readable(patterns[i].name)
    BY DEF Readable, Contents
  <2> QED BY <2>1 DEF Tells
<1>2. Sum(tally)' = Sum(tally)
  BY DEF Sum
<1> QED BY <1>1, <1>2 DEF Accounts

\* The names of other patterns are not the one the loop is at.
LEMMA OtherNames ==
  ASSUME HInv, NamesDistinct, pc \in Updater, At <= Len(patterns)
  PROVE  /\ \A i \in DOMAIN patterns : i # At => patterns[i].name # Here
         /\ \A i \in DOMAIN patterns : patterns[i].name \in Entries
         /\ \A i \in 1..Sum(tally) : i \in DOMAIN patterns /\ i # At
         /\ \A i \in DOMAIN patterns : i >= At + 1 => i >= At /\ i # At
         /\ Sum(tally) \in Nat
<1>1. At \in DOMAIN patterns /\ At \in 1..Len(patterns)
  BY HereIs
<1>2. patterns \in Seq(Patterns) /\ tally \in [DOMAIN NoTally -> Nat]
  BY DEF HInv, ProcessTyped
<1>3. Len(patterns) \in Nat /\ DOMAIN patterns = 1..Len(patterns)
  BY <1>2, LenProperties
<1>4. \A i \in DOMAIN patterns : patterns[i] \in Patterns
  BY <1>2, <1>3, ElementOfSeq
<1>5. Sum(tally) \in Nat
  BY <1>2 DEF Sum, NoTally
<1> QED BY <1>1, <1>3, <1>4, <1>5 DEF NamesDistinct, Here, Patterns, At

\* A step in the middle of an update, of the file at hand alone.
LEMMA SameReport ==
  ASSUME HInv, ReportInv, pc \in Updater, At <= Len(patterns),
         UNCHANGED <<patterns, results, tally, before, cuts>>,
         \A e \in Entries \ {Here} : files'[e] = files[e],
         pc' \in {"opening", "writing"},
         pc' = "opening" => UNCHANGED files /\ pc # "writing" /\ (Readable(Here) /\ NewContents # Contents(Here))',
         pc' = "writing" => (Intended[Here] # before[Here] /\ ~Contains(Intended[Here], Garbled))'
  PROVE  ReportInv'
<1>1. /\ \A i \in DOMAIN patterns : i # At => patterns[i].name # Here
      /\ \A i \in DOMAIN patterns : patterns[i].name \in Entries
      /\ \A i \in 1..Sum(tally) : i \in DOMAIN patterns /\ i # At
  BY OtherNames DEF ReportInv
<1>2. At' = At
  BY DEF At
<1>3. NamesDistinct'
  BY DEF ReportInv, NamesDistinct
<1>4. Tallied'
  <2>1. PICK o : Accounts(o)
    BY DEF ReportInv, Tallied
  <2>2. Accounts(o)'
    BY <1>1, <2>1, SameAccounts
  <2> QED BY <2>2 DEF Tallied, Updater
<1>5. \A i \in DOMAIN patterns' : i >= At' /\ ~(i = At' /\ pc' = "writing") =>
        files'[patterns'[i].name] = before'[patterns'[i].name]
  <2> SUFFICES ASSUME NEW i \in DOMAIN patterns, i >= At, ~(i = At /\ pc' = "writing")
               PROVE  files'[patterns[i].name] = before[patterns[i].name]
    BY <1>2
  <2>1. ~(i = At /\ pc = "writing") => files[patterns[i].name] = before[patterns[i].name]
    BY DEF ReportInv, Untouched
  <2>2. CASE i # At
    BY <1>1, <2>1, <2>2
  <2>3. CASE i = At
    BY <2>1, <2>3
  <2> QED BY <2>2, <2>3
<1>6. Untouched'
  BY <1>5 DEF Untouched
<1> QED BY <1>3, <1>4, <1>6 DEF ReportInv

\* The pattern at hand is done with, and counted as what happened to its file.
LEMMA NextReport ==
  ASSUME HInv, ReportInv, pc \in Updater, At <= Len(patterns),
         UNCHANGED <<patterns, results, before>>,
         \A e \in Entries \ {Here} : files'[e] = files[e] /\ cuts'[e] = cuts[e],
         pc' = "updating", NEW k \in DOMAIN NoTally, Counted(k),
         \A i : i = At => Tells(i, k)'
  PROVE  ReportInv'
<1> DEFINE n == Sum(tally)
<1>1. /\ \A i \in DOMAIN patterns : i # At => patterns[i].name # Here
      /\ \A i \in DOMAIN patterns : patterns[i].name \in Entries
      /\ \A i \in 1..n : i \in DOMAIN patterns /\ i # At
      /\ n \in Nat
  BY OtherNames DEF ReportInv
<1>2. At = n + 1
  BY DEF At
<1>3. tally' \in [DOMAIN NoTally -> Nat] /\ Sum(tally') = n + 1
  BY CountedOnce
<1>4. tally \in [DOMAIN NoTally -> Nat]
  BY DEF HInv, ProcessTyped
<1>5. tally' = [tally EXCEPT ![k] = tally[k] + 1]
  BY DEF Counted
<1>6. At' = n + 2
  BY <1>1, <1>3 DEF At
<1>7. PICK o : Accounts(o)
  BY DEF ReportInv, Tallied
<1>p. PICK p : p = [i \in 1..(n + 1) |-> IF i = n + 1 THEN k ELSE o[i]]
  OBVIOUS
<1>8. p \in [1..(n + 1) -> DOMAIN NoTally]
  BY <1>1, <1>7, <1>p DEF Accounts
<1>9. \A x \in DOMAIN NoTally : tally'[x] = Cardinality({i \in 1..(n + 1) : p[i] = x})
  <2> SUFFICES ASSUME NEW x \in DOMAIN NoTally
               PROVE  tally'[x] = Cardinality({i \in 1..(n + 1) : p[i] = x})
    OBVIOUS
  <2> DEFINE A == {i \in 1..n : o[i] = x}
             B == {i \in 1..(n + 1) : p[i] = x}
  <2>1. tally[x] = Cardinality(A) /\ tally[x] \in Nat
    BY <1>4, <1>7 DEF Accounts
  <2>2. IsFiniteSet(A) /\ n + 1 \notin A
    <3>1. IsFiniteSet(1..n) /\ A \in SUBSET (1..n)
      <4>1. IsFiniteSet(1..n)
        BY <1>1, FS_Interval
      <4> QED BY <4>1
    <3> QED BY <1>1, <3>1, FS_Subset
  <2>3. CASE x = k
    <3>1. B = A \cup {n + 1}
      BY <1>1, <1>p, <2>3
    <3>2. Cardinality(B) = Cardinality(A) + 1
      <4>1. Cardinality(A \cup {n + 1}) = Cardinality(A) + 1
        BY ONLY <2>2, FS_AddElement
      <4> QED BY <3>1, <4>1
    <3> QED BY <1>4, <1>5, <2>1, <2>3, <3>2
  <2>4. CASE x # k
    <3>1. B = A
      BY <1>1, <1>p, <2>4
    <3> QED BY <1>4, <1>5, <2>1, <2>4, <3>1
  <2> QED BY <2>3, <2>4
<1>10. \A i \in 1..(n + 1) : Tells(i, p[i])'
  <2> SUFFICES ASSUME NEW i \in 1..(n + 1) PROVE Tells(i, p[i])'
    OBVIOUS
  <2>1. CASE i = n + 1
    <3>1. i = At /\ p[i] = k
      BY <1>2, <1>p, <2>1
    <3> QED BY <3>1
  <2>2. CASE i # n + 1
    <3>1. i \in 1..n /\ p[i] = o[i]
      BY <1>1, <1>p, <2>2
    <3>2. Tells(i, o[i])
      BY <1>7, <3>1 DEF Accounts
    <3>3. files'[patterns[i].name] = files[patterns[i].name] /\ cuts'[patterns[i].name] = cuts[patterns[i].name]
      BY <1>1, <3>1
    <3>4. Readable(patterns[i].name)' <=> Readable(patterns[i].name)
      BY <3>3 DEF Readable, Contents
    <3>5. Tells(i, o[i])'
      BY <3>2, <3>3, <3>4 DEF Tells
    <3> QED BY <3>1, <3>5
  <2> QED BY <2>1, <2>2
<1>11. Accounts(p)'
  <2>1. Sum(tally)' = n + 1
    BY <1>3 DEF Sum
  <2> QED BY <1>8, <1>9, <1>10, <2>1 DEF Accounts
<1>12. Tallied'
  BY <1>11 DEF Tallied, Updater
<1>13. NamesDistinct'
  BY DEF ReportInv, NamesDistinct
<1>14. \A i \in DOMAIN patterns : i >= n + 2 => files'[patterns[i].name] = before[patterns[i].name]
  <2> SUFFICES ASSUME NEW i \in DOMAIN patterns, i >= n + 2
               PROVE  files'[patterns[i].name] = before[patterns[i].name]
    OBVIOUS
  <2>1. i \in Nat
    BY LenProperties DEF HInv, ProcessTyped
  <2>2. i >= At /\ i # At
    BY <1>1, <1>2, <2>1
  <2>3. files[patterns[i].name] = before[patterns[i].name]
    BY <2>2 DEF ReportInv, Untouched
  <2> QED BY <1>1, <2>2, <2>3
<1>15. Untouched'
  BY <1>6, <1>14 DEF Untouched
<1> QED BY <1>12, <1>13, <1>15 DEF ReportInv

\* The loop begins with every file as it was found, and nothing counted.
LEMMA CollectReport ==
  ASSUME HInv, ReportInv, NEW time \in Times, CollectProvenance(time) PROVE ReportInv'
<1>1. /\ pc = "analyzing" /\ pc' = "updating" /\ tally = NoTally
      /\ UNCHANGED <<files, patterns, results, tally, before>>
  BY DEF CollectProvenance, HInv, Staged, shared, batch, past
<1>2. Sum(tally)' = 0 /\ 1..0 = {}
  BY <1>1 DEF Sum, NoTally
<1>3. PICK o : o = [i \in 1..0 |-> "skipped"]
  OBVIOUS
<1>4. \A k \in DOMAIN NoTally : tally'[k] = Cardinality({i \in 1..0 : o[i] = k})
  <2>1. \A k \in DOMAIN NoTally : tally'[k] = 0 /\ {i \in 1..0 : o[i] = k} = {}
    BY <1>1, <1>2 DEF NoTally
  <2> QED BY <2>1, FS_EmptySet
<1>5. Accounts(o)'
  BY <1>2, <1>3, <1>4 DEF Accounts
<1>6. Tallied'
  BY <1>1, <1>5 DEF Tallied, Updater
<1>7. NamesDistinct' /\ Untouched'
  BY <1>1 DEF ReportInv, NamesDistinct, Untouched
<1> QED BY <1>6, <1>7 DEF ReportInv

\* Before the first update is begun nothing is counted and nothing changed.
LEMMA BatchReport ==
  ASSUME HInv, ReportInv,
         \/ \E c \in Commits : Analyze(c)
         \/ \E available \in BOOLEAN, listed \in Listings : Preflight(available, listed)
  PROVE  ReportInv'
<1>1. ASSUME NEW c \in Commits, Analyze(c) PROVE ReportInv'
  <2>1. pc = "analyzing" /\ pc' = "analyzing" /\ UNCHANGED <<files, patterns, before>>
    BY <1>1 DEF Analyze
  <2> QED BY <2>1 DEF ReportInv, Tallied, NamesDistinct, Untouched, Updater
<1>2. ASSUME NEW available \in BOOLEAN, NEW listed \in Listings, Preflight(available, listed)
      PROVE  ReportInv'
  <2>1. /\ pc = "preflight" /\ patterns = <<>> /\ UNCHANGED <<files, before>>
        /\ head \in Commits /\ tree \in Trees[head]
    BY <1>2 DEF Preflight, HInv, Staged, ProcessTyped, shared, past
  <2>2. CASE patterns' = discover_patterns(listed, tree) /\ pc' = "analyzing"
    <3>1. NamesDistinct'
      BY <2>1, <2>2, Discovered DEF NamesDistinct
    <3> QED BY <2>1, <2>2, <3>1 DEF ReportInv, Tallied, Untouched, Updater
  <2>3. CASE Exit(2, <<>>) /\ UNCHANGED patterns
    <3>1. pc' = "idle" /\ exit' \notin {0, 1} /\ patterns' = <<>>
      BY <2>1, <2>3 DEF Exit
    <3> QED BY <3>1, NoReportYet
  <2> QED BY <1>2, <2>2, <2>3 DEF Preflight
<1> QED BY <1>1, <1>2

\* What is reported in the end is what was counted.
LEMMA FinishReport == ASSUME HInv, ReportInv, FinishAll \/ FinishBench PROVE ReportInv'
<1>1. /\ pc' = "idle" /\ UNCHANGED <<files, cuts, cmd, patterns, results, tally, before>>
  BY DEF FinishAll, FinishBench, Exit, shared, batch, past
<1>2. NamesDistinct' /\ Untouched'
  BY <1>1 DEF ReportInv, NamesDistinct, Untouched, Updater
<1>3. CASE FinishAll
  BY <1>1, <1>2, <1>3 DEF FinishAll, ReportInv, Tallied, Updater
<1>4. CASE FinishBench
  <2>1. pc \in Updater /\ At > Len(patterns) /\ exit' = BenchExitCode(tally)
    BY <1>4 DEF FinishBench, Exit, Updater
  <2>2. PICK o : Accounts(o)
    BY <2>1 DEF ReportInv, Tallied
  <2>3. Accounts(o)'
    BY <1>1, <2>2, SameAccounts
  <2>4. Sum(tally) = Len(patterns)
    <3>1. tally \in [DOMAIN NoTally -> Nat] /\ Sum(tally) <= Len(patterns) /\ Len(patterns) \in Nat
      BY LenProperties DEF HInv, ProcessTyped
    <3>2. Sum(tally) \in Nat
      BY <3>1 DEF Sum, NoTally
    <3> QED BY <2>1, <3>1, <3>2 DEF At
  <2>5. Tallied'
    BY <1>1, <2>1, <2>3, <2>4 DEF Tallied, Updater, Sum, BenchExitCode
  <2> QED BY <1>2, <2>5 DEF ReportInv
<1> QED BY <1>3, <1>4

\* No numbers: the file stays.
LEMMA SkipReport == ASSUME HInv, ReportInv, Skip PROVE ReportInv'
<1>1. /\ pc = "updating" /\ pc' = "updating" /\ At <= Len(patterns) /\ Counted("skipped")
      /\ results[At].delta = None
      /\ UNCHANGED <<files, cuts, patterns, results, before>>
  BY DEF Skip, shared, batch, past
<1>2. "skipped" \in DOMAIN NoTally
  BY DEF NoTally
<1>3. At \in DOMAIN patterns /\ At >= At
  BY <1>1, HereIs DEF Updater
<1>4. files[patterns[At].name] = before[patterns[At].name]
  BY <1>1, <1>3 DEF ReportInv, Untouched, Updater
<1>5. \A i : i = At => Tells(i, "skipped")'
  BY <1>1, <1>4 DEF Tells
<1> QED BY <1>1, <1>2, <1>5, NextReport DEF Updater

\* Not read, or not opened: the file stays.
LEMMA UpdateFailsReport == ASSUME HInv, ReportInv, UpdateFails PROVE ReportInv'
<1>1. /\ pc \in {"updating", "opening"} /\ pc' = "updating" /\ At <= Len(patterns) /\ Counted("failed")
      /\ results[At].delta # None
      /\ UNCHANGED <<files, cuts, patterns, results, before>>
  BY DEF UpdateFails, Updating, HInv, Staged, shared, batch, past
<1>2. "failed" \in DOMAIN NoTally
  BY DEF NoTally
<1>3. At \in DOMAIN patterns /\ At >= At
  BY <1>1, HereIs DEF Updater
<1>4. files[patterns[At].name] = before[patterns[At].name]
  BY <1>1, <1>3 DEF ReportInv, Untouched, Updater
<1>5. \A i : i = At => Tells(i, "failed")'
  BY <1>1, <1>4 DEF Tells
<1> QED BY <1>1, <1>2, <1>5, NextReport DEF Updater

\* Nothing to change: the file stays, and was read.
LEMMA CurrentReport == ASSUME HInv, ReportInv, Current PROVE ReportInv'
<1>1. /\ pc = "updating" /\ pc' = "updating" /\ At <= Len(patterns) /\ Counted("unchanged")
      /\ results[At].delta # None /\ Readable(Here)
      /\ UNCHANGED <<files, cuts, patterns, results, before>>
  BY DEF Current, Updating, shared, batch
<1>2. "unchanged" \in DOMAIN NoTally
  BY DEF NoTally
<1>3. At \in DOMAIN patterns /\ At >= At
  BY <1>1, HereIs DEF Updater
<1>4. files[patterns[At].name] = before[patterns[At].name]
  BY <1>1, <1>3 DEF ReportInv, Untouched, Updater
<1>5. \A i : i = At => Tells(i, "unchanged")'
  BY <1>1, <1>4 DEF Tells, Readable, Contents, Here
<1> QED BY <1>1, <1>2, <1>5, NextReport DEF Updater

LEMMA ReadReport == ASSUME HInv, ReportInv, Read PROVE ReportInv'
<1>1. /\ pc = "updating" /\ pc' = "opening" /\ At <= Len(patterns)
      /\ Readable(Here) /\ NewContents # Contents(Here)
      /\ UNCHANGED <<files, cuts, patterns, results, prov, tally, before>>
  BY DEF Read, Updating, shared, batch, past
<1>2. At' = At
  BY <1>1 DEF At
<1>3. (Readable(Here) /\ NewContents # Contents(Here))'
  BY <1>1, <1>2 DEF Readable, NewContents, Contents, Block, Here
<1> QED BY <1>1, <1>3, SameReport DEF Updater

\* The new contents are not what was there, and can be read.
LEMMA TruncateReport == ASSUME HInv, ReportInv, Truncate PROVE ReportInv'
<1>1. /\ pc = "opening" /\ pc' = "writing" /\ At <= Len(patterns) /\ results[At].delta # None
      /\ files' = [files EXCEPT ![Here] = <<>>]
      /\ Readable(Here) /\ NewContents # Contents(Here)
      /\ UNCHANGED <<cuts, patterns, results, prov, tally, before>>
  BY DEF Truncate, HInv, Staged, ReportInv, Untouched, batch
<1>2. /\ At \in DOMAIN patterns /\ At >= At /\ Here \in Entries
  BY <1>1, HereIs DEF Updater
<1>3. files[Here] = before[Here]
  BY <1>1, <1>2 DEF ReportInv, Untouched, Updater, Here
<1>4. /\ files = [e \in Entries |-> files[e]]
      /\ files[Here] \in {None} \cup Seq(TruePieces(Here))
  BY <1>2 DEF HInv, FilesTrue
<1>5. Intended' = [Intended EXCEPT ![Here] = NewContents] /\ Intended = files
  BY TruncateImplements
<1>6. Intended'[Here] = NewContents
  BY <1>2, <1>4, <1>5
<1>7. Block \in Seq(TruePieces(Here)) /\ NewContents \in Seq(TruePieces(Here))
  BY <1>1, BlockIsTrue DEF Updater
<1>8. NewContents # before[Here]
  <2>1. TruePieces(Here) \subseteq Pieces
    BY DEF TruePieces
  <2>2. NewContents # None
    <3>1. NewContents \in Seq(Pieces) /\ None \notin Seq(Pieces)
      BY <1>7, <2>1, SeqMonotonic, HarnessAssumption DEF Pieces
    <3> QED BY <3>1
  <2> QED BY <1>1, <1>3, <2>2 DEF Contents
<1>9. ~Contains(NewContents, Garbled)
  <2> DEFINE S == TruePieces(Here) \ {Garbled}
  <2>1. Contents(Here) \in Seq(S)
    <3>1. Contents(Here) \in Seq(TruePieces(Here))
      BY <1>4 DEF Contents
    <3>2. \A i \in 1..Len(Contents(Here)) : Contents(Here)[i] # Garbled
      BY <1>1, <3>1, LenProperties DEF Readable, Contains
    <3>3. \A i \in 1..Len(Contents(Here)) : Contents(Here)[i] \in S
      BY <3>1, <3>2, ElementOfSeq
    <3> QED BY <3>1, <3>3
  <2>2. Block \in Seq(S)
    <3>1. PICK sides \in Commits \X Commits, stamp \in Stamps :
            Block = render_bench_block(Here, Diff(Reading(sides, Here)), stamp)
      BY <1>1, BlockIsTrue DEF Updater
    <3>2. Block \in Blocks
      BY <1>2, <3>1, RenderIsBlock
    <3>3. PICK body \in Bodies : Block = <<BENCH_BEGIN, body, BENCH_END>>
      BY <3>2 DEF Blocks
    <3>4. Garbled \notin {BENCH_BEGIN, body, BENCH_END}
      BY <3>3, HarnessAssumption DEF Marks
    <3>5. \A i \in 1..Len(Block) : Block[i] \in S
      <4>1. \A i \in 1..Len(Block) : Block[i] \in TruePieces(Here)
        BY <1>7, ElementOfSeq
      <4> QED BY <3>3, <3>4, <4>1
    <3> QED BY <1>7, <3>5
  <2>3. Newline \in S
    BY HarnessAssumption DEF TruePieces, Pieces, Marks
  <2>4. NewContents \in Seq(S)
    BY <2>1, <2>2, <2>3, UpdatedTyped DEF NewContents
  <2>5. \A i \in 1..Len(NewContents) : NewContents[i] \in S
    BY <2>4, ElementOfSeq
  <2> QED BY <2>5 DEF Contains
<1>10. At' = At
  BY <1>1 DEF At
<1>11. Here' = Here
  BY <1>1, <1>10 DEF Here
<1>12. (Intended[Here] # before[Here] /\ ~Contains(Intended[Here], Garbled))'
  BY <1>1, <1>6, <1>8, <1>9, <1>11
<1>13. \A e \in Entries \ {Here} : files'[e] = files[e]
  BY <1>1, <1>4
<1> QED BY <1>1, <1>12, <1>13, SameReport DEF Updater

LEMMA WritePieceReport == ASSUME HInv, ReportInv, WritePiece PROVE ReportInv'
<1>1. /\ pc = "writing" /\ pc' = "writing" /\ At <= Len(patterns)
      /\ files' = [files EXCEPT ![Here] = Append(files[Here], Head(todo))]
      /\ UNCHANGED <<cuts, patterns, results, tally, before>>
  BY DEF WritePiece, HInv, Staged, batch, past
<1>2. Intended' = Intended
  BY WritePieceImplements DEF Updates!vars
<1>3. At' = At
  BY <1>1 DEF At
<1>4. Here' = Here
  BY <1>1, <1>3 DEF Here
<1>5. (Intended[Here] # before[Here] /\ ~Contains(Intended[Here], Garbled))'
  BY <1>1, <1>2, <1>4 DEF ReportInv, Untouched
<1>6. files = [e \in Entries |-> files[e]]
  BY DEF HInv, FilesTrue
<1>7. \A e \in Entries \ {Here} : files'[e] = files[e]
  BY <1>1, <1>6
<1> QED BY <1>1, <1>5, <1>7, SameReport DEF Updater

\* All is out: the file is what it was going to be.
LEMMA EndWriteReport == ASSUME HInv, ReportInv, EndWrite PROVE ReportInv'
<1>1. /\ pc = "writing" /\ todo = <<>> /\ pc' = "updating" /\ At <= Len(patterns)
      /\ Counted("updated") /\ results[At].delta # None
      /\ UNCHANGED <<files, cuts, patterns, results, before>>
  BY DEF EndWrite, HInv, Staged, shared, batch
<1>2. "updated" \in DOMAIN NoTally
  BY DEF NoTally
<1>3. Intended' = Intended /\ Intended' = files'
  BY <1>1, AllIsOut DEF Updates!vars, Intended
<1>4. files[Here] # before[Here] /\ ~Contains(files[Here], Garbled)
  BY <1>1, <1>3 DEF ReportInv, Untouched
<1>5. files[Here] # None
  <2>1. Here \in Entries
    BY <1>1, HereIs DEF Updater
  <2>2. files[Here] \in Seq(TruePieces(Here))
    BY <1>1, <2>1 DEF HInv, FilesTrue, Writing
  <2>3. TruePieces(Here) \subseteq Pieces
    BY DEF TruePieces
  <2>4. files[Here] \in Seq(Pieces)
    BY <2>2, <2>3, SeqMonotonic
  <2> QED BY <2>4, HarnessAssumption DEF Pieces
<1>6. \A i : i = At => Tells(i, "updated")'
  BY <1>1, <1>4, <1>5 DEF Tells, Readable, Contents, Here
<1> QED BY <1>1, <1>2, <1>6, NextReport DEF Updater

\* A write that is cut short changes one file, and is told by its cuts.
LEMMA CutAlone ==
  ASSUME HInv, CutWrite
  PROVE  /\ \A e \in Entries \ {Here} : files'[e] = files[e] /\ cuts'[e] = cuts[e]
         /\ cuts'[Here] > 0
<1>1. Here \in Entries
  BY HereIs DEF HInv, Staged, Updater, CutWrite
<1>2. files = [e \in Entries |-> files[e]] /\ cuts \in [Entries -> Nat]
  BY DEF HInv, FilesTrue, CutsTyped
<1>3. PICK rest \in Rests(Head(todo)) : files' = [files EXCEPT ![Here] = files[Here] \o rest]
  BY DEF CutWrite
<1>4. cuts' = [cuts EXCEPT ![Here] = cuts[Here] + 1]
  BY DEF CutWrite
<1> QED BY <1>1, <1>2, <1>3, <1>4

LEMMA WriteFailsReport == ASSUME HInv, ReportInv, WriteFails PROVE ReportInv'
<1>1. /\ CutWrite /\ pc = "writing" /\ pc' = "updating" /\ At <= Len(patterns)
      /\ Counted("failed") /\ results[At].delta # None
      /\ UNCHANGED <<patterns, results, before>>
  BY DEF WriteFails, CutWrite, HInv, Staged, batch, past
<1>2. "failed" \in DOMAIN NoTally
  BY DEF NoTally
<1>3. \A i : i = At => Tells(i, "failed")'
  BY <1>1, CutAlone DEF Tells, Here
<1> QED BY <1>1, <1>2, <1>3, CutAlone, NextReport DEF Updater

LEMMA CheckoutReport ==
  ASSUME HInv, ReportInv, UNCHANGED <<files, pc, cmd, patterns, results, prov, todo, tally, exit, before, cuts>>
  PROVE  ReportInv'
<1>1. /\ Here' = Here /\ At' = At /\ NewContents' = NewContents /\ Intended' = Intended
      /\ Contents(Here)' = Contents(Here) /\ Sum(tally)' = Sum(tally)
  BY DEF Here, At, NewContents, Contents, Block, Intended, Sum
<1>2. \A o : Accounts(o) => Accounts(o)'
  BY SameAccounts
<1>3. Tallied'
  BY <1>1, <1>2 DEF ReportInv, Tallied, BenchExitCode
<1>4. NamesDistinct' /\ Untouched'
  BY <1>1 DEF ReportInv, NamesDistinct, Untouched, Readable
<1> QED BY <1>3, <1>4 DEF ReportInv

\* Every step keeps the report true.
LEMMA NextReportInv == HInv /\ ReportInv /\ [Next]_vars => ReportInv'
<1> SUFFICES ASSUME HInv, ReportInv, [Next]_vars PROVE ReportInv'
  OBVIOUS
<1> USE DEF Exit
<1>n. None \notin {0, 1}
  BY HarnessAssumption
<1>1. CASE Usage
  BY <1>1, NoReportYet DEF Usage, Launch
<1>2. ASSUME NEW e \in Entries, NEW c \in Commits, RunPair(e, c) PROVE ReportInv'
  <2>1. Launch("pair") /\ pc' = "idle"
    BY <1>2 DEF RunPair
  <2> QED BY <2>1, NoReportYet DEF Launch
<1>3. ASSUME NEW c \in {"all", "bench"}, Start(c) PROVE ReportInv'
  BY <1>3, NoReportYet DEF Start, Launch
<1>4. ASSUME NEW available \in BOOLEAN, NEW listed \in Listings, Preflight(available, listed)
      PROVE  ReportInv'
  BY <1>4, BatchReport
<1>5. ASSUME NEW c \in Commits, Analyze(c) PROVE ReportInv'
  BY <1>5, BatchReport
<1>6. ASSUME NEW time \in Times, CollectProvenance(time) PROVE ReportInv'
  BY <1>6, CollectReport
<1>7. CASE FinishAll \/ FinishBench
  BY <1>7, FinishReport
<1>8. CASE Skip
  BY <1>8, SkipReport
<1>9. CASE UpdateFails
  BY <1>9, UpdateFailsReport
<1>10. CASE Current
  BY <1>10, CurrentReport
<1>11. CASE Read
  BY <1>11, ReadReport
<1>12. CASE Truncate
  BY <1>12, TruncateReport
<1>13. CASE WritePiece
  BY <1>13, WritePieceReport
<1>14. CASE EndWrite
  BY <1>14, EndWriteReport
<1>15. CASE WriteFails
  BY <1>15, WriteFailsReport
<1>16. CASE Crash
  BY <1>n, <1>16, NoReportYet DEF Crash
<1>17. ASSUME NEW c \in Commits, Checkout(c) PROVE ReportInv'
  BY <1>17, CheckoutReport DEF Checkout, batch, said
<1>18. CASE UNCHANGED vars
  BY <1>18, CheckoutReport DEF vars, shared, own, batch, said, past
<1> QED BY <1>1, <1>2, <1>3, <1>4, <1>5, <1>6, <1>7, <1>8, <1>9, <1>10, <1>11, <1>12, <1>13,
           <1>14, <1>15, <1>16, <1>17, <1>18 DEF Next, Step

LEMMA InitReport == Init => ReportInv
<1>1. None \notin {0, 1}
  BY HarnessAssumption
<1> QED BY <1>1 DEF Init, ReportInv, Tallied, NamesDistinct, Untouched, Updater

\* BenchReportIsTrue: what `bench` counts and exits with is what happened to the
\* files (main.rs:178-211).
THEOREM ReportTrue == Spec => []BenchReportIsTrue
<1>1. HInv /\ ReportInv => BenchReportIsTrue
  <2> SUFFICES ASSUME HInv, ReportInv, pc = "idle", cmd = "bench", exit \in {0, 1}
               PROVE  BenchReportIsTrue
    BY DEF BenchReportIsTrue
  <2> DEFINE D       == DOMAIN patterns
             changed == {i \in D : files[patterns[i].name] # before[patterns[i].name]}
             barred  == {i \in D : results[i].delta # None /\ ~Readable(patterns[i].name)}
  <2>1. PICK o : Accounts(o)
    BY DEF ReportInv, Tallied
  <2>2. Sum(tally) = Len(patterns) /\ exit = BenchExitCode(tally)
    BY DEF ReportInv, Tallied
  <2>3. patterns \in Seq(Patterns) /\ tally \in [DOMAIN NoTally -> Nat]
    BY DEF HInv, ProcessTyped
  <2>4. D = 1..Len(patterns) /\ Len(patterns) \in Nat /\ IsFiniteSet(D)
    <3>1. D = 1..Len(patterns) /\ Len(patterns) \in Nat
      BY <2>3, LenProperties
    <3> QED BY <3>1, FS_Interval
  <2>5. PICK updated, failed :
          updated = {i \in D : o[i] = "updated"} /\ failed = {i \in D : o[i] = "failed"}
    OBVIOUS
  <2>6. \A k \in DOMAIN NoTally : tally[k] = Cardinality({i \in D : o[i] = k})
    BY <2>1, <2>2, <2>4 DEF Accounts
  <2>7. tally.updated = Cardinality(updated) /\ tally.failed = Cardinality(failed)
    BY <2>5, <2>6 DEF NoTally
  <2>8. \A i \in D : Tells(i, o[i])
    BY <2>1, <2>2, <2>4 DEF Accounts
  <2>9. \A i \in D : patterns[i].name \in Entries
    <3>1. \A i \in D : patterns[i] \in Patterns
      BY <2>3, <2>4, ElementOfSeq
    <3> QED BY <3>1 DEF Patterns
  <2>10. Cuts = 0 => \A e \in Entries : ~(cuts[e] > 0)
    <3> SUFFICES ASSUME NEW e \in Entries, cuts[e] > 0 PROVE Cuts # 0
      OBVIOUS
    <3>1. cuts \in [Entries -> Nat] /\ IsFiniteSet(Entries)
      BY HarnessAssumption DEF HInv, CutsTyped
    <3>2. /\ SumOver(cuts, Entries) = SumOver(cuts, Entries \ {e}) + cuts[e]
          /\ SumOver(cuts, Entries \ {e}) \in Nat /\ cuts[e] \in Nat
      BY <3>1, SumOverSplit, SumOverType
    <3> QED BY <3>2 DEF Cuts
  <2>11. /\ barred \subseteq failed /\ updated \subseteq changed /\ changed \subseteq updated \cup failed
         /\ \A i \in changed : results[i].delta # None
         /\ Cuts = 0 => changed = updated
         /\ updated \in SUBSET D /\ failed \in SUBSET D /\ changed \in SUBSET D
    BY <2>5, <2>8, <2>9, <2>10 DEF Tells
  <2>12. PICK C, B : C = changed /\ B = barred
    OBVIOUS
  <2> HIDE DEF changed, barred
  <2>13. IsFiniteSet(updated) /\ IsFiniteSet(failed) /\ IsFiniteSet(C)
    BY <2>4, <2>11, <2>12, FS_Subset
  <2>14. /\ Cardinality(updated) \in Nat /\ Cardinality(failed) \in Nat /\ Cardinality(C) \in Nat
         /\ Cardinality(B) <= Cardinality(failed) /\ Cardinality(updated) <= Cardinality(C)
    BY <2>11, <2>12, <2>13, FS_CardinalityType, FS_Subset
  <2>15. Cardinality(C) <= Cardinality(updated) + Cardinality(failed)
    <3>1. IsFiniteSet(updated \cup failed) /\ IsFiniteSet(updated \cap failed)
      <4>1. updated \cap failed \in SUBSET updated
        OBVIOUS
      <4> QED BY <2>13, <4>1, FS_Union, FS_Subset
    <3>2. Cardinality(updated \cup failed) =
            Cardinality(updated) + Cardinality(failed) - Cardinality(updated \cap failed)
      BY <2>13, FS_Union
    <3>3. Cardinality(C) <= Cardinality(updated \cup failed)
      BY <2>11, <2>12, <3>1, FS_Subset
    <3>4. Cardinality(updated \cup failed) \in Nat /\ Cardinality(updated \cap failed) \in Nat
      BY <3>1, FS_CardinalityType
    <3> QED BY <2>14, <3>2, <3>3, <3>4
  <2>16. exit = 0 <=> tally.updated > 0
    BY <2>2 DEF BenchExitCode
  <2> QED BY <2>2, <2>7, <2>11, <2>12, <2>14, <2>15, <2>16 DEF BenchReportIsTrue, changed, barred
<1>2. Spec => []ReportInv
  BY InitReport, NextReportInv, AlwaysHInv, PTL DEF Spec
<1> QED BY <1>1, <1>2, AlwaysHInv, PTL

------------------------------------------------------------------------------
\* How far a process is from its end: what it still has to go through, ...
StageLeft == CASE pc = "preflight" -> 2 [] pc = "analyzing" -> 1 [] OTHER -> 0

\* ... how many patterns it still has to analyze, or to bring up to date, ...
PatternsLeft ==
  Len(patterns) - (IF pc \in {"preflight", "analyzing"} THEN Len(results) ELSE Sum(tally))

\* ... and what is still to be done with the file of the present one.
FileLeft == CASE pc = "updating" -> 2 [] pc = "opening" -> 1 [] OTHER -> 0

Distance == <<StageLeft, PatternsLeft, FileLeft, Len(todo)>>

\* The first of these to change gets smaller.
Nearer ==
  \/ StageLeft' < StageLeft
  \/ UNCHANGED StageLeft /\ PatternsLeft' < PatternsLeft
  \/ UNCHANGED <<StageLeft, PatternsLeft>> /\ FileLeft' < FileLeft
  \/ UNCHANGED <<StageLeft, PatternsLeft, FileLeft>> /\ Len(todo') < Len(todo)

\* There are only so many smaller ones.
DistanceTyped == Distance \in Nat \X Nat \X Nat \X Nat

\* A process only ever gets on: whatever it does, and whatever fails, ends it
\* or brings it nearer to its end, and only a checkout, which leaves it where
\* it is, can come between.  No pattern, analysis or piece is done over.
GetsOn ==
  pc # "idle" =>
    \/ pc' = "idle"
    \/ Nearer
    \/ head' > head /\ UNCHANGED <<pc, Distance, files>>

\* What is counted is a number, ...
LEMMA CountIsNat == HInv => Sum(tally) \in Nat
<1> SUFFICES ASSUME HInv PROVE Sum(tally) \in Nat
  OBVIOUS
<1>1. tally \in [DOMAIN NoTally -> Nat]
  BY DEF HInv, ProcessTyped
<1> QED BY <1>1 DEF Sum, NoTally

\* ... and a file that is open is some entry's.
LEMMA HereFound ==
  ASSUME HInv, pc \in {"opening", "writing"} PROVE At <= Len(patterns) /\ Here \in Entries
<1>1. pc \in Updater /\ At <= Len(patterns)
  BY DEF HInv, Staged, Updater
<1> QED BY <1>1, HereIs

\* So is the distance.
LEMMA HInvDistance == HInv => DistanceTyped
<1> SUFFICES ASSUME HInv PROVE DistanceTyped
  OBVIOUS
<1>1. Len(patterns) \in Nat /\ Len(results) \in Nat /\ Sum(tally) \in Nat
  BY CountIsNat, LenProperties DEF HInv, ProcessTyped
<1>2. Len(results) <= Len(patterns) /\ Sum(tally) <= Len(patterns)
  BY DEF HInv, ProcessTyped
<1>3. Len(todo) \in Nat
  <2>1. CASE pc \in {"opening", "writing"}
    <3>1. Here \in Entries
      BY <2>1, HereFound DEF Updater
    <3>e. PICK e \in Entries : Here = e
      BY <3>1
    <3>2. todo \in Seq(TruePieces(e))
      BY <2>1, <3>e DEF HInv, FilesTrue
    <3> QED BY <3>2, LenProperties
  <2>2. CASE pc \notin {"opening", "writing"}
    BY <2>2 DEF HInv, Staged, ProcessTyped, Updater
  <2> QED BY <2>1, <2>2
<1>4. PatternsLeft \in Nat
  BY <1>1, <1>2 DEF PatternsLeft
<1>5. StageLeft \in Nat /\ FileLeft \in Nat
  BY DEF StageLeft, FileLeft
<1> QED BY <1>3, <1>4, <1>5 DEF DistanceTyped, Distance

\* One pattern more is counted.
LEMMA CountedNearer ==
  ASSUME HInv, NEW o \in DOMAIN NoTally, Counted(o), pc \in Updater, At <= Len(patterns),
         pc' = "updating", UNCHANGED patterns
  PROVE  Nearer
<1>1. Sum(tally') = Sum(tally) + 1 /\ Sum(tally) \in Nat
  BY CountedOnce, CountIsNat
<1>2. Len(patterns) \in Nat
  BY DEF HInv, ProcessTyped
<1>3. StageLeft' = StageLeft
  BY DEF StageLeft, Updater
<1>4. PatternsLeft = Len(patterns) - Sum(tally) /\ PatternsLeft' = Len(patterns) - Sum(tally')
  BY DEF PatternsLeft, Updater
<1> QED BY <1>1, <1>2, <1>3, <1>4 DEF Nearer

LEMMA StepGetsOn ==
  ASSUME HInv, [Next]_vars PROVE GetsOn \/ UNCHANGED vars
<1> SUFFICES ASSUME pc # "idle", pc' # "idle", Next
             PROVE  Nearer \/ (head' > head /\ UNCHANGED <<pc, Distance, files>>)
  BY DEF GetsOn
<1>1. ASSUME NEW available, NEW listed, Preflight(available, listed) PROVE Nearer
  BY <1>1 DEF Preflight, Exit, Nearer, StageLeft
<1>2. ASSUME NEW c \in Commits, Analyze(c) PROVE Nearer
  <2>1. PICK r : results' = Append(results, r)
    BY <1>2 DEF Analyze
  <2>2. results \in Seq(Results) /\ Len(results) \in Nat /\ Len(patterns) \in Nat
    BY DEF HInv, ProcessTyped
  <2>3. Len(results') = Len(results) + 1
    BY <2>1, <2>2
  <2>4. pc = "analyzing" /\ pc' = "analyzing" /\ patterns' = patterns
    BY <1>2 DEF Analyze
  <2> QED BY <2>2, <2>3, <2>4 DEF Nearer, StageLeft, PatternsLeft
<1>3. ASSUME NEW time \in Times, CollectProvenance(time) PROVE Nearer
  BY <1>3 DEF CollectProvenance, Nearer, StageLeft
<1>4. CASE FinishAll \/ FinishBench
  BY <1>4 DEF FinishAll, FinishBench, Exit
<1>5. CASE Skip
  BY <1>5, CountedNearer DEF Skip, NoTally, batch, Updater
<1>6. CASE UpdateFails
  BY <1>6, CountedNearer, HereFound DEF UpdateFails, Updating, NoTally, batch, Updater
<1>7. CASE Current
  BY <1>7, CountedNearer DEF Current, Updating, NoTally, batch, Updater
<1>8. CASE Read
  BY <1>8 DEF Read, Updating, batch, Nearer, StageLeft, PatternsLeft, FileLeft
<1>9. CASE Truncate
  BY <1>9 DEF Truncate, batch, Nearer, StageLeft, PatternsLeft, FileLeft
<1>10. CASE WritePiece
  <2>1. /\ pc = "writing" /\ todo # <<>> /\ todo' = Tail(todo)
        /\ UNCHANGED <<pc, patterns, results, tally>>
    BY <1>10 DEF WritePiece, batch
  <2>2. PICK e \in Entries : Here = e
    BY <2>1, HereFound
  <2>3. todo \in Seq(TruePieces(e))
    BY <2>1, <2>2 DEF HInv, FilesTrue
  <2>4. Len(todo') < Len(todo)
    BY <2>1, <2>3
  <2> QED BY <2>1, <2>4 DEF Nearer, StageLeft, PatternsLeft, FileLeft
<1>11. CASE EndWrite
  BY <1>11, CountedNearer, HereFound DEF EndWrite, NoTally, batch, Updater
<1>12. CASE WriteFails
  BY <1>12, CountedNearer, HereFound DEF WriteFails, CutWrite, NoTally, batch, Updater
<1>13. CASE Crash
  BY <1>13 DEF Crash
<1>14. ASSUME NEW c \in Commits, Checkout(c)
       PROVE  head' > head /\ UNCHANGED <<pc, Distance, files>>
  <2>1. head \in Nat /\ c \in Nat
    BY HarnessAssumption DEF HInv, ProcessTyped
  <2>2. head' = c /\ c # head /\ c >= head
    BY <1>14 DEF Checkout, GoesOn
  <2> QED BY <1>14, <2>1, <2>2 DEF Checkout, batch, Distance, StageLeft, PatternsLeft, FileLeft
<1>15. \/ Usage \/ (\E e \in Entries, c \in Commits : RunPair(e, c))
       \/ \E c \in {"all", "bench"} : Start(c)
       => pc = "idle"
  BY DEF Usage, RunPair, Start, Launch
<1> QED BY <1>1, <1>2, <1>3, <1>4, <1>5, <1>6, <1>7, <1>8, <1>9, <1>10, <1>11, <1>12, <1>13,
           <1>14, <1>15 DEF Next, Step

\* However its analyses and file operations end, a process that run_all or
\* run_bench was started in has at every step less left to do, so it cannot go
\* round for ever.
THEOREM RunsGetOn == Spec => []DistanceTyped /\ [][GetsOn]_vars
<1>1. HInv => DistanceTyped
  BY HInvDistance
<1>2. HInv /\ [Next]_vars => [GetsOn]_vars
  BY StepGetsOn
<1> QED BY <1>1, <1>2, AlwaysHInv, PTL DEF Spec
====
