-------------------------- MODULE Catalogue_proofs --------------------------
(***************************************************************************)
(* The generator of the command catalogue, for every index, parser, number *)
(* of workers, attempts, entries of a part and runs, and for interruptions *)
(* at any step:                                                            *)
(*   - the files of two runs are never mixed           (GenInv),           *)
(*   - attempts are bounded, and what is written are entries of the pages  *)
(*     behind the links                                (TypesInv),         *)
(*   - the parts are the slices of the entries, and every index is served  *)
(*     by the one part that has it                     (LayoutInv),        *)
(*   - the order of the workers leaves no trace: the entries are those of  *)
(*     the index, in its order                         (OrderInv),         *)
(*   - what is inferred for a page without COMMAND metadata is the arity   *)
(*     of every call of it, and a writer's keys are not read-only,         *)
(*   - the scope report passes the scope gate unless pages are missing     *)
(*                                                     (GateInv).          *)
(* What a filter and a sort leave is stated with the place of a position   *)
(* among the others (Arranged), and the names of the parts are a recursive *)
(* function: both are reasoned about with least counterexamples.  The      *)
(* values of nested arguments are recursive over their depth: that such a  *)
(* rule has a solution is proved once (Recursion).                         *)
(***************************************************************************)
EXTENDS CommandCatalogue, SequenceTheorems, FiniteSetTheorems, WellFoundedInduction, TLAPS

(* All part files are those of one run; at the latest when the old ones    *)
(* are removed they are this run's, as are the files written before them.  *)
GenInv ==
    /\ PartsOfOneRun
    /\ pc = "unlink" => base.gen = runs /\ wrapper.gen = runs
    /\ pc = "wrapper" => base.gen = runs
    /\ pc \in {"parts", "docs"} \/ outcome = "ok" =>
          /\ base.gen = runs /\ wrapper.gen = runs
          /\ \A l \in DOMAIN parts : parts[l].gen = runs
    /\ outcome = "ok" => pc = "idle" /\ matrix.gen = runs

LEMMA GenInit == Init => GenInv
BY DEF Init, GenInv, PartsOfOneRun

(* What a worker, or main before it writes, changes is no file. *)
LEMMA FetchKeepsFiles ==
    ASSUME GenInv, FetchStep
    PROVE  GenInv'
<1>1. /\ UNCHANGED <<base, wrapper, parts, matrix, runs>>
      /\ pc \in {"fetch", "drain"}
      /\ \/ pc' \in {"fetch", "drain", "base"} /\ outcome' = outcome
         \/ pc' = "idle" /\ outcome' = "failed"
    BY DEF FetchStep, TakeTask, FetchFails, FetchRaises, FetchSucceeds, Collect,
           CollectFailure, Drained, SortEntries, Working, End, files
<1> QED
    BY <1>1 DEF GenInv, PartsOfOneRun

(* The old parts are gone before the first new one is written. *)
LEMMA WriteKeepsRuns ==
    ASSUME GenInv, WriteStep
    PROVE  GenInv'
<1>1. CASE WriteBase
    BY <1>1 DEF WriteBase, GenInv, PartsOfOneRun
<1>2. CASE WriteWrapper
    BY <1>2 DEF WriteWrapper, RenderWrapper, GenInv, PartsOfOneRun
<1>3. ASSUME NEW label \in DOMAIN parts, UnlinkPart(label)
      PROVE  GenInv'
    BY <1>3 DEF UnlinkPart, GenInv, PartsOfOneRun
<1>4. CASE Unlinked
    BY <1>4 DEF Unlinked, files, GenInv, PartsOfOneRun
<1>5. CASE WritePart
    <2>1. PICK label : parts' = [l \in DOMAIN parts \cup {label} |->
                                    IF l = label THEN RenderPart(part_index) ELSE parts[l]]
        BY <1>5 DEF WritePart
    <2>2. RenderPart(part_index).gen = runs
        BY DEF RenderPart
    <2>3. \A l \in DOMAIN parts' : parts'[l].gen = runs
        BY <1>5, <2>1, <2>2 DEF WritePart, GenInv
    <2>4. /\ pc = "parts" /\ pc' = "parts" /\ base.gen = runs /\ wrapper.gen = runs
          /\ outcome # "ok"
          /\ UNCHANGED <<base, wrapper, matrix, runs, outcome>>
        BY <1>5 DEF WritePart, GenInv
    <2> QED
        BY <2>3, <2>4 DEF GenInv, PartsOfOneRun
<1>6. CASE PartsWritten
    BY <1>6 DEF PartsWritten, files, GenInv, PartsOfOneRun
<1>7. CASE WriteDocs
    BY <1>7 DEF WriteDocs, RenderMatrix, End, GenInv, PartsOfOneRun
<1> QED
    BY <1>1, <1>2, <1>3, <1>4, <1>5, <1>6, <1>7 DEF WriteStep

LEMMA GenStep == GenInv /\ [Next]_vars => GenInv'
<1> SUFFICES ASSUME GenInv, [Next]_vars
             PROVE  GenInv'
    OBVIOUS
<1>1. CASE UNCHANGED vars
    BY <1>1 DEF vars, files, pool, GenInv, PartsOfOneRun
<1>2. ASSUME NEW site, NEW cost, Start(site, cost)
      PROVE  GenInv'
    BY <1>2 DEF Start, files, GenInv, PartsOfOneRun
<1>3. CASE IndexUnavailable
    BY <1>3 DEF IndexUnavailable, End, files, GenInv, PartsOfOneRun
<1>4. CASE Interrupt
    BY <1>4 DEF Interrupt, End, files, GenInv, PartsOfOneRun
<1> QED
    BY <1>1, <1>2, <1>3, <1>4, FetchKeepsFiles, WriteKeepsRuns DEF Next

(* An interruption of scripts/generate_command_catalog.py may leave too few *)
(* parts (lines 1425-1433), but never parts of two runs.                   *)
THEOREM PartsAreNeverMixed == Spec => []PartsOfOneRun
<1>1. GenInv => PartsOfOneRun
    BY DEF GenInv
<1> QED
    BY <1>1, GenInit, GenStep, PTL DEF Spec

(* A run that ended well, or has written its last part, has replaced every *)
(* file of the runs before it.                                             *)
THEOREM FilesAgreeWhenWritten ==
    Spec => [](pc = "docs" \/ outcome = "ok" => FilesOfOneRun)
<1>1. GenInv => (pc = "docs" \/ outcome = "ok" => FilesOfOneRun)
    BY DEF GenInv, FilesOfOneRun
<1> QED
    BY <1>1, GenInit, GenStep, PTL DEF Spec

-----------------------------------------------------------------------------
(* A set of numbers that is not empty has a least element: induction       *)
(* without an operator as a parameter.                                     *)
LEMMA LeastElement ==
    ASSUME NEW T, T \subseteq Nat, T # {}
    PROVE  \E n \in T : \A m \in T : ~(m < n)
<1> DEFINE R == OpToRel(<, Nat)
<1>1. IsWellFoundedOn(R, Nat)
    BY NatLessThanWellFounded
<1> HIDE DEF R
<1>2. \E n \in T : \A m \in T : ~(<<m, n>> \in R)
    BY <1>1, WFMin
<1>3. \A n, m \in Nat : m < n => <<m, n>> \in R
    BY DEF R, OpToRel
<1> QED
    BY <1>2, <1>3

(* A set that holds each number when it holds all smaller ones is Nat.     *)
LEMMA AllNumbers ==
    ASSUME NEW S, \A n \in Nat : (\A m \in Nat : m < n => m \in S) => n \in S
    PROVE  Nat \subseteq S
<1> DEFINE T == {n \in Nat : n \notin S}
<1> SUFFICES ASSUME T # {} PROVE FALSE
    OBVIOUS
<1>1. T \subseteq Nat
    OBVIOUS
<1>2. PICK n \in T : \A m \in T : ~(m < n)
    BY <1>1, LeastElement
<1> QED
    BY <1>2

-----------------------------------------------------------------------------
(* The names of the parts.                                                 *)
LEMMA LettersType == Letters \in Nat \ {0}
BY CatalogueAssumption

LEMMA Divides ==
    \A n \in Nat : /\ n \div Letters \in Nat /\ n % Letters \in Nat
                   /\ n = Letters * (n \div Letters) + (n % Letters)
                   /\ n >= Letters => (n \div Letters) - 1 \in Nat /\ (n \div Letters) - 1 < n
<1>1. Letters \in Nat \ {0}
    BY LettersType
<1>2. \A L \in Nat \ {0} : \A n \in Nat : n = L * (n \div L) + (n % L) /\ n % L \in 0 .. L - 1
    OBVIOUS
<1>3. \A L \in Nat \ {0} : \A n \in Nat : n \div L \in Nat
    OBVIOUS
<1>4. \A L \in Nat \ {0} : \A n \in Nat : n >= L => (n \div L) - 1 \in Nat /\ (n \div L) - 1 < n
    OBVIOUS
<1> QED
    BY <1>1, <1>2, <1>3, <1>4

(* The names of the parts up to n. *)
IsLabels(f, n) ==
    f = [k \in 0 .. n |-> IF k < Letters THEN <<k>>
                          ELSE Append(f[(k \div Letters) - 1], k % Letters)]

LEMMA LabelsAgree ==
    ASSUME NEW n \in Nat, NEW m \in Nat, NEW f, NEW g, IsLabels(f, n), IsLabels(g, m)
    PROVE  \A k \in Nat : k <= n /\ k <= m => f[k] = g[k]
<1> DEFINE S == {k \in Nat : k <= n /\ k <= m => f[k] = g[k]}
<1>1. ASSUME NEW k \in Nat, \A j \in Nat : j < k => j \in S, k <= n, k <= m
      PROVE  f[k] = g[k]
  <2>1. k \in 0 .. n /\ k \in 0 .. m
      BY <1>1
  <2>2. CASE k < Letters
      BY <2>1, <2>2 DEF IsLabels
  <2>3. CASE ~(k < Letters)
    <3>1. (k \div Letters) - 1 \in Nat /\ (k \div Letters) - 1 < k
        BY <2>3, Divides, LettersType
    <3>2. f[(k \div Letters) - 1] = g[(k \div Letters) - 1]
        BY <1>1, <3>1
    <3> QED
        BY <2>1, <2>3, <3>2 DEF IsLabels
  <2> QED
      BY <2>2, <2>3
<1>2. \A k \in Nat : (\A j \in Nat : j < k => j \in S) => k \in S
    BY <1>1
<1>3. Nat \subseteq S
  <2> HIDE DEF S
  <2> QED
      BY <1>2, AllNumbers
<1> QED
    BY <1>3

LEMMA LabelsExist == \A n \in Nat : \E f : IsLabels(f, n)
<1> DEFINE S == {n \in Nat : \E f : IsLabels(f, n)}
<1>1. ASSUME NEW n \in Nat, \A m \in Nat : m < n => m \in S
      PROVE  \E f : IsLabels(f, n)
  <2>1. PICK f : n > 0 => IsLabels(f, n - 1)
    <3>1. CASE n > 0
      <4>1. n - 1 \in S
          BY <1>1, <3>1
      <4> QED
          BY <4>1
    <3> QED
        BY <3>1
  <2> DEFINE g == [k \in 0 .. n |->
                     IF k = n
                     THEN IF k < Letters THEN <<k>>
                          ELSE Append(f[(k \div Letters) - 1], k % Letters)
                     ELSE f[k]]
  <2>2. ASSUME NEW k \in 0 .. n
        PROVE  g[k] = IF k < Letters THEN <<k>>
                      ELSE Append(g[(k \div Letters) - 1], k % Letters)
    <3>1. CASE k < Letters
      <4>1. CASE k = n
          BY <3>1, <4>1
      <4>2. CASE k # n
        <5>1. k \in 0 .. (n - 1) /\ n > 0
            BY <4>2
        <5>2. f[k] = <<k>>
            BY <2>1, <3>1, <5>1 DEF IsLabels
        <5> QED
            BY <3>1, <4>2, <5>2
      <4> QED
          BY <4>1, <4>2
    <3>2. CASE ~(k < Letters)
      <4>1. (k \div Letters) - 1 \in 0 .. n /\ (k \div Letters) - 1 < k
          BY <3>2, Divides, LettersType
      <4>2. g[(k \div Letters) - 1] = f[(k \div Letters) - 1]
          BY SMTT(30), <4>1
      <4>3. CASE k = n
          BY <3>2, <4>2, <4>3
      <4>4. CASE k # n
        <5>1. k \in 0 .. (n - 1) /\ n > 0
            BY <4>4
        <5>2. f[k] = Append(f[(k \div Letters) - 1], k % Letters)
            BY <2>1, <3>2, <5>1 DEF IsLabels
        <5> QED
            BY <3>2, <4>2, <4>4, <5>2
      <4> QED
          BY <4>3, <4>4
    <3> QED
        BY <3>1, <3>2
  <2>3. IsLabels(g, n)
      BY <2>2 DEF IsLabels
  <2> QED
      BY <2>3
<1>2. \A n \in Nat : (\A m \in Nat : m < n => m \in S) => n \in S
    BY <1>1
<1>3. Nat \subseteq S
  <2> HIDE DEF S
  <2> QED
      BY <1>2, AllNumbers
<1> QED
    BY <1>3

(* The recursive definition of the names has a solution.                   *)
LEMMA LabelUnfolds ==
    \A n \in Nat : PartLabel[n] = IF n < Letters THEN <<n>>
                                  ELSE Append(PartLabel[(n \div Letters) - 1], n % Letters)
<1> DEFINE l(n) == CHOOSE f : IsLabels(f, n)
           h == [n \in Nat |-> l(n)[n]]
<1>1. \A n \in Nat : IsLabels(l(n), n)
    BY LabelsExist
<1> HIDE DEF l
<1>2. ASSUME NEW n \in Nat
      PROVE  h[n] = IF n < Letters THEN <<n>> ELSE Append(h[(n \div Letters) - 1], n % Letters)
  <2>1. l(n)[n] = IF n < Letters THEN <<n>> ELSE Append(l(n)[(n \div Letters) - 1], n % Letters)
    <3>1. n \in 0 .. n
        OBVIOUS
    <3> QED
        BY <1>1, <3>1 DEF IsLabels
  <2>2. ~(n < Letters) => h[(n \div Letters) - 1] = l(n)[(n \div Letters) - 1]
    <3> SUFFICES ASSUME ~(n < Letters)
                 PROVE  h[(n \div Letters) - 1] = l(n)[(n \div Letters) - 1]
        OBVIOUS
    <3>1. PICK m \in Nat : m = (n \div Letters) - 1 /\ m < n
        BY Divides, LettersType
    <3>2. l(m)[m] = l(n)[m]
        BY <1>1, <3>1, LabelsAgree
    <3> QED
        BY <3>1, <3>2
  <2> QED
      BY <2>1, <2>2
<1>3. h = [n \in Nat |-> IF n < Letters THEN <<n>> ELSE Append(h[(n \div Letters) - 1], n % Letters)]
    BY SMTT(30), <1>2
<1> HIDE DEF h
<1>4. PartLabel = [n \in Nat |-> IF n < Letters THEN <<n>>
                                 ELSE Append(PartLabel[(n \div Letters) - 1], n % Letters)]
    BY <1>3 DEF PartLabel
<1> QED
    BY <1>4

LEMMA LabelType == \A n \in Nat : PartLabel[n] \in Seq(Nat) /\ Len(PartLabel[n]) >= 1
<1> DEFINE S == {n \in Nat : PartLabel[n] \in Seq(Nat) /\ Len(PartLabel[n]) >= 1}
<1>1. ASSUME NEW n \in Nat, \A m \in Nat : m < n => m \in S
      PROVE  PartLabel[n] \in Seq(Nat) /\ Len(PartLabel[n]) >= 1
  <2>1. CASE n < Letters
    <3>1. PartLabel[n] = <<n>>
        BY <2>1, LabelUnfolds
    <3> QED
        BY <3>1
  <2>2. CASE ~(n < Letters)
    <3>1. PICK m \in Nat : m = (n \div Letters) - 1 /\ m < n
        BY <2>2, Divides, LettersType
    <3>2. n % Letters \in Nat /\ PartLabel[m] \in Seq(Nat)
        BY <1>1, <3>1, Divides
    <3>3. PartLabel[n] = Append(PartLabel[m], n % Letters)
        BY <2>2, <3>1, LabelUnfolds
    <3> QED
        BY <3>2, <3>3
  <2> QED
      BY <2>1, <2>2
<1>2. \A n \in Nat : (\A m \in Nat : m < n => m \in S) => n \in S
    BY <1>1
<1>3. Nat \subseteq S
  <2> HIDE DEF S
  <2> QED
      BY <1>2, AllNumbers
<1> QED
    BY <1>3

(* Two parts never have one name, however many there are: where the names  *)
(* become longer they do not begin again.                                  *)
LEMMA LabelsDiffer == \A p, q \in Nat : PartLabel[p] = PartLabel[q] => p = q
<1> DEFINE S == {p \in Nat : \A q \in Nat : PartLabel[p] = PartLabel[q] => p = q}
<1>0. \A s \in Seq(Nat) : \A d \in Nat : Len(Append(s, d)) = Len(s) + 1
    BY AppendProperties
<1>1. ASSUME NEW p \in Nat, \A m \in Nat : m < p => m \in S,
             NEW q \in Nat, PartLabel[p] = PartLabel[q]
      PROVE  p = q
  <2>1. ASSUME NEW n \in Nat, n < Letters
        PROVE  PartLabel[n] = <<n>> /\ Len(PartLabel[n]) = 1
    <3>1. PartLabel[n] = <<n>>
        BY <2>1, LabelUnfolds
    <3> QED
        BY <3>1
  <2>2. ASSUME NEW n \in Nat, ~(n < Letters)
        PROVE  \E m \in Nat : /\ m < n /\ m = (n \div Letters) - 1
                              /\ PartLabel[n] = Append(PartLabel[m], n % Letters)
                              /\ Len(PartLabel[n]) > 1
    <3>1. PICK m \in Nat : m = (n \div Letters) - 1 /\ m < n
        BY <2>2, Divides, LettersType
    <3>2. PartLabel[n] = Append(PartLabel[m], n % Letters)
        BY <2>2, <3>1, LabelUnfolds
    <3>3. Len(PartLabel[n]) = Len(PartLabel[m]) + 1
        BY <1>0, <3>2, LabelType, Divides
    <3>4. Len(PartLabel[m]) \in Nat /\ Len(PartLabel[m]) >= 1
        BY LabelType, LenProperties
    <3> QED
        BY <3>1, <3>2, <3>3, <3>4
  <2>3. CASE p < Letters /\ q < Letters
    <3>1. <<p>> = <<q>>
        BY <1>1, <2>1, <2>3
    <3> QED
        BY <3>1
  <2>4. CASE ~(p < Letters) /\ ~(q < Letters)
    <3>1. PICK m \in Nat : m < p /\ m = (p \div Letters) - 1 /\ PartLabel[p] = Append(PartLabel[m], p % Letters)
        BY <2>2, <2>4
    <3>2. PICK n \in Nat : n < q /\ n = (q \div Letters) - 1 /\ PartLabel[q] = Append(PartLabel[n], q % Letters)
        BY <2>2, <2>4
    <3>3. PartLabel[m] = PartLabel[n] /\ p % Letters = q % Letters
      <4>1. PICK s \in Seq(Nat), t \in Seq(Nat) : s = PartLabel[m] /\ t = PartLabel[n]
          BY LabelType
      <4>2. PICK d \in Nat, e \in Nat : d = p % Letters /\ e = q % Letters
          BY Divides
      <4>3. Append(s, d) = Append(t, e)
          BY <1>1, <3>1, <3>2, <4>1, <4>2
      <4>4. s = t /\ d = e
          BY <4>3, AppendInjective
      <4> QED
          BY <4>1, <4>2, <4>4
    <3>4. m = n
        BY <1>1, <3>1, <3>3
    <3>5. p \div Letters = q \div Letters
        BY SMTT(30), <3>1, <3>2, <3>4, Divides
    <3> QED
        BY <3>3, <3>5, Divides
  <2>5. CASE p < Letters /\ ~(q < Letters)
      BY <1>1, <2>1, <2>2, <2>5
  <2>6. CASE ~(p < Letters) /\ q < Letters
      BY <1>1, <2>1, <2>2, <2>6
  <2> QED
      BY <2>3, <2>4, <2>5, <2>6
<1>2. \A p \in Nat : (\A m \in Nat : m < p => m \in S) => p \in S
    BY <1>1
<1>3. Nat \subseteq S
  <2> HIDE DEF S
  <2> QED
      BY <1>2, AllNumbers
<1> QED
    BY <1>3

-----------------------------------------------------------------------------
(* Filter and sort.  Every member of a finite set has a place of its own   *)
(* among the others.                                                       *)
Precedes(key, i, j) == key[i] < key[j] \/ (key[i] = key[j] /\ i < j)

LEMMA PlacesGrow ==
    ASSUME NEW S, S \subseteq Nat, IsFiniteSet(S), NEW key, \A i \in S : key[i] \in Nat
    PROVE  /\ \A i \in S : Place(S, key, i) \in 1 .. Cardinality(S)
           /\ \A i, j \in S : Precedes(key, i, j) => Place(S, key, i) < Place(S, key, j)
<1> DEFINE Upto(i) == {j \in S : key[j] < key[i] \/ (key[j] = key[i] /\ j <= i)}
<1>1. \A i \in S : Place(S, key, i) = Cardinality(Upto(i)) /\ Upto(i) \in SUBSET S /\ i \in Upto(i)
    BY DEF Place
<1>2. \A i, j \in S : Precedes(key, i, j) => Upto(i) \in SUBSET (Upto(j) \ {j})
  <2>1. ASSUME NEW i \in S, NEW j \in S, Precedes(key, i, j), NEW k \in Upto(i)
        PROVE  k \in Upto(j) \ {j}
    <3>1. /\ i \in Nat /\ j \in Nat /\ k \in Nat /\ k \in S
          /\ key[i] \in Nat /\ key[j] \in Nat /\ key[k] \in Nat
        BY <2>1
    <3>2. key[k] < key[i] \/ (key[k] = key[i] /\ k <= i)
        BY <2>1
    <3>3. key[i] < key[j] \/ (key[i] = key[j] /\ i < j)
        BY <2>1 DEF Precedes
    <3>4. (key[k] < key[j] \/ (key[k] = key[j] /\ k <= j)) /\ k # j
        BY <3>1, <3>2, <3>3
    <3> QED
        BY <3>1, <3>4
  <2> QED
      BY <2>1
<1> HIDE DEF Upto
<1>3. \A i \in S : /\ IsFiniteSet(Upto(i))
                   /\ Cardinality(Upto(i)) \in Nat /\ Cardinality(Upto(i)) <= Cardinality(S)
                   /\ IsFiniteSet(Upto(i) \ {i})
                   /\ Cardinality(Upto(i) \ {i}) = Cardinality(Upto(i)) - 1
                   /\ Cardinality(Upto(i) \ {i}) \in Nat
  <2> TAKE i \in S
  <2>1. Upto(i) \in SUBSET S /\ i \in Upto(i)
      BY <1>1
  <2>2. IsFiniteSet(Upto(i)) /\ Cardinality(Upto(i)) <= Cardinality(S)
      BY <2>1, FS_Subset
  <2>3. Cardinality(Upto(i)) \in Nat
      BY <2>2, FS_CardinalityType
  <2>4. IsFiniteSet(Upto(i) \ {i}) /\ Cardinality(Upto(i) \ {i}) = Cardinality(Upto(i)) - 1
      BY <2>1, <2>2, FS_RemoveElement
  <2>5. Cardinality(Upto(i) \ {i}) \in Nat
      BY <2>4, FS_CardinalityType
  <2> QED
      BY <2>2, <2>3, <2>4, <2>5
<1>4. Cardinality(S) \in Nat
    BY FS_CardinalityType
<1>5. \A i \in S : Place(S, key, i) \in 1 .. Cardinality(S)
  <2> TAKE i \in S
  <2>1. Cardinality(Upto(i)) - 1 \in Nat /\ Cardinality(Upto(i)) \in Nat
        /\ Cardinality(Upto(i)) <= Cardinality(S)
      BY <1>3
  <2> QED
      BY <1>1, <1>4, <2>1
<1>6. ASSUME NEW i \in S, NEW j \in S, Precedes(key, i, j)
      PROVE  Place(S, key, i) < Place(S, key, j)
  <2>1. Upto(i) \in SUBSET (Upto(j) \ {j}) /\ IsFiniteSet(Upto(j) \ {j})
      BY <1>2, <1>3, <1>6
  <2>2. Cardinality(Upto(i)) <= Cardinality(Upto(j) \ {j})
      BY <2>1, FS_Subset
  <2>3. /\ Cardinality(Upto(j) \ {j}) = Cardinality(Upto(j)) - 1
        /\ Cardinality(Upto(i)) \in Nat /\ Cardinality(Upto(j)) \in Nat
      BY <1>3
  <2> QED
      BY <1>1, <2>2, <2>3
<1> QED
    BY <1>5, <1>6

(* p lists S, each member once, by keys that do not decrease.              *)
Lists(p, S, key) ==
    /\ p \in [1 .. Cardinality(S) -> S]
    /\ \A m, n \in 1 .. Cardinality(S) : p[m] = p[n] => m = n
    /\ \A i \in S : \E n \in 1 .. Cardinality(S) : p[n] = i
    /\ \A m, n \in 1 .. Cardinality(S) : m < n => key[p[m]] <= key[p[n]]

Listed(s, S, p) == [n \in 1 .. Cardinality(S) |-> s[p[n]]]

LEMMA ArrangedByKey ==
    ASSUME NEW S, S \subseteq Nat, IsFiniteSet(S), NEW key, \A i \in S : key[i] \in Nat, NEW s
    PROVE  /\ Cardinality(S) \in Nat
           /\ \E p : Lists(p, S, key) /\ Arranged(s, S, key) = Listed(s, S, p)
<1> DEFINE N == Cardinality(S)
           place == [i \in S |-> Place(S, key, i)]
           p == [n \in 1 .. N |-> CHOOSE i \in S : Place(S, key, i) = n]
<1>1. N \in Nat
    BY FS_CardinalityType
<1>2. place \in [S -> 1 .. N] /\ \A i, j \in S : Precedes(key, i, j) => place[i] < place[j]
    BY PlacesGrow
<1>3. \A i, j \in S : i = j \/ Precedes(key, i, j) \/ Precedes(key, j, i)
    BY DEF Precedes
<1> HIDE DEF N
<1>4. \A i, j \in S : place[i] = place[j] => i = j
  <2> TAKE i, j \in S
  <2>1. place[i] \in Nat /\ place[j] \in Nat
      BY <1>2
  <2> HIDE DEF place
  <2> QED
      BY <1>2, <1>3, <2>1
<1>5. IsFiniteSet(1 .. N) /\ Cardinality(1 .. N) = N
    BY <1>1, FS_Interval
<1>6. place \in Injection(S, 1 .. N)
    BY <1>2, <1>4 DEF Injection, IsInjective
<1>7. place \in Surjection(S, 1 .. N)
  <2> HIDE DEF place
  <2> QED
      BY <1>5, <1>6, FS_Injection DEF N
<1>8. \A n \in 1 .. N : \E i \in S : Place(S, key, i) = n
    BY <1>7 DEF Surjection
<1>9. \A n \in 1 .. N : p[n] \in S /\ place[p[n]] = n
    BY <1>8
<1>10. Arranged(s, S, key) = Listed(s, S, p)
    BY DEF Arranged, Listed, N
<1>11. p \in [1 .. N -> S]
    BY <1>9
<1> HIDE DEF p, place
<1>12. \A m, n \in 1 .. N : p[m] = p[n] => m = n
    BY <1>9
<1>13. \A i \in S : \E n \in 1 .. N : p[n] = i
  <2> TAKE i \in S
  <2>1. place[i] \in 1 .. N
      BY <1>2
  <2>2. place[p[place[i]]] = place[i] /\ p[place[i]] \in S
      BY <1>9, <2>1
  <2> QED
      BY <1>4, <2>1, <2>2
<1>14. ASSUME NEW m \in 1 .. N, NEW n \in 1 .. N, m < n
       PROVE  key[p[m]] <= key[p[n]]
  <2>1. PICK i \in S, j \in S : i = p[m] /\ j = p[n] /\ place[i] = m /\ place[j] = n
      BY <1>9
  <2>2. ~(key[j] < key[i])
      BY <1>2, <1>14, <2>1 DEF Precedes
  <2> QED
      BY <2>1, <2>2
<1> QED
    BY <1>1, <1>10, <1>11, <1>12, <1>13, <1>14 DEF Lists, N

-----------------------------------------------------------------------------
(* Types: what is fetched are items of an index, what is made of their     *)
(* pages are entries; a page is asked for again at most FETCH_RETRIES      *)
(* times.                                                                  *)
Items == UNION {ToSet(site) : site \in Sites \cup Probes}
Made == {Parse(item.page) : item \in {it \in Items : it.page # NoMetadata}}

TypesInv ==
    /\ TypeOK
    /\ links \in Seq(Items) /\ entries \in Seq(Made) /\ part_index \in Nat
    /\ pc # "idle" => runs >= 1
    /\ \A i \in DOMAIN links : task[i] \in {"queued", "running"} => tries[i] < FETCH_RETRIES
    /\ \A i \in DOMAIN links : task[i] = "done" => links[i].page # NoMetadata

LEMMA Bounds ==
    /\ FETCH_WORKERS \in Nat \ {0} /\ FETCH_RETRIES \in Nat \ {0} /\ PART_SIZE \in Nat \ {0}
    /\ MaxParts \in Nat \ {0} /\ MaxRuns \in Nat \ {0}
BY CatalogueAssumption

LEMMA ItemsOfSites ==
    ASSUME NEW site \in Sites \cup Probes
    PROVE  /\ site \in Seq(Items)
           /\ \A i \in DOMAIN site : site[i].page # NoMetadata =>
                 Parse(site[i].page).name = site[i].page.title
<1>1. site \in Seq(ToSet(site))
    BY SitesAssumption
<1>2. ToSet(site) \subseteq Items
    BY DEF Items
<1>3. Len(site) \in Nat /\ DOMAIN site = 1 .. Len(site)
      /\ \A i \in 1 .. Len(site) : site[i] \in ToSet(site)
    BY <1>1, ElementOfSeq, LenProperties
<1>4. site \in Seq(Items)
    BY <1>2, <1>3, <1>1, SeqDef
<1> QED
    BY <1>4, SitesAssumption

LEMMA NamesOfItems ==
    \A item \in Items : item.page # NoMetadata => Parse(item.page).name = item.page.title
<1> TAKE item \in Items
<1>1. PICK site \in Sites \cup Probes : item \in ToSet(site)
    BY DEF Items
<1>2. PICK i \in DOMAIN site : item = site[i]
    BY <1>1 DEF ToSet
<1> QED
    BY <1>2, ItemsOfSites

(* The links of an index are items of it. *)
LEMMA LinksOfSite ==
    ASSUME NEW site \in Sites \cup Probes
    PROVE  Arranged(site, {i \in DOMAIN site : site[i].command}, [i \in DOMAIN site |-> i])
              \in Seq(Items)
<1> DEFINE S == {i \in DOMAIN site : site[i].command}
           key == [i \in DOMAIN site |-> i]
<1>1. site \in Seq(Items)
    BY ItemsOfSites
<1>2. Len(site) \in Nat /\ DOMAIN site = 1 .. Len(site) /\ \A i \in DOMAIN site : site[i] \in Items
    BY <1>1, ElementOfSeq, LenProperties
<1>3. IsFiniteSet(DOMAIN site)
    BY <1>2, FS_Interval
<1>4. S \subseteq DOMAIN site /\ S \subseteq Nat /\ IsFiniteSet(S)
    BY <1>2, <1>3, FS_Subset
<1>5. \A i \in S : key[i] \in Nat
    BY <1>2
<1> HIDE DEF S, key
<1>6. Cardinality(S) \in Nat
    BY <1>4, FS_CardinalityType
<1>7. PICK p : Lists(p, S, key) /\ Arranged(site, S, key) = Listed(site, S, p)
    BY <1>4, <1>5, ArrangedByKey
<1>8. \A n \in 1 .. Cardinality(S) : site[p[n]] \in Items
    BY <1>2, <1>4, <1>7 DEF Lists
<1>9. [n \in 1 .. Cardinality(S) |-> site[p[n]]] \in Seq(Items)
    BY <1>6, <1>8, IsASeq
<1> QED
    BY <1>7, <1>9 DEF S, key, Listed

(* The key of the sort is a place in the index. *)
LEMMA OrderIsPlace ==
    ASSUME TypesInv, NEW e, Known(e)
    PROVE  Order(e.name) \in DOMAIN links /\ links[Order(e.name)].title = e.name
           /\ \A i \in DOMAIN links : links[i].title = e.name => i <= Order(e.name)
<1> DEFINE S == {i \in DOMAIN links : links[i].title = e.name}
           N == Len(links)
           T == {n \in Nat : N - n \in S}
<1>1. N \in Nat /\ DOMAIN links = 1 .. N
    BY LenProperties DEF TypesInv
<1>2. PICK i \in S : TRUE
    BY DEF Known
<1> HIDE DEF N
<1>3. i \in 1 .. N /\ N - i \in Nat /\ N - (N - i) = i
    BY <1>1, <1>2
<1>4. N - i \in T
    BY <1>2, <1>3
<1>5. PICK n \in T : \A m \in T : ~(m < n)
    BY <1>4, LeastElement
<1>6. \A k \in S : N - k \in T /\ k \in 1 .. N
    BY <1>1
<1>7. \A k \in S : N - n >= k
    BY <1>1, <1>5, <1>6
<1>8. N - n \in S
    BY <1>5
<1>9. Order(e.name) = CHOOSE x \in S : \A y \in S : x >= y
    BY DEF Order, Max
<1> HIDE DEF S
<1>10. Order(e.name) \in S /\ \A y \in S : Order(e.name) >= y
    BY <1>7, <1>8, <1>9
<1> QED
    BY <1>10 DEF S

(* The sorted entries are the entries, each once, by places that do not    *)
(* decrease.                                                               *)
LEMMA SortedEntries ==
    ASSUME TypesInv, \A i \in DOMAIN entries : Known(entries[i])
    PROVE  \E p : /\ p \in [DOMAIN entries -> DOMAIN entries]
                  /\ \A m, n \in DOMAIN entries : p[m] = p[n] => m = n
                  /\ \A i \in DOMAIN entries : \E n \in DOMAIN entries : p[n] = i
                  /\ \A m, n \in DOMAIN entries : m < n =>
                        Order(entries[p[m]].name) <= Order(entries[p[n]].name)
                  /\ InIndexOrder(entries) = [n \in DOMAIN entries |-> entries[p[n]]]
<1> DEFINE D == DOMAIN entries
           key == [i \in D |-> Order(entries[i].name)]
<1>1. Len(entries) \in Nat /\ D = 1 .. Len(entries)
    BY LenProperties DEF TypesInv
<1>2. IsFiniteSet(D) /\ Cardinality(D) = Len(entries) /\ D \subseteq Nat
  <2>1. \A n \in Nat : IsFiniteSet(1 .. n) /\ Cardinality(1 .. n) = n /\ 1 .. n \subseteq Nat
      BY FS_Interval
  <2> HIDE DEF D
  <2> QED
      BY <1>1, <2>1
<1>3. Len(links) \in Nat /\ DOMAIN links = 1 .. Len(links)
    BY LenProperties DEF TypesInv
<1>4. \A i \in D : Order(entries[i].name) \in DOMAIN links
    BY OrderIsPlace
<1>5. \A i \in D : key[i] \in Nat
    BY <1>3, <1>4
<1>6. \A i \in D : key[i] = Order(entries[i].name)
    OBVIOUS
<1>7. InIndexOrder(entries) = Arranged(entries, D, key)
    BY DEF InIndexOrder
<1> HIDE DEF D, key
<1>8. PICK p : Lists(p, D, key) /\ Arranged(entries, D, key) = Listed(entries, D, p)
    BY <1>2, <1>5, ArrangedByKey
<1>9. /\ p \in [D -> D]
      /\ \A m, n \in D : p[m] = p[n] => m = n
      /\ \A i \in D : \E n \in D : p[n] = i
      /\ \A m, n \in D : m < n => key[p[m]] <= key[p[n]]
    BY <1>1, <1>2, <1>8 DEF Lists
<1>10. \A m, n \in D : m < n => Order(entries[p[m]].name) <= Order(entries[p[n]].name)
    BY <1>6, <1>9
<1>11. InIndexOrder(entries) = [n \in D |-> entries[p[n]]]
    BY <1>1, <1>2, <1>7, <1>8 DEF Listed
<1> QED
    BY <1>9, <1>10, <1>11 DEF D

LEMMA TypesInit == Init => TypesInv
<1> SUFFICES ASSUME Init PROVE TypesInv
    OBVIOUS
<1>1. links = <<>> /\ entries = <<>> /\ task = <<>> /\ tries = <<>> /\ DOMAIN links = {}
    BY DEF Init
<1>2. <<>> \in Seq(Items) /\ <<>> \in Seq(Made)
    BY EmptySeq
<1>3. task \in [DOMAIN links -> {"queued", "running", "done", "failed"}]
      /\ tries \in [DOMAIN links -> 0 .. FETCH_RETRIES]
    BY <1>1
<1> QED
    BY <1>1, <1>2, <1>3, Bounds DEF Init, TypesInv, TypeOK

(* What starts a run, and what ends one before its time. *)
LEMMA TypesStart ==
    ASSUME TypesInv, NEW site \in Sites \cup Probes, NEW cost \in {1, MaxRuns},
           Start(site, cost)
    PROVE  TypesInv'
<1>1. links' \in Seq(Items)
    BY LinksOfSite DEF Start
<1>2. entries' \in Seq(Made)
    BY EmptySeq DEF Start
<1>3. task' \in [DOMAIN links' -> {"queued", "running", "done", "failed"}]
      /\ tries' \in [DOMAIN links' -> 0 .. FETCH_RETRIES]
    BY Bounds DEF Start
<1>4. \A i \in DOMAIN links' : task'[i] = "queued" /\ tries'[i] = 0
    BY DEF Start
<1>5. runs \in Nat /\ runs' = runs + cost /\ runs' >= 1 /\ runs' \in 0 .. MaxRuns
      /\ 1 .. runs \subseteq 1 .. runs'
    BY Bounds DEF Start, TypesInv, TypeOK
<1>6. UNCHANGED files /\ waiting' = DOMAIN links' /\ part_index' = 0 /\ outcome' = "none"
      /\ pc' = "fetch"
    BY DEF Start
<1>7. TypeOK'
    BY <1>3, <1>5, <1>6 DEF TypesInv, TypeOK, files
<1> QED
    BY <1>1, <1>2, <1>4, <1>5, <1>6, <1>7, Bounds DEF TypesInv

LEMMA TypesEnd ==
    ASSUME TypesInv, IndexUnavailable \/ Interrupt
    PROVE  TypesInv'
<1>1. /\ UNCHANGED <<links, task, tries, waiting, entries, part_index, base, wrapper, parts, matrix>>
      /\ pc' = "idle" /\ outcome' \in {"failed", "interrupted"}
    BY DEF IndexUnavailable, Interrupt, End, pool, files
<1>2. runs \in Nat /\ runs' \in 0 .. MaxRuns /\ 1 .. runs \subseteq 1 .. runs'
    BY Bounds DEF IndexUnavailable, Interrupt, TypesInv, TypeOK
<1>3. TypeOK'
    BY <1>1, <1>2 DEF TypesInv, TypeOK
<1> QED
    BY <1>1, <1>3 DEF TypesInv

(* The workers: tries counts to FETCH_RETRIES and not further. *)
LEMMA TypesFetch ==
    ASSUME TypesInv, FetchStep
    PROVE  TypesInv'
<1> USE DEF TypesInv
<1>1. /\ task \in [DOMAIN links -> {"queued", "running", "done", "failed"}]
      /\ tries \in [DOMAIN links -> 0 .. FETCH_RETRIES]
      /\ waiting \subseteq DOMAIN links /\ DOMAIN task = DOMAIN links
    BY DEF TypeOK
<1>2. ASSUME NEW i \in DOMAIN links, NEW t \in {"queued", "running", "done", "failed"},
             task' = [task EXCEPT ![i] = t],
             task[i] \in {"queued", "running"},
             t = "done" => links[i].page # NoMetadata,
             UNCHANGED <<pc, links, tries, waiting, entries, part_index, files, runs, outcome>>
      PROVE  TypesInv'
  <2>1. task' \in [DOMAIN links -> {"queued", "running", "done", "failed"}]
        /\ \A j \in DOMAIN links : task'[j] = IF j = i THEN t ELSE task[j]
      BY <1>1, <1>2
  <2>2. TypeOK'
      BY <1>2, <2>1 DEF TypeOK, files
  <2> QED
      BY <1>2, <2>1, <2>2
<1>3. ASSUME NEW i \in DOMAIN task, TakeTask(i)
      PROVE  TypesInv'
    BY <1>1, <1>2, <1>3 DEF TakeTask
<1>4. ASSUME NEW i \in DOMAIN task, FetchRaises(i)
      PROVE  TypesInv'
    BY <1>1, <1>2, <1>4 DEF FetchRaises
<1>5. ASSUME NEW i \in DOMAIN task, FetchSucceeds(i)
      PROVE  TypesInv'
  <2>1. CASE links[i].page = NoMetadata
    <3>1. task' = [task EXCEPT ![i] = "failed"]
        BY <1>5, <2>1 DEF FetchSucceeds
    <3> QED
        BY <1>1, <1>2, <1>5, <3>1 DEF FetchSucceeds
  <2>2. CASE links[i].page # NoMetadata
    <3>1. task' = [task EXCEPT ![i] = "done"]
        BY <1>5, <2>2 DEF FetchSucceeds
    <3> QED
        BY <1>1, <1>2, <1>5, <2>2, <3>1 DEF FetchSucceeds
  <2> QED
      BY <2>1, <2>2
<1>6. ASSUME NEW i \in DOMAIN task, FetchFails(i)
      PROVE  TypesInv'
  <2>1. tries[i] \in Nat /\ tries[i] < FETCH_RETRIES /\ i \in DOMAIN links
      BY <1>1, <1>6 DEF FetchFails
  <2>2. /\ tries' = [tries EXCEPT ![i] = tries[i] + 1]
        /\ task' = [task EXCEPT ![i] = IF tries'[i] = FETCH_RETRIES THEN "failed" ELSE task[i]]
        /\ UNCHANGED <<pc, links, waiting, entries, part_index, files, runs, outcome>>
      BY <1>6 DEF FetchFails
  <2>3. tries[i] + 1 \in 0 .. FETCH_RETRIES
      BY <2>1, Bounds
  <2>4. tries' \in [DOMAIN links -> 0 .. FETCH_RETRIES]
        /\ \A j \in DOMAIN links : tries'[j] = IF j = i THEN tries[i] + 1 ELSE tries[j]
      BY <1>1, <2>1, <2>2, <2>3
  <2>5. task' \in [DOMAIN links -> {"queued", "running", "done", "failed"}]
        /\ \A j \in DOMAIN links :
              task'[j] = IF j = i /\ tries'[i] = FETCH_RETRIES THEN "failed" ELSE task[j]
      BY <1>1, <2>1, <2>2
  <2>6. \A j \in DOMAIN links : task'[j] \in {"queued", "running"} => tries'[j] < FETCH_RETRIES
    <3> TAKE j \in DOMAIN links
    <3>1. CASE j = i
        BY <2>1, <2>3, <2>4, <2>5, <3>1, Bounds
    <3>2. CASE j # i
        BY <2>4, <2>5, <3>2
    <3> QED
        BY <3>1, <3>2
  <2>7. TypeOK'
      BY <2>2, <2>4, <2>5 DEF TypeOK, files
  <2> QED
      BY <2>2, <2>5, <2>6, <2>7
<1>7. ASSUME NEW i \in waiting, Collect(i)
      PROVE  TypesInv'
  <2>1. links[i].page # NoMetadata /\ i \in DOMAIN links
      BY <1>1, <1>7 DEF Collect
  <2>2. links[i] \in Items
      BY <2>1, ElementOfSeq, LenProperties
  <2>3. Parse(links[i].page) \in Made
      BY <2>1, <2>2 DEF Made
  <2>4. entries' \in Seq(Made)
      BY <1>7, <2>3, AppendProperties DEF Collect
  <2>5. TypeOK'
      BY <1>1, <1>7 DEF TypeOK, Collect, files
  <2> QED
      BY <1>7, <2>4, <2>5 DEF Collect
<1>8. ASSUME NEW i \in waiting, CollectFailure(i)
      PROVE  TypesInv'
    BY <1>8 DEF CollectFailure, TypeOK, files, pool
<1>9. CASE Drained
    BY <1>9 DEF Drained, End, TypeOK, files, pool
<1>10. CASE SortEntries
  <2>1. UNCHANGED <<links, task, tries, waiting, part_index, base, wrapper, parts, matrix, runs>>
      BY <1>10 DEF SortEntries, pool, files
  <2>2. pc # "idle" /\ pc' \in {"idle", "base"} /\ (outcome' = outcome \/ outcome' = "failed")
      BY <1>10 DEF SortEntries, End
  <2>3. entries' \in Seq(Made)
    <3>1. CASE \A i \in DOMAIN entries : Known(entries[i])
      <4>1. PICK p : /\ p \in [DOMAIN entries -> DOMAIN entries]
                     /\ InIndexOrder(entries) = [n \in DOMAIN entries |-> entries[p[n]]]
          BY <3>1, SortedEntries
      <4>2. Len(entries) \in Nat /\ DOMAIN entries = 1 .. Len(entries)
            /\ \A n \in DOMAIN entries : entries[n] \in Made
          BY LenProperties, ElementOfSeq
      <4>3. \A n \in 1 .. Len(entries) : entries[p[n]] \in Made
          BY <4>1, <4>2
      <4>4. [n \in 1 .. Len(entries) |-> entries[p[n]]] \in Seq(Made)
          BY <4>2, <4>3, IsASeq
      <4> QED
          BY <1>10, <3>1, <4>1, <4>2, <4>4 DEF SortEntries
    <3>2. CASE ~(\A i \in DOMAIN entries : Known(entries[i]))
        BY <1>10, <3>2 DEF SortEntries
    <3> QED
        BY <3>1, <3>2
  <2>4. TypeOK'
      BY <2>1, <2>2 DEF TypeOK
  <2> QED
      BY <2>1, <2>2, <2>3, <2>4
<1> QED
    BY <1>3, <1>4, <1>5, <1>6, <1>7, <1>8, <1>9, <1>10 DEF FetchStep

(* Writing the files, each with the number of the run. *)
LEMMA TypesWrite ==
    ASSUME TypesInv, WriteStep
    PROVE  TypesInv'
<1>1. pc # "idle" /\ runs \in 1 .. runs /\ runs \in Nat
  <2>1. pc # "idle"
      BY DEF WriteStep, WriteBase, WriteWrapper, UnlinkPart, Unlinked, WritePart, PartsWritten,
             WriteDocs
  <2> QED
      BY <2>1 DEF TypesInv, TypeOK
<1>2. /\ UNCHANGED <<links, task, tries, waiting, entries, runs>>
      /\ pc' \in {"idle", "wrapper", "unlink", "parts", "docs"}
      /\ outcome' \in {outcome, "ok", "failed"}
    BY DEF WriteStep, WriteBase, WriteWrapper, UnlinkPart, Unlinked, WritePart, PartsWritten,
           WriteDocs, End, pool
<1>3. part_index' \in Nat
  <2>1. part_index' \in {part_index, 0, part_index + 1}
      BY DEF WriteStep, WriteBase, WriteWrapper, UnlinkPart, Unlinked, WritePart, PartsWritten,
             WriteDocs
  <2> QED
      BY <2>1 DEF TypesInv
<1>4. /\ base' = base \/ base'.gen = runs
      /\ wrapper' = wrapper \/ wrapper'.gen = runs
      /\ matrix' = matrix \/ matrix'.gen = runs
  <2>1. /\ base' \in {base, [gen |-> runs]}
        /\ wrapper' \in {wrapper, RenderWrapper}
        /\ matrix' \in {matrix, RenderMatrix}
      BY DEF WriteStep, WriteBase, WriteWrapper, UnlinkPart, Unlinked, WritePart, PartsWritten,
             WriteDocs, files
  <2>2. [gen |-> runs].gen = runs /\ RenderWrapper.gen = runs /\ RenderMatrix.gen = runs
      BY DEF RenderWrapper, RenderMatrix
  <2> QED
      BY <2>1, <2>2
<1>5. \A l \in DOMAIN parts' : parts'[l].gen = runs \/ (l \in DOMAIN parts /\ parts'[l] = parts[l])
  <2>1. CASE \E label \in DOMAIN parts : UnlinkPart(label)
      BY <2>1 DEF UnlinkPart
  <2>2. CASE WritePart
    <3>1. PICK label : parts' = [l \in DOMAIN parts \cup {label} |->
                                    IF l = label THEN RenderPart(part_index) ELSE parts[l]]
        BY <2>2 DEF WritePart
    <3>2. RenderPart(part_index).gen = runs
        BY DEF RenderPart
    <3> QED
        BY <3>1, <3>2
  <2>3. CASE parts' = parts
      BY <2>3
  <2> QED
      BY <2>1, <2>2, <2>3 DEF WriteStep, WriteBase, WriteWrapper, Unlinked, PartsWritten,
                              WriteDocs, files
<1>6. TypeOK'
    BY <1>1, <1>2, <1>4, <1>5 DEF TypesInv, TypeOK
<1> QED
    BY <1>1, <1>2, <1>3, <1>6 DEF TypesInv

LEMMA TypesStep == TypesInv /\ [Next]_vars => TypesInv'
<1> SUFFICES ASSUME TypesInv, [Next]_vars
             PROVE  TypesInv'
    OBVIOUS
<1>1. CASE UNCHANGED vars
    BY <1>1 DEF vars, files, pool, TypesInv, TypeOK
<1>2. CASE Next
  <2>1. ASSUME NEW site \in Sites, Start(site, 1)
        PROVE  TypesInv'
      BY <2>1, TypesStart
  <2>2. ASSUME NEW site \in Probes, Start(site, MaxRuns)
        PROVE  TypesInv'
      BY <2>2, TypesStart
  <2> QED
      BY <1>2, <2>1, <2>2, TypesEnd, TypesFetch, TypesWrite DEF Next
<1> QED
    BY <1>1, <1>2

(* Every file of scripts/generate_command_catalog.py there is is one a run *)
(* wrote, and no page is asked for more than FETCH_RETRIES times.          *)
THEOREM CatalogueTyped == Spec => []TypeOK
<1>1. TypesInv => TypeOK
    BY DEF TypesInv
<1> QED
    BY <1>1, TypesInit, TypesStep, PTL DEF Spec

-----------------------------------------------------------------------------
(* How the entries are cut into parts.                                     *)
LEMMA PartBounds ==
    ASSUME NEW n \in Nat
    PROVE  /\ PartCount(n) \in Nat
           /\ \A i \in 0 .. n - 1 : /\ i \div PART_SIZE \in 0 .. PartCount(n) - 1
                                    /\ i \in PartRange(i \div PART_SIZE, n)
<1> DEFINE d == PART_SIZE
           c == n + d - 1
<1>1. d \in Nat /\ d >= 1 /\ c \in Nat
    BY Bounds
<1>2. \A e \in Nat \ {0} : \A a \in Nat :
         a \div e \in Nat /\ a = e * (a \div e) + (a % e) /\ a % e \in 0 .. e - 1
    OBVIOUS
<1>3. \A a \in Nat : a \div d \in Nat /\ a % d \in Nat
                     /\ a = d * (a \div d) + (a % d) /\ a % d < d
    BY <1>1, <1>2
<1>4. PartCount(n) = c \div d
    BY DEF PartCount
<1>5. \A a, b, e \in Nat : a <= b => e * a <= e * b
    OBVIOUS
<1> HIDE DEF d
<1>6. ASSUME NEW i \in 0 .. n - 1
      PROVE  i \div d \in 0 .. (c \div d) - 1 /\ (i \div d) * d <= i /\ i < ((i \div d) + 1) * d
  <2> DEFINE p == i \div d
             q == c \div d
  <2>1. i \in Nat /\ i < n
      OBVIOUS
  <2>2. p \in Nat /\ i = d * p + (i % d) /\ i % d \in Nat /\ i % d < d
      BY <1>3, <2>1
  <2>3. q \in Nat /\ c = d * q + (c % d) /\ c % d \in Nat /\ c % d < d
      BY <1>1, <1>3
  <2> HIDE DEF p, q
  <2>4. q <= p => d * q <= d * p
      BY <1>1, <1>5, <2>2, <2>3
  <2>5. d * q \in Nat /\ d * p \in Nat
      BY <1>1, <2>2, <2>3
  <2>6. ~(q <= p)
      BY <1>1, <2>1, <2>2, <2>3, <2>4, <2>5
  <2>7. p \in 0 .. q - 1
      BY <2>2, <2>3, <2>6
  <2>8. p * d = d * p /\ (p + 1) * d = d * p + d
      BY <1>1, <2>2
  <2>9. p * d <= i /\ i < (p + 1) * d
      BY <1>1, <2>1, <2>2, <2>5, <2>8
  <2> QED
      BY <2>7, <2>9 DEF p, q
<1>7. c \div d \in Nat
    BY <1>1, <1>3
<1> QED
    BY <1>4, <1>6, <1>7 DEF PartRange, d

(* From the wrapper on, the files on disk hold the entries there are; the  *)
(* parts written so far hold their slices of them.                         *)
Written == pc \in {"parts", "docs"} \/ outcome = "ok"
Slice(p) == [i \in PartRange(p, Len(entries)) |-> Rendered(entries[i + 1])]

LayoutInv ==
    /\ pc = "unlink" \/ Written => wrapper.total = Len(entries)
    /\ Written =>
          /\ DOMAIN parts = {PartLabel[p] : p \in 0 .. part_index - 1}
          /\ \A p \in 0 .. part_index - 1 : parts[PartLabel[p]].rows = Slice(p)
    /\ pc = "parts" => part_index <= PartCount(Len(entries))
    /\ pc = "docs" \/ outcome = "ok" => part_index = PartCount(Len(entries))
    /\ outcome = "ok" => pc = "idle" /\ Len(matrix.rows) = Len(entries)

LEMMA LayoutInit == Init => LayoutInv
BY DEF Init, LayoutInv, Written

LEMMA CountType == TypesInv => Len(entries) \in Nat /\ PartCount(Len(entries)) \in Nat
                               /\ DOMAIN entries = 1 .. Len(entries)
<1> SUFFICES ASSUME TypesInv
             PROVE  Len(entries) \in Nat /\ PartCount(Len(entries)) \in Nat
                    /\ DOMAIN entries = 1 .. Len(entries)
    OBVIOUS
<1>1. Len(entries) \in Nat /\ DOMAIN entries = 1 .. Len(entries)
    BY LenProperties DEF TypesInv
<1> QED
    BY <1>1, PartBounds

(* A new part has a name of its own and leaves the others as they are. *)
LEMMA LayoutWritePart ==
    ASSUME TypesInv, LayoutInv, WritePart
    PROVE  LayoutInv'
<1> DEFINE label == PartLabel[part_index]
<1>1. part_index \in Nat /\ Len(entries) \in Nat /\ PartCount(Len(entries)) \in Nat
    BY CountType DEF TypesInv
<1>2. /\ pc = "parts" /\ part_index < PartCount(Len(entries)) /\ part_index' = part_index + 1
      /\ parts' = [l \in DOMAIN parts \cup {label} |->
                      IF l = label THEN RenderPart(part_index) ELSE parts[l]]
      /\ UNCHANGED <<pc, entries, wrapper, matrix, outcome>>
    BY DEF WritePart
<1>3. /\ DOMAIN parts = {PartLabel[p] : p \in 0 .. part_index - 1}
      /\ \A p \in 0 .. part_index - 1 : parts[PartLabel[p]].rows = Slice(p)
      /\ wrapper.total = Len(entries) /\ outcome # "ok"
    BY <1>2 DEF LayoutInv, Written
<1>4. RenderPart(part_index).rows = Slice(part_index)
    BY DEF RenderPart, Slice
<1>5. \A p \in 0 .. part_index - 1 : PartLabel[p] # label
    BY <1>1, LabelsDiffer
<1>6. 0 .. part_index' - 1 = 0 .. part_index - 1 \cup {part_index}
    BY <1>1, <1>2
<1>7. DOMAIN parts' = {PartLabel[p] : p \in 0 .. part_index' - 1}
    BY <1>2, <1>3, <1>6
<1>8. ASSUME NEW p \in 0 .. part_index' - 1
      PROVE  parts'[PartLabel[p]].rows = Slice(p)
  <2>1. CASE p = part_index
      BY <1>2, <1>4, <2>1
  <2>2. CASE p \in 0 .. part_index - 1
    <3>1. PartLabel[p] \in DOMAIN parts /\ PartLabel[p] # label
        BY <1>3, <1>5, <2>2
    <3>2. parts'[PartLabel[p]] = parts[PartLabel[p]]
        BY <1>2, <3>1
    <3> QED
        BY <1>3, <2>2, <3>2
  <2> QED
      BY <1>6, <2>1, <2>2
<1>9. \A p : Slice(p)' = Slice(p)
    BY <1>2 DEF Slice
<1>10. part_index' <= PartCount(Len(entries))
    BY <1>1, <1>2
<1>11. /\ DOMAIN parts' = {PartLabel[p] : p \in 0 .. part_index' - 1}
       /\ \A p \in 0 .. part_index' - 1 : parts'[PartLabel[p]].rows = Slice(p)'
    BY <1>7, <1>8, <1>9
<1> QED
    BY <1>2, <1>3, <1>10, <1>11 DEF LayoutInv, Written

LEMMA LayoutStep == TypesInv /\ LayoutInv /\ [Next]_vars => LayoutInv'
<1> SUFFICES ASSUME TypesInv, LayoutInv, [Next]_vars
             PROVE  LayoutInv'
    OBVIOUS
<1>1. ASSUME UNCHANGED <<entries, part_index, wrapper, parts, matrix>>,
             \/ (pc' = pc /\ outcome' = outcome)
             \/ (pc' \in {"idle", "fetch", "drain", "base", "wrapper"} /\ outcome' # "ok")
      PROVE  LayoutInv'
  <2>1. \A p : Slice(p)' = Slice(p)
      BY <1>1 DEF Slice
  <2> QED
      BY <1>1, <2>1 DEF LayoutInv, Written
<1>2. ASSUME pc' \in {"idle", "fetch", "drain", "base", "wrapper"}, outcome' # "ok"
      PROVE  LayoutInv'
    BY <1>2 DEF LayoutInv, Written
<1>3. outcome = "ok" => pc = "idle"
    BY DEF LayoutInv
<1>4. CASE UNCHANGED vars
    BY <1>1, <1>4 DEF vars, files
<1>5. ASSUME NEW site, NEW cost, Start(site, cost)
      PROVE  LayoutInv'
    BY <1>2, <1>5 DEF Start
<1>6. CASE IndexUnavailable \/ Interrupt
    BY <1>2, <1>6 DEF IndexUnavailable, Interrupt, End
<1>7. CASE FetchStep
  <2>1. pc \in {"fetch", "drain"}
        /\ \/ pc' \in {"fetch", "drain", "base"} /\ outcome' = outcome
           \/ pc' = "idle" /\ outcome' = "failed"
      BY <1>7 DEF FetchStep, TakeTask, FetchFails, FetchRaises, FetchSucceeds, Collect,
             CollectFailure, Drained, SortEntries, Working, End
  <2> QED
      BY <1>2, <1>3, <2>1
<1>8. CASE WriteBase
    BY <1>2, <1>3, <1>8 DEF WriteBase
<1>9. CASE WriteWrapper
  <2>1. RenderWrapper.total = Len(entries)
      BY DEF RenderWrapper
  <2>2. wrapper'.total = Len(entries') /\ pc' = "unlink" /\ outcome' # "ok"
      BY <1>3, <1>9, <2>1 DEF WriteWrapper
  <2> QED
      BY <2>2 DEF LayoutInv, Written
<1>10. ASSUME NEW label \in DOMAIN parts, UnlinkPart(label)
       PROVE  LayoutInv'
  <2>1. wrapper'.total = Len(entries') /\ pc' = "unlink" /\ outcome' # "ok"
      BY <1>3, <1>10 DEF UnlinkPart, LayoutInv
  <2> QED
      BY <2>1 DEF LayoutInv, Written
<1>11. CASE Unlinked
  <2>1. /\ wrapper'.total = Len(entries') /\ pc' = "parts" /\ outcome' # "ok"
        /\ part_index' = 0 /\ parts' = <<>> /\ entries' = entries
      BY <1>3, <1>11 DEF Unlinked, files, LayoutInv
  <2>2. DOMAIN parts' = {} /\ 0 .. part_index' - 1 = {}
      BY <2>1
  <2>3. part_index' <= PartCount(Len(entries'))
      BY <2>1, CountType
  <2> QED
      BY <2>1, <2>2, <2>3 DEF LayoutInv, Written
<1>12. CASE WritePart
    BY <1>12, LayoutWritePart
<1>13. CASE PartsWritten
  <2>1. /\ pc = "parts" /\ pc' = "docs" /\ part_index = PartCount(Len(entries))
        /\ outcome # "ok"
        /\ UNCHANGED <<entries, part_index, wrapper, parts, matrix, outcome>>
      BY <1>3, <1>13 DEF PartsWritten, files
  <2>2. \A p : Slice(p)' = Slice(p)
      BY <2>1 DEF Slice
  <2> QED
      BY <2>1, <2>2 DEF LayoutInv, Written
<1>14. CASE WriteDocs
  <2>1. /\ pc = "docs" /\ pc' = "idle"
        /\ UNCHANGED <<entries, part_index, wrapper, parts>>
        /\ (outcome' = "ok" /\ matrix' = RenderMatrix) \/ outcome' = "failed"
      BY <1>14 DEF WriteDocs, End
  <2>2. \A p : Slice(p)' = Slice(p)
      BY <2>1 DEF Slice
  <2>3. Len(RenderMatrix.rows) = Len(entries)
    <3>1. DOMAIN entries = 1 .. Len(entries) /\ Len(entries) \in Nat
        BY CountType
    <3>2. RenderMatrix.rows = [i \in 1 .. Len(entries) |-> MatrixRow(entries[i])]
        BY <3>1 DEF RenderMatrix
    <3> QED
        BY <3>1, <3>2
  <2> QED
      BY <2>1, <2>2, <2>3 DEF LayoutInv, Written
<1> QED
    BY <1>4, <1>5, <1>6, <1>7, <1>8, <1>9, <1>10, <1>11, <1>12, <1>13, <1>14
       DEF Next, WriteStep

(* Sources that can be built never mix two runs, and no half of the parts  *)
(* can be built (lines 1425-1433): the name of the part written next is    *)
(* among those the wrapper imports and is no other part's.                 *)
THEOREM BuildableSourcesAgree == Spec => []BuildableIsOneGeneration
<1>1. TypesInv /\ LayoutInv /\ GenInv => BuildableIsOneGeneration
  <2> SUFFICES ASSUME TypesInv, LayoutInv, GenInv, Imported \subseteq DOMAIN parts, pc = "parts",
                      part_index # PartCount(wrapper.total)
               PROVE  FALSE
      BY DEF BuildableIsOneGeneration, GenInv
  <2>1. part_index \in Nat /\ PartCount(Len(entries)) \in Nat
      BY CountType DEF TypesInv
  <2>2. /\ wrapper.total = Len(entries) /\ part_index <= PartCount(Len(entries))
        /\ DOMAIN parts = {PartLabel[p] : p \in 0 .. part_index - 1}
      BY DEF LayoutInv, Written
  <2>3. part_index \in 0 .. PartCount(wrapper.total) - 1
      BY <2>1, <2>2
  <2>4. PartLabel[part_index] \in DOMAIN parts
      BY <2>3 DEF Imported
  <2>5. PICK p \in 0 .. part_index - 1 : PartLabel[part_index] = PartLabel[p]
      BY <2>2, <2>4
  <2>6. p \in Nat /\ p # part_index
      BY <2>1, <2>5
  <2> QED
      BY <2>1, <2>5, <2>6, LabelsDiffer
<1> QED
    BY <1>1, TypesInit, TypesStep, LayoutInit, LayoutStep, GenInit, GenStep, PTL DEF Spec

(* Whatever parts an earlier run left, from the last part on every index   *)
(* is served by the one part that has it, with its entry, and an index     *)
(* that is none by no part (lines 1395-1433).                              *)
THEOREM EveryIndexIsServed == Spec => []ServedByItsPart
<1>1. TypesInv /\ LayoutInv /\ GenInv => ServedByItsPart
  <2> SUFFICES ASSUME TypesInv, LayoutInv, GenInv, pc = "docs" \/ outcome = "ok"
               PROVE  /\ wrapper.total = Len(entries)
                      /\ DOMAIN parts = Imported
                      /\ \A i \in DOMAIN entries : Served(i - 1) = Rendered(entries[i])
                      /\ Served(Len(entries)) = CommandUnknown
                      /\ \A p, q \in 0 .. MaxParts : PartLabel[p] = PartLabel[q] => p = q
                      /\ FilesOfOneRun
                      /\ outcome = "ok" => Len(matrix.rows) = wrapper.total
      BY DEF ServedByItsPart
  <2> DEFINE n == Len(entries)
  <2>1. n \in Nat /\ PartCount(n) \in Nat /\ DOMAIN entries = 1 .. n
      BY CountType
  <2>2. /\ wrapper.total = n /\ part_index = PartCount(n)
        /\ DOMAIN parts = {PartLabel[p] : p \in 0 .. part_index - 1}
        /\ \A p \in 0 .. part_index - 1 : parts[PartLabel[p]].rows = Slice(p)
      BY DEF LayoutInv, Written
  <2>3. DOMAIN parts = Imported
      BY <2>2 DEF Imported
  <2>4. \A i \in DOMAIN entries : Served(i - 1) = Rendered(entries[i])
    <3> TAKE i \in DOMAIN entries
    <3> DEFINE p == (i - 1) \div PART_SIZE
    <3>1. i - 1 \in 0 .. n - 1 /\ (i - 1) + 1 = i
        BY <2>1
    <3>2. p \in 0 .. PartCount(n) - 1 /\ i - 1 \in PartRange(p, n)
        BY <2>1, <3>1, PartBounds
    <3> HIDE DEF p, n
    <3>3. PartLabel[p] \in Imported
        BY <2>2, <2>3, <3>2
    <3>4. parts[PartLabel[p]].rows = Slice(p)
        BY <2>2, <3>2
    <3>5. i - 1 \in DOMAIN Slice(p) /\ Slice(p)[i - 1] = Rendered(entries[i])
        BY <3>1, <3>2 DEF Slice, n
    <3>6. Served(i - 1) = parts[PartLabel[p]].rows[i - 1]
        BY <2>2, <3>2, <3>3, <3>4, <3>5 DEF Served, p
    <3> QED
        BY <3>4, <3>5, <3>6
  <2>5. Served(n) = CommandUnknown
    <3>1. n \notin PartRange(n \div PART_SIZE, n)
        BY <2>1 DEF PartRange
    <3> QED
        BY <2>2, <3>1 DEF Served
  <2>6. \A p, q \in 0 .. MaxParts : PartLabel[p] = PartLabel[q] => p = q
      BY Bounds, LabelsDiffer
  <2>7. FilesOfOneRun
      BY DEF GenInv, FilesOfOneRun
  <2>8. outcome = "ok" => Len(matrix.rows) = n
      BY DEF LayoutInv
  <2> QED
      BY <2>2, <2>3, <2>4, <2>5, <2>6, <2>7, <2>8
<1> QED
    BY <1>1, TypesInit, TypesStep, LayoutInit, LayoutStep, GenInit, GenStep, PTL DEF Spec

-----------------------------------------------------------------------------
(* Where the entries come from: f says of every entry which link it is     *)
(* made of.  While pages are fetched these are the links that as_completed *)
(* has handed over, in any order; when the files are written, all of them. *)
Origin(f) ==
    /\ f \in [DOMAIN entries -> DOMAIN links \ waiting]
    /\ \A j, k \in DOMAIN entries : f[j] = f[k] => j = k
    /\ \A i \in DOMAIN links \ waiting : \E j \in DOMAIN entries : f[j] = i
    /\ \A j \in DOMAIN entries : /\ links[f[j]].page # NoMetadata
                                 /\ entries[j] = Parse(links[f[j]].page)

InOrder ==
    /\ waiting = {}
    /\ \A i \in DOMAIN entries : Known(entries[i])
    /\ \A j, k \in DOMAIN entries : j < k => Order(entries[j].name) <= Order(entries[k].name)

OrderInv ==
    /\ pc = "fetch" \/ Writing => \E f : Origin(f)
    /\ Writing => InOrder

LEMMA OrderInit == Init => OrderInv
BY DEF Init, OrderInv, Writing

(* An entry is appended for a link that was waiting. *)
LEMMA OrderCollect ==
    ASSUME TypesInv, OrderInv, NEW i \in waiting, Collect(i)
    PROVE  OrderInv'
<1> DEFINE n == Len(entries)
<1>1. /\ n \in Nat /\ DOMAIN entries = 1 .. n /\ entries \in Seq(Made)
    BY LenProperties DEF TypesInv
<1>2. /\ pc = "fetch" /\ pc' = "fetch" /\ links' = links /\ waiting' = waiting \ {i}
      /\ i \in DOMAIN links /\ task[i] = "done" /\ waiting \subseteq DOMAIN links
    BY DEF Collect, TypesInv, TypeOK
<1>3. links[i].page # NoMetadata
    BY <1>2 DEF TypesInv
<1>4. links[i] \in Items
    BY <1>2, ElementOfSeq, LenProperties DEF TypesInv
<1>5. Parse(links[i].page) \in Made
    BY <1>3, <1>4 DEF Made
<1>6. /\ DOMAIN entries' = 1 .. n + 1
      /\ \A j \in 1 .. n : entries'[j] = entries[j]
      /\ entries'[n + 1] = Parse(links[i].page)
  <2>1. entries' = Append(entries, Parse(links[i].page))
      BY DEF Collect
  <2>2. entries' \in Seq(Made) /\ Len(entries') = n + 1
        /\ (\A j \in 1 .. n : entries'[j] = entries[j])
        /\ entries'[n + 1] = Parse(links[i].page)
      BY <1>1, <1>5, <2>1, AppendProperties
  <2> QED
      BY <2>2, LenProperties
<1>7. PICK f : Origin(f)
    BY <1>2 DEF OrderInv
<1> HIDE DEF n
<1> DEFINE g == [j \in 1 .. n + 1 |-> IF j = n + 1 THEN i ELSE f[j]]
<1>8. 1 .. n + 1 = 1 .. n \cup {n + 1} /\ n + 1 \notin 1 .. n
    BY <1>1
<1>9. /\ \A j \in 1 .. n : f[j] \in DOMAIN links /\ f[j] \notin waiting
      /\ \A j, k \in 1 .. n : f[j] = f[k] => j = k
      /\ \A l \in DOMAIN links \ waiting : \E j \in 1 .. n : f[j] = l
      /\ \A j \in 1 .. n : links[f[j]].page # NoMetadata /\ entries[j] = Parse(links[f[j]].page)
    BY <1>1, <1>7 DEF Origin
<1>10. g[n + 1] = i /\ \A j \in 1 .. n : g[j] = f[j]
    BY <1>1, <1>8
<1>11. g \in [1 .. n + 1 -> DOMAIN links' \ waiting']
    BY <1>2, <1>8, <1>9
<1> HIDE DEF g
<1>12. \A j, k \in 1 .. n + 1 : g[j] = g[k] => j = k
    BY <1>8, <1>9, <1>10
<1>13. \A l \in DOMAIN links' \ waiting' : \E j \in 1 .. n + 1 : g[j] = l
    BY <1>2, <1>8, <1>9, <1>10
<1>14. \A j \in 1 .. n + 1 : /\ links'[g[j]].page # NoMetadata
                             /\ entries'[j] = Parse(links'[g[j]].page)
    BY <1>2, <1>3, <1>6, <1>8, <1>9, <1>10
<1>15. PICK h : h = g
    OBVIOUS
<1>16. Origin(h)'
    BY <1>6, <1>11, <1>12, <1>13, <1>14, <1>15 DEF Origin
<1> QED
    BY <1>2, <1>16 DEF OrderInv, Writing

(* The sort changes the order of the entries, and nothing else. *)
LEMMA OrderSort ==
    ASSUME TypesInv, OrderInv, SortEntries
    PROVE  OrderInv'
<1>1. CASE ~(\A i \in DOMAIN entries : Known(entries[i]))
    BY <1>1 DEF SortEntries, End, OrderInv, Writing
<1>2. CASE \A i \in DOMAIN entries : Known(entries[i])
  <2> DEFINE D == DOMAIN entries
  <2>1. /\ pc = "fetch" /\ pc' = "base" /\ waiting = {} /\ waiting' = {} /\ links' = links
        /\ entries' = InIndexOrder(entries)
      BY <1>2 DEF SortEntries, pool
  <2>2. PICK p : /\ p \in [D -> D]
                 /\ \A m, n \in D : p[m] = p[n] => m = n
                 /\ \A i \in D : \E n \in D : p[n] = i
                 /\ \A m, n \in D : m < n => Order(entries[p[m]].name) <= Order(entries[p[n]].name)
                 /\ InIndexOrder(entries) = [n \in D |-> entries[p[n]]]
      BY <1>2, SortedEntries
  <2>3. PICK f : Origin(f)
      BY <2>1 DEF OrderInv
  <2>4. DOMAIN entries' = D /\ \A n \in D : entries'[n] = entries[p[n]]
      BY <2>1, <2>2
  <2> DEFINE g == [n \in D |-> f[p[n]]]
  <2>5. /\ \A j \in D : f[j] \in DOMAIN links
        /\ \A j, k \in D : f[j] = f[k] => j = k
        /\ \A l \in DOMAIN links : \E j \in D : f[j] = l
        /\ \A j \in D : links[f[j]].page # NoMetadata /\ entries[j] = Parse(links[f[j]].page)
      BY <2>1, <2>3 DEF Origin
  <2>6. \A n \in D : p[n] \in D /\ g[n] = f[p[n]]
      BY <2>2
  <2>7. g \in [D -> DOMAIN links]
      BY <2>5, <2>6
  <2>8. \A n \in D : Known(entries[n])
      BY <1>2
  <2>9. \A e : Known(e)' = Known(e)
      BY <2>1 DEF Known
  <2>10. \A name : Order(name)' = Order(name)
      BY <2>1 DEF Order
  <2> HIDE DEF g, D
  <2>11. \A j, k \in D : g[j] = g[k] => j = k
      BY <2>2, <2>5, <2>6
  <2>12. \A l \in DOMAIN links : \E j \in D : g[j] = l
    <3> TAKE l \in DOMAIN links
    <3>1. PICK j \in D : f[j] = l
        BY <2>5
    <3>2. PICK n \in D : p[n] = j
        BY <2>2
    <3> QED
        BY <2>6, <3>1, <3>2
  <2>13. \A j \in D : links[g[j]].page # NoMetadata /\ entries'[j] = Parse(links[g[j]].page)
      BY <2>4, <2>5, <2>6
  <2>14. PICK h : h = g
      OBVIOUS
  <2>15. Origin(h)'
    <3>1. DOMAIN entries' = D /\ DOMAIN links' \ waiting' = DOMAIN links
        BY <2>1, <2>4
    <3> QED
        BY <2>1, <2>7, <2>11, <2>12, <2>13, <2>14, <3>1 DEF Origin
  <2>16. \A n \in D : Known(entries'[n])
      BY <2>4, <2>6, <2>8
  <2>17. \A j, k \in D : j < k => Order(entries'[j].name) <= Order(entries'[k].name)
      BY <2>2, <2>4
  <2>18. InOrder'
      BY <2>1, <2>4, <2>9, <2>10, <2>16, <2>17 DEF InOrder
  <2> QED
      BY <2>1, <2>15, <2>18 DEF OrderInv, Writing
<1> QED
    BY <1>1, <1>2

LEMMA OrderStart ==
    ASSUME NEW site, NEW cost, Start(site, cost)
    PROVE  OrderInv'
<1>1. pc' = "fetch" /\ DOMAIN entries' = {} /\ DOMAIN links' \ waiting' = {}
    BY DEF Start
<1>2. <<>> \in [{} -> {}] /\ DOMAIN <<>> = {}
    OBVIOUS
<1>3. Origin(<<>>)'
    BY <1>1, <1>2 DEF Origin
<1> QED
    BY <1>1, <1>3 DEF OrderInv, Writing

LEMMA OrderStep == TypesInv /\ OrderInv /\ [Next]_vars => OrderInv'
<1> SUFFICES ASSUME TypesInv, OrderInv, [Next]_vars
             PROVE  OrderInv'
    OBVIOUS
<1>1. ASSUME UNCHANGED <<links, waiting, entries>>,
             pc' = pc \/ (Writing /\ Writing') \/ pc' \in {"idle", "drain"}
      PROVE  OrderInv'
  <2>1. \A f : Origin(f)' = Origin(f)
      BY <1>1 DEF Origin
  <2>2. InOrder' = InOrder
      BY <1>1 DEF InOrder, Known, Order
  <2> QED
      BY <1>1, <2>1, <2>2 DEF OrderInv, Writing
<1>2. CASE UNCHANGED vars
    BY <1>1, <1>2 DEF vars, pool
<1>3. ASSUME NEW site, NEW cost, Start(site, cost)
      PROVE  OrderInv'
    BY <1>3, OrderStart
<1>4. CASE IndexUnavailable \/ Interrupt
    BY <1>1, <1>4 DEF IndexUnavailable, Interrupt, End, pool
<1>5. ASSUME NEW i \in DOMAIN task, TakeTask(i) \/ FetchFails(i) \/ FetchRaises(i) \/ FetchSucceeds(i)
      PROVE  OrderInv'
    BY <1>1, <1>5 DEF TakeTask, FetchFails, FetchRaises, FetchSucceeds
<1>6. ASSUME NEW i \in waiting, Collect(i)
      PROVE  OrderInv'
    BY <1>6, OrderCollect
<1>7. ASSUME NEW i \in waiting, CollectFailure(i)
      PROVE  OrderInv'
    BY <1>1, <1>7 DEF CollectFailure, pool
<1>8. CASE Drained
    BY <1>1, <1>8 DEF Drained, End, pool
<1>9. CASE SortEntries
    BY <1>9, OrderSort
<1>10. CASE WriteStep
  <2>1. UNCHANGED <<links, waiting, entries>>
      BY <1>10 DEF WriteStep, WriteBase, WriteWrapper, UnlinkPart, Unlinked, WritePart,
                   PartsWritten, WriteDocs, pool
  <2>2. pc' = pc \/ (Writing /\ Writing') \/ pc' = "idle"
      BY <1>10 DEF WriteStep, WriteBase, WriteWrapper, UnlinkPart, Unlinked, WritePart,
                   PartsWritten, WriteDocs, End, Writing
  <2> QED
      BY <1>1, <2>1, <2>2
<1> QED
    BY <1>2, <1>3, <1>4, <1>5, <1>6, <1>7, <1>8, <1>9, <1>10 DEF Next, FetchStep

(* Numbers 1 to n that are listed once each, none after a greater one, are *)
(* listed in their places.                                                 *)
LEMMA AscendingIsIdentity ==
    ASSUME NEW n \in Nat, NEW f, \A j \in 1 .. n : f[j] \in 1 .. n,
           \A j, k \in 1 .. n : f[j] = f[k] => j = k,
           \A i \in 1 .. n : \E j \in 1 .. n : f[j] = i,
           \A j, k \in 1 .. n : j < k => f[j] <= f[k]
    PROVE  \A j \in 1 .. n : f[j] = j
<1> DEFINE S == {k \in Nat : k \in 1 .. n => f[k] = k}
<1>1. ASSUME NEW k \in Nat, \A m \in Nat : m < k => m \in S, k \in 1 .. n
      PROVE  f[k] = k
  <2>1. f[k] \in Nat /\ f[k] \in 1 .. n
      BY <1>1
  <2>2. \A m \in 1 .. n : m < k => f[m] = m
      BY <1>1
  <2>3. ASSUME f[k] < k
        PROVE  FALSE
    <3>1. f[f[k]] = f[k]
        BY <2>1, <2>2, <2>3
    <3> QED
        BY <1>1, <2>1, <2>3, <3>1
  <2>4. ASSUME k < f[k]
        PROVE  FALSE
    <3>1. PICK m \in 1 .. n : f[m] = k
        BY <1>1
    <3>2. m \in Nat /\ m # k
        BY <2>4, <3>1
    <3>3. ~(m < k)
        BY <2>2, <3>1, <3>2
    <3>4. f[k] <= f[m]
        BY <1>1, <3>2, <3>3
    <3> QED
        BY <1>1, <2>1, <2>4, <3>1, <3>4
  <2> QED
      BY <1>1, <2>1, <2>3, <2>4
<1>2. \A k \in Nat : (\A m \in Nat : m < k => m \in S) => k \in S
    BY <1>1
<1>3. Nat \subseteq S
  <2> HIDE DEF S
  <2> QED
      BY <1>2, AllNumbers
<1> QED
    BY <1>3

(* What is written is the whole index and depends on it alone, whichever   *)
(* worker was first and whatever had to be fetched again (build_catalog,   *)
(* lines 1186-1209): every link is the origin of one entry, and the sort   *)
(* leaves but one order where a name is one link's.                        *)
THEOREM WrittenInIndexOrder == Spec => []CatalogueFollowsIndex
<1>1. TypesInv /\ OrderInv => CatalogueFollowsIndex
  <2> SUFFICES ASSUME TypesInv, OrderInv, Writing
               PROVE  /\ Len(entries) = Len(links)
                      /\ ToSet(entries) = {Parse(links[i].page) : i \in DOMAIN links}
                      /\ OneLinkPerName =>
                            \A i \in DOMAIN links : entries[i] = Parse(links[i].page)
      BY DEF CatalogueFollowsIndex
  <2> DEFINE n == Len(links)
             D == DOMAIN links
  <2>1. n \in Nat /\ D = 1 .. n /\ Len(entries) \in Nat /\ DOMAIN entries = 1 .. Len(entries)
      BY LenProperties DEF TypesInv
  <2>2. PICK f : Origin(f)
      BY DEF OrderInv
  <2>3. waiting = {} /\ InOrder
      BY DEF OrderInv, InOrder
  <2>4. /\ f \in [DOMAIN entries -> D]
        /\ \A j, k \in DOMAIN entries : f[j] = f[k] => j = k
        /\ \A i \in D : \E j \in DOMAIN entries : f[j] = i
        /\ \A j \in DOMAIN entries : /\ links[f[j]].page # NoMetadata
                                     /\ entries[j] = Parse(links[f[j]].page)
      BY SMTT(30), <2>2, <2>3 DEF Origin
  <2>5. Len(entries) = n
    <3>1. \A m \in Nat : IsFiniteSet(1 .. m) /\ Cardinality(1 .. m) = m
        BY FS_Interval
    <3> HIDE DEF D, n
    <3>2. f \in Bijection(1 .. Len(entries), 1 .. n)
        BY <2>1, <2>4 DEF Bijection, Injection, Surjection, IsInjective
    <3>3. ExistsBijection(1 .. Len(entries), 1 .. n)
        BY <3>2 DEF ExistsBijection
    <3>4. Cardinality(1 .. n) = Cardinality(1 .. Len(entries))
        BY <2>1, <3>1, <3>3, FS_Bijection
    <3> QED
        BY <2>1, <3>1, <3>4
  <2>6. DOMAIN entries = D
      BY <2>1, <2>5
  <2>7. ToSet(entries) = {Parse(links[i].page) : i \in D}
    <3>1. \A e : e \in ToSet(entries) <=> \E j \in D : e = entries[j]
        BY <2>6 DEF ToSet
    <3> HIDE DEF D
    <3>2. \A j \in D : f[j] \in D /\ entries[j] = Parse(links[f[j]].page)
        BY <2>4, <2>6
    <3>3. \A i \in D : \E j \in D : entries[j] = Parse(links[i].page)
        BY <2>4, <2>6
    <3> QED
        BY <3>1, <3>2, <3>3
  <2>8. ASSUME OneLinkPerName
        PROVE  \A i \in D : entries[i] = Parse(links[i].page)
    <3>1. \A j \in D : links[f[j]] \in Items /\ f[j] \in D
        BY <2>4, <2>6, <2>1, ElementOfSeq DEF TypesInv
    <3>2. \A j \in D : /\ Parse(links[f[j]].page).name = links[f[j]].page.title
                       /\ links[f[j]].page.title = links[f[j]].title
        BY <2>4, <2>6, <2>8, <3>1, NamesOfItems DEF OneLinkPerName
    <3>3. \A j \in D : entries[j].name = links[f[j]].title
        BY <2>4, <2>6, <3>2
    <3>4. \A j \in D : Order(entries[j].name) = f[j]
      <4> TAKE j \in D
      <4>1. Known(entries[j])
          BY <2>3, <2>6 DEF InOrder
      <4>2. Order(entries[j].name) \in D /\ links[Order(entries[j].name)].title = entries[j].name
          BY <4>1, OrderIsPlace
      <4> QED
          BY <2>8, <3>1, <3>3, <4>2 DEF OneLinkPerName
    <3>5. \A j, k \in D : j < k => f[j] <= f[k]
      <4>1. \A j, k \in D : j < k => Order(entries[j].name) <= Order(entries[k].name)
          BY <2>3, <2>6 DEF InOrder
      <4> QED
          BY <3>4, <4>1
    <3> HIDE DEF n, D
    <3>6. /\ \A j \in 1 .. n : f[j] \in 1 .. n
          /\ \A j, k \in 1 .. n : f[j] = f[k] => j = k
          /\ \A i \in 1 .. n : \E j \in 1 .. n : f[j] = i
          /\ \A j, k \in 1 .. n : j < k => f[j] <= f[k]
        BY <2>1, <2>4, <2>6, <3>5
    <3>7. \A j \in 1 .. n : f[j] = j
        BY <2>1, <3>6, AscendingIsIdentity
    <3> QED
        BY <2>1, <2>4, <2>6, <3>7
  <2> QED
      BY <2>5, <2>7, <2>8
<1> QED
    BY <1>1, TypesInit, TypesStep, OrderInit, OrderStep, PTL DEF Spec
-----------------------------------------------------------------------------
(* Recursion.  A rule G that makes the value of d from values of elements  *)
(* of smaller rank has a solution: on every rank from one on the ranks     *)
(* below it.                                                               *)
LEMMA LeastRank ==
    ASSUME NEW D, NEW rank \in [D -> Nat], NEW T \in SUBSET D, T # {}
    PROVE  \E d \in T : \A e \in T : ~(rank[e] < rank[d])
<1> DEFINE N == {rank[d] : d \in T}
<1>1. N \subseteq Nat /\ N # {}
    OBVIOUS
<1>2. PICK n \in N : \A m \in N : ~(m < n)
    BY <1>1, LeastElement
<1> QED
    BY <1>2

LEMMA ByRank ==
    ASSUME NEW D, NEW rank \in [D -> Nat], NEW S,
           \A d \in D : (\A e \in D : rank[e] < rank[d] => e \in S) => d \in S
    PROVE  \A d \in D : d \in S
<1> DEFINE T == {d \in D : d \notin S}
<1> SUFFICES ASSUME T # {} PROVE FALSE
    OBVIOUS
<1>1. T \in SUBSET D
    OBVIOUS
<1> HIDE DEF T
<1>2. PICK d \in T : \A e \in T : ~(rank[e] < rank[d])
    BY <1>1, LeastRank
<1> QED
    BY <1>2 DEF T

(* G depends on what has a smaller rank only. *)
Grounded(G, D, rank, V) ==
    \A d \in D : \A f, g \in [D -> V] :
        (\A e \in D : rank[e] < rank[d] => f[e] = g[e]) => G[<<d, f>>] = G[<<d, g>>]
Solves(f, G, D, rank, n) == \A d \in D : rank[d] < n => f[d] = G[<<d, f>>]

LEMMA SolutionsAgree ==
    ASSUME NEW D, NEW rank \in [D -> Nat], NEW V, NEW G, Grounded(G, D, rank, V),
           NEW f \in [D -> V], NEW g \in [D -> V], NEW n \in Nat, NEW m \in Nat,
           Solves(f, G, D, rank, n), Solves(g, G, D, rank, m)
    PROVE  \A d \in D : rank[d] < n /\ rank[d] < m => f[d] = g[d]
<1> DEFINE T == {d \in D : rank[d] < n /\ rank[d] < m /\ f[d] # g[d]}
<1> SUFFICES ASSUME T # {} PROVE FALSE
    OBVIOUS
<1>1. PICK d \in T : \A e \in T : ~(rank[e] < rank[d])
    BY LeastRank
<1>2. \A e \in D : rank[e] < rank[d] => f[e] = g[e]
    BY <1>1
<1>3. G[<<d, f>>] = G[<<d, g>>]
    BY <1>1, <1>2 DEF Grounded
<1> QED
    BY <1>1, <1>3 DEF Solves

LEMMA SolutionsExist ==
    ASSUME NEW D, NEW rank \in [D -> Nat], NEW V, V # {},
           NEW G \in [D \X [D -> V] -> V], Grounded(G, D, rank, V)
    PROVE  \A n \in Nat : \E f \in [D -> V] : Solves(f, G, D, rank, n)
<1> DEFINE S == {n \in Nat : \E f \in [D -> V] : Solves(f, G, D, rank, n)}
<1>1. ASSUME NEW n \in Nat, \A m \in Nat : m < n => m \in S
      PROVE  n \in S
  <2>1. CASE n = 0
    <3>1. PICK v \in V : TRUE
        OBVIOUS
    <3>2. Solves([d \in D |-> v], G, D, rank, 0)
        BY DEF Solves
    <3> QED
        BY <2>1, <3>1, <3>2
  <2>2. CASE n > 0
    <3>1. n - 1 \in S
        BY <1>1, <2>2
    <3>2. PICK f \in [D -> V] : Solves(f, G, D, rank, n - 1)
        BY <3>1
    <3> DEFINE g == [d \in D |-> G[<<d, f>>]]
    <3>3. g \in [D -> V]
        OBVIOUS
    <3>4. ASSUME NEW d \in D, rank[d] < n
          PROVE  G[<<d, g>>] = G[<<d, f>>]
      <4>1. \A e \in D : rank[e] < rank[d] => g[e] = f[e]
          BY <3>2, <3>4 DEF Solves
      <4> HIDE DEF g
      <4> QED
          BY <3>3, <4>1 DEF Grounded
    <3>5. Solves(g, G, D, rank, n)
        BY <3>4 DEF Solves
    <3> QED
        BY <3>3, <3>5
  <2> QED
      BY <2>1, <2>2
<1>2. Nat \subseteq S
  <2> HIDE DEF S
  <2> QED
      BY <1>1, AllNumbers
<1> QED
    BY <1>2

Rule(G, D, rank, V) ==
    /\ rank \in [D -> Nat] /\ V # {}
    /\ G \in [D \X [D -> V] -> V] /\ Grounded(G, D, rank, V)
Solution(f, G, D, V) == f \in [D -> V] /\ \A d \in D : f[d] = G[<<d, f>>]

LEMMA Recursion ==
    ASSUME NEW D, NEW rank, NEW V, NEW G, Rule(G, D, rank, V)
    PROVE  \E f : Solution(f, G, D, V)
<1> DEFINE s(n) == CHOOSE f \in [D -> V] : Solves(f, G, D, rank, n)
           h == [d \in D |-> s(rank[d] + 1)[d]]
<1> USE DEF Rule
<1>1. \A n \in Nat : s(n) \in [D -> V] /\ Solves(s(n), G, D, rank, n)
    BY SolutionsExist
<1> HIDE DEF s
<1>2. h \in [D -> V]
    BY <1>1
<1>3. ASSUME NEW d \in D
      PROVE  h[d] = G[<<d, h>>]
  <2> DEFINE n == rank[d] + 1
  <2>1. n \in Nat /\ rank[d] < n
      OBVIOUS
  <2>2. h[d] = G[<<d, s(n)>>]
      BY <1>1, <2>1 DEF Solves
  <2>3. ASSUME NEW e \in D, rank[e] < rank[d]
        PROVE  h[e] = s(n)[e]
    <3>1. PICK m \in Nat : m = rank[e] + 1 /\ rank[e] < m /\ rank[e] < n
        BY <2>3
    <3> HIDE DEF n
    <3>2. s(m) \in [D -> V] /\ Solves(s(m), G, D, rank, m)
        BY <1>1
    <3>3. s(n) \in [D -> V] /\ Solves(s(n), G, D, rank, n)
        BY <1>1, <2>1
    <3>4. \A c \in D : rank[c] < m /\ rank[c] < n => s(m)[c] = s(n)[c]
        BY <2>1, <3>2, <3>3, SolutionsAgree
    <3>5. h[e] = s(m)[e]
        BY <3>1
    <3> QED
        BY <3>1, <3>4, <3>5
  <2>4. s(n) \in [D -> V]
      BY <1>1, <2>1
  <2> HIDE DEF n, h
  <2>5. G[<<d, h>>] = G[<<d, s(n)>>]
      BY <1>2, <2>3, <2>4 DEF Grounded
  <2> QED
      BY <2>2, <2>5
<1> QED
    BY <1>2, <1>3 DEF Solution

-----------------------------------------------------------------------------
(* Sums over a list.  FoldSeq takes the positions in any order.            *)
First(T) == CHOOSE i \in T : TRUE

LEMMA Positions ==
    ASSUME NEW n \in Nat
    PROVE  /\ \A T \in SUBSET (1 .. n) : Cardinality(T) \in Nat
           /\ \A T \in SUBSET (1 .. n) : T # {} =>
                 /\ First(T) \in T /\ First(T) \in 1 .. n /\ T \ {First(T)} \in SUBSET (1 .. n)
                 /\ Cardinality(T \ {First(T)}) < Cardinality(T)
<1>1. \A T \in SUBSET (1 .. n) : IsFiniteSet(T) /\ Cardinality(T) \in Nat
  <2> TAKE T \in SUBSET (1 .. n)
  <2>1. IsFiniteSet(1 .. n)
      BY FS_Interval
  <2>2. IsFiniteSet(T)
      BY <2>1, FS_Subset
  <2> QED
      BY <2>2, FS_CardinalityType
<1>2. ASSUME NEW T \in SUBSET (1 .. n), T # {}
      PROVE  /\ First(T) \in T /\ First(T) \in 1 .. n /\ T \ {First(T)} \in SUBSET (1 .. n)
             /\ Cardinality(T \ {First(T)}) < Cardinality(T)
  <2>1. First(T) \in T
      BY <1>2 DEF First
  <2>2. Cardinality(T \ {First(T)}) = Cardinality(T) - 1
      BY <1>1, <2>1, FS_RemoveElement
  <2>3. Cardinality(T) \in Nat
      BY <1>1
  <2>4. Cardinality(T \ {First(T)}) < Cardinality(T)
      BY <2>2, <2>3
  <2> QED
      BY <2>1, <2>4
<1> QED
    BY <1>1, <1>2

PartialSums(h, n, V, zero, op, s) ==
    /\ h \in [SUBSET (1 .. n) -> V]
    /\ \A T \in SUBSET (1 .. n) :
          h[T] = IF T = {} THEN zero ELSE op[<<s[First(T)], h[T \ {First(T)}]>>]

LEMMA FoldSolution ==
    ASSUME NEW n \in Nat, NEW V, NEW zero \in V, NEW op \in [V \X V -> V], NEW s \in [1 .. n -> V]
    PROVE  \E h : PartialSums(h, n, V, zero, op, s)
<1> DEFINE D == SUBSET (1 .. n)
           rank == [T \in D |-> Cardinality(T)]
           G == [p \in D \X [D -> V] |->
                    IF p[1] = {} THEN zero
                    ELSE op[<<s[First(p[1])], p[2][p[1] \ {First(p[1])}]>>]]
<1>1. \A T \in D : T # {} => First(T) \in 1 .. n /\ T \ {First(T)} \in D
    BY Positions
<1>3. rank \in [D -> Nat]
    BY Positions
<1>4. \A T \in D : T # {} => rank[T \ {First(T)}] < rank[T]
    BY Positions
<1>5. G \in [D \X [D -> V] -> V]
  <2> SUFFICES ASSUME NEW T \in D, NEW f \in [D -> V], T # {}
               PROVE  op[<<s[First(T)], f[T \ {First(T)}]>>] \in V
      OBVIOUS
  <2>1. s[First(T)] \in V /\ f[T \ {First(T)}] \in V
      BY <1>1
  <2> QED
      BY <2>1
<1>6. Grounded(G, D, rank, V)
  <2> SUFFICES ASSUME NEW T \in D, NEW f \in [D -> V], NEW g \in [D -> V],
                      \A e \in D : rank[e] < rank[T] => f[e] = g[e]
               PROVE  G[<<T, f>>] = G[<<T, g>>]
      BY DEF Grounded
  <2>1. T # {} => f[T \ {First(T)}] = g[T \ {First(T)}]
      BY <1>1, <1>4
  <2> QED
      BY <2>1
<1>7. \A T \in D, h \in [D -> V] :
          G[<<T, h>>] = IF T = {} THEN zero ELSE op[<<s[First(T)], h[T \ {First(T)}]>>]
    OBVIOUS
<1> HIDE DEF G, rank, D
<1>8. V # {}
    OBVIOUS
<1>9. PICK h : Solution(h, G, D, V)
    BY <1>3, <1>5, <1>6, <1>8, Recursion DEF Rule
<1>10. \A T \in D : h[T] = IF T = {} THEN zero ELSE op[<<s[First(T)], h[T \ {First(T)}]>>]
    BY <1>7, <1>9 DEF Solution
<1> QED
    BY <1>9, <1>10 DEF D, Solution, PartialSums

(* The partial sums of numbers, by the set of the positions that are in.   *)
Adds(h, n, s) ==
    /\ h \in [SUBSET (1 .. n) -> Nat]
    /\ \A T \in SUBSET (1 .. n) :
          h[T] = IF T = {} THEN 0 ELSE s[First(T)] + h[T \ {First(T)}]

LEMMA SumOfTrace ==
    ASSUME NEW n \in Nat, NEW s \in [1 .. n -> Nat]
    PROVE  \E h : SumOf(s) = h[1 .. n] /\ Adds(h, n, s)
<1> DEFINE D == SUBSET (1 .. n)
           op == [p \in Nat \X Nat |-> p[1] + p[2]]
           Is(g) == g = [T \in D |-> IF T = {} THEN 0 ELSE s[First(T)] + g[T \ {First(T)}]]
           f == CHOOSE f : Is(f)
<1>1. PICK h : PartialSums(h, n, Nat, 0, op, s)
  <2>1. op \in [Nat \X Nat -> Nat] /\ 0 \in Nat
      OBVIOUS
  <2> HIDE DEF op
  <2> QED
      BY <2>1, FoldSolution
<1>2. \A T \in D : T # {} => s[First(T)] \in Nat /\ T \ {First(T)} \in D
    BY Positions
<1>3. Is(h)
    BY <1>1, <1>2 DEF PartialSums
<1>4. Is(f)
    BY <1>3
<1>5. SumOf(s) = f[1 .. n]
    BY DEF SumOf, FoldSeq, FoldFunction, FoldFunctionOnSet, MapThenFoldSet, First
<1> HIDE DEF f
<1>6. \A T \in D : f[T] = IF T = {} THEN 0 ELSE s[First(T)] + f[T \ {First(T)}]
    BY <1>4
<1>7. f \in [D -> Nat]
  <2> DEFINE rank == [T \in D |-> Cardinality(T)]
             S == {T \in D : f[T] \in Nat}
  <2>1. rank \in [D -> Nat]
      BY Positions
  <2>2. ASSUME NEW T \in D, \A e \in D : rank[e] < rank[T] => e \in S
        PROVE  T \in S
    <3>1. CASE T = {}
      <4>1. f[T] = 0
          BY <1>6, <3>1
      <4> QED
          BY <4>1
    <3>2. CASE T # {}
      <4>1. T \ {First(T)} \in D /\ rank[T \ {First(T)}] < rank[T]
          BY <3>2, Positions
      <4>2. f[T \ {First(T)}] \in Nat /\ s[First(T)] \in Nat
          BY <1>2, <2>2, <3>2, <4>1
      <4>3. f[T] = s[First(T)] + f[T \ {First(T)}]
          BY <1>6, <3>2
      <4> QED
          BY <4>2, <4>3
    <3> QED
        BY <3>1, <3>2
  <2> HIDE DEF S, rank, D
  <2>3. \A T \in D : T \in S
      BY <2>1, <2>2, ByRank
  <2> QED
      BY <1>4, <2>3 DEF S
<1> QED
    BY <1>5, <1>6, <1>7 DEF Adds

LEMMA SumsType == \A A, B \in SUBSET Nat : Sums(A, B) \in SUBSET Nat
BY DEF Sums

(* The same of sets of numbers. *)
AddsSets(h, n, B, s) ==
    /\ h \in [SUBSET (1 .. n) -> SUBSET Nat]
    /\ \A T \in SUBSET (1 .. n) :
          h[T] = IF T = {} THEN B ELSE Sums(s[First(T)], h[T \ {First(T)}])

LEMMA SumsTrace ==
    ASSUME NEW n \in Nat, NEW B \in SUBSET Nat, NEW s \in [1 .. n -> SUBSET Nat]
    PROVE  \E h : FoldSeq(Sums, B, s) = h[1 .. n] /\ AddsSets(h, n, B, s)
<1> DEFINE D == SUBSET (1 .. n)
           V == SUBSET Nat
           op == [p \in V \X V |-> Sums(p[1], p[2])]
           Is(g) == g = [T \in D |-> IF T = {} THEN B ELSE Sums(s[First(T)], g[T \ {First(T)}])]
           f == CHOOSE f : Is(f)
<1>1. PICK h : PartialSums(h, n, V, B, op, s)
  <2>1. op \in [V \X V -> V] /\ B \in V /\ s \in [1 .. n -> V]
      BY SumsType
  <2> HIDE DEF op, V
  <2> QED
      BY <2>1, FoldSolution
<1>2. \A T \in D : T # {} => s[First(T)] \in V /\ T \ {First(T)} \in D
    BY Positions
<1>3. Is(h)
  <2>1. h \in [D -> V] /\ \A T \in D : h[T] = IF T = {} THEN B ELSE op[<<s[First(T)], h[T \ {First(T)}]>>]
      BY <1>1 DEF PartialSums
  <2> HIDE DEF V
  <2>2. \A T \in D : T # {} => op[<<s[First(T)], h[T \ {First(T)}]>>] = Sums(s[First(T)], h[T \ {First(T)}])
      BY <1>2, <2>1
  <2> QED
      BY <2>1, <2>2
<1>4. Is(f)
    BY <1>3
<1>5. FoldSeq(Sums, B, s) = f[1 .. n]
    BY DEF FoldSeq, FoldFunction, FoldFunctionOnSet, MapThenFoldSet, First
<1> HIDE DEF f
<1>6. \A T \in D : f[T] = IF T = {} THEN B ELSE Sums(s[First(T)], f[T \ {First(T)}])
    BY <1>4
<1>7. f \in [D -> V]
  <2> DEFINE rank == [T \in D |-> Cardinality(T)]
             S == {T \in D : f[T] \in V}
  <2>1. rank \in [D -> Nat]
      BY Positions
  <2>2. ASSUME NEW T \in D, \A e \in D : rank[e] < rank[T] => e \in S
        PROVE  T \in S
    <3>1. CASE T = {}
      <4>1. f[T] = B
          BY <1>6, <3>1
      <4> QED
          BY <4>1
    <3>2. CASE T # {}
      <4>1. T \ {First(T)} \in D /\ rank[T \ {First(T)}] < rank[T]
          BY <3>2, Positions
      <4>2. f[T \ {First(T)}] \in V /\ s[First(T)] \in V
          BY <1>2, <2>2, <3>2, <4>1
      <4>3. f[T] = Sums(s[First(T)], f[T \ {First(T)}])
          BY <1>6, <3>2
      <4>4. f[T] \in V
          BY <4>2, <4>3, SumsType
      <4> QED
          BY <4>4
    <3> QED
        BY <3>1, <3>2
  <2> HIDE DEF S, rank, D
  <2>3. \A T \in D : T \in S
      BY <2>1, <2>2, ByRank
  <2> QED
      BY <1>4, <2>3 DEF S
<1> QED
    BY <1>5, <1>6, <1>7 DEF AddsSets

(* The least terms have the least sum, and single terms a single sum.      *)
LEMMA LeastSum ==
    ASSUME NEW n \in Nat, NEW least \in [1 .. n -> Nat], NEW s \in [1 .. n -> SUBSET Nat],
           NEW z \in Nat, NEW B \in SUBSET Nat, \A b \in B : z <= b,
           \A i \in 1 .. n : \A v \in s[i] : least[i] <= v
    PROVE  /\ SumOf(least) \in Nat
           /\ \A v \in FoldSeq(Sums, B, s) : v \in Nat /\ z + SumOf(least) <= v
<1>1. PICK g : SumOf(least) = g[1 .. n] /\ Adds(g, n, least)
    BY SumOfTrace
<1>2. PICK h : FoldSeq(Sums, B, s) = h[1 .. n] /\ AddsSets(h, n, B, s)
    BY SumsTrace
<1> DEFINE D == SUBSET (1 .. n)
           rank == [T \in D |-> Cardinality(T)]
           S == {T \in D : \A v \in h[T] : z + g[T] <= v}
<1>3. rank \in [D -> Nat]
    BY Positions
<1>4. ASSUME NEW T \in D, \A e \in D : rank[e] < rank[T] => e \in S
      PROVE  T \in S
  <2>1. CASE T = {}
    <3>1. h[T] = B /\ g[T] = 0
        BY <1>1, <1>2, <2>1 DEF Adds, AddsSets
    <3>2. \A v \in B : z + 0 <= v
        OBVIOUS
    <3>3. \A v \in h[T] : z + g[T] <= v
      <4> HIDE DEF D, rank, S
      <4> QED
          BY <3>1, <3>2
    <3> QED
        BY <3>3
  <2>2. CASE T # {}
    <3> DEFINE i == First(T)
               U == T \ {i}
    <3>1. i \in 1 .. n /\ U \in D /\ rank[U] < rank[T]
        BY <2>2, Positions
    <3>2. g[T] = least[i] + g[U] /\ h[T] = Sums(s[i], h[U])
        BY <1>1, <1>2, <2>2 DEF Adds, AddsSets
    <3>3. U \in S
        BY <1>4, <3>1
    <3> HIDE DEF i, U
    <3>4. least[i] \in Nat /\ g[U] \in Nat /\ s[i] \in SUBSET Nat /\ h[U] \in SUBSET Nat
        BY <1>1, <1>2, <3>1 DEF Adds, AddsSets
    <3>5. \A a \in s[i], b \in h[U] : least[i] <= a /\ z + g[U] <= b /\ a \in Nat /\ b \in Nat
        BY <3>1, <3>3, <3>4
    <3>6. \A v \in h[T] : z + g[T] <= v
      <4> TAKE v \in h[T]
      <4>1. PICK a \in s[i], b \in h[U] : v = a + b
          BY <3>2 DEF Sums
      <4>2. least[i] <= a /\ z + g[U] <= b /\ a \in Nat /\ b \in Nat
          BY <3>5, <4>1
      <4>3. z + (least[i] + g[U]) <= a + b
          BY <3>4, <4>2
      <4> QED
          BY <3>2, <4>1, <4>3
    <3> QED
        BY <3>6
  <2> QED
      BY <2>1, <2>2
<1> HIDE DEF S, rank, D
<1>5. \A T \in D : T \in S
    BY SMTT(30), <1>3, <1>4, ByRank
<1>6. 1 .. n \in S
    BY <1>5 DEF D
<1>7. g[1 .. n] \in Nat /\ h[1 .. n] \in SUBSET Nat
    BY <1>1, <1>2 DEF Adds, AddsSets
<1> QED
    BY <1>1, <1>2, <1>6, <1>7 DEF S

LEMMA SingleSum ==
    ASSUME NEW n \in Nat, NEW s \in [1 .. n -> SUBSET Nat], NEW z \in Nat,
           \A i \in 1 .. n : \A v, w \in s[i] : v = w
    PROVE  \A v, w \in FoldSeq(Sums, {z}, s) : v = w
<1>1. PICK h : FoldSeq(Sums, {z}, s) = h[1 .. n] /\ AddsSets(h, n, {z}, s)
    BY SumsTrace
<1> DEFINE D == SUBSET (1 .. n)
           rank == [T \in D |-> Cardinality(T)]
           S == {T \in D : \A v, w \in h[T] : v = w}
<1>2. rank \in [D -> Nat]
    BY Positions
<1>3. ASSUME NEW T \in D, \A e \in D : rank[e] < rank[T] => e \in S
      PROVE  T \in S
  <2>1. CASE T = {}
    <3>1. h[T] = {z}
        BY <1>1, <2>1 DEF AddsSets
    <3> QED
        BY <3>1
  <2>2. CASE T # {}
    <3> DEFINE i == First(T)
               U == T \ {i}
    <3>1. i \in 1 .. n /\ U \in D /\ rank[U] < rank[T]
        BY <2>2, Positions
    <3>2. h[T] = Sums(s[i], h[U])
        BY <1>1, <2>2 DEF AddsSets
    <3>3. U \in S
        BY <1>3, <3>1
    <3> HIDE DEF i, U
    <3>4. \A v, w \in h[T] : v = w
      <4>1. \A v, w \in h[U] : v = w
          BY <3>3
      <4>2. \A v, w \in s[i] : v = w
          BY <3>1
      <4> QED
          BY <3>2, <4>1, <4>2 DEF Sums
    <3> QED
        BY <3>4
  <2> QED
      BY <2>1, <2>2
<1> HIDE DEF S, rank, D
<1>4. \A T \in D : T \in S
    BY <1>2, <1>3, ByRank
<1>5. 1 .. n \in S
    BY <1>4 DEF D
<1> QED
    BY <1>1, <1>5 DEF S

-----------------------------------------------------------------------------
(* The functions on argument nodes are what their definitions say.         *)
Rank == [arg \in Argument |-> Depth[arg]]

LEMMA ArgumentType ==
    ASSUME NEW arg \in Argument
    PROVE  /\ arg.token \in BOOLEAN /\ arg.optional \in BOOLEAN /\ arg.multiple \in BOOLEAN
           /\ arg.args \in Seq(Argument) /\ Len(arg.args) \in Nat
           /\ DOMAIN arg.args = 1 .. Len(arg.args)
           /\ \A i \in DOMAIN arg.args : arg.args[i] \in Argument /\ Rank[arg.args[i]] < Rank[arg]
<1>1. arg.args \in Seq(Argument) /\ \A i \in DOMAIN arg.args : Depth[arg.args[i]] < Depth[arg]
    BY ArgumentAssumption
<1>2. /\ Len(arg.args) \in Nat /\ DOMAIN arg.args = 1 .. Len(arg.args)
      /\ \A i \in DOMAIN arg.args : arg.args[i] \in Argument
    BY <1>1, ElementOfSeq, LenProperties
<1>3. arg.token \in BOOLEAN /\ arg.optional \in BOOLEAN /\ arg.multiple \in BOOLEAN
    BY ArgumentAssumption
<1> QED
    BY <1>1, <1>2, <1>3 DEF Rank

LEMMA RankType == Rank \in [Argument -> Nat]
BY ArgumentAssumption DEF Rank

(* Two functions that agree on the nodes nested in arg.                    *)
Agree(f, g, arg) == \A i \in DOMAIN arg.args : f[arg.args[i]] = g[arg.args[i]]

LEMMA AgreeBelow ==
    ASSUME NEW arg \in Argument, NEW f, NEW g,
           \A e \in Argument : Rank[e] < Rank[arg] => f[e] = g[e]
    PROVE  Agree(f, g, arg)
BY ArgumentType DEF Agree

LEMMA EachAgrees ==
    ASSUME NEW arg \in Argument, NEW f, NEW g, Agree(f, g, arg)
    PROVE  Each(f, arg.args) = Each(g, arg.args)
BY DEF Each, Agree

LEMMA EachType ==
    ASSUME NEW arg \in Argument, NEW V, NEW f, \A i \in DOMAIN arg.args : f[arg.args[i]] \in V
    PROVE  Each(f, arg.args) \in [1 .. Len(arg.args) -> V]
BY ArgumentType DEF Each

TokensRule(arg, f) ==
    CASE arg.optional \/ arg.multiple -> 0
      [] ~(arg.optional \/ arg.multiple) /\ arg.type = "oneof" ->
            IF arg.args = <<>> THEN 0 ELSE Prefix(arg) + Min(ToSet(Each(f, arg.args)))
      [] ~(arg.optional \/ arg.multiple) /\ arg.type = "block" ->
            Prefix(arg) + SumOf(Each(f, arg.args))
      [] OTHER -> 1

LEMMA PrefixType == \A arg \in Argument : Prefix(arg) \in {0, 1}
BY DEF Prefix

LEMMA LeastOf ==
    ASSUME NEW n \in Nat, n # 0, NEW s \in [1 .. n -> Nat]
    PROVE  Min(ToSet(s)) \in Nat /\ \A i \in 1 .. n : Min(ToSet(s)) <= s[i]
<1>1. ToSet(s) \subseteq Nat /\ s[1] \in ToSet(s) /\ \A i \in 1 .. n : s[i] \in ToSet(s)
    BY DEF ToSet
<1>2. PICK m \in ToSet(s) : \A k \in ToSet(s) : ~(k < m)
    BY <1>1, LeastElement
<1>3. \A k \in ToSet(s) : m <= k
    BY <1>1, <1>2
<1>4. Min(ToSet(s)) \in ToSet(s) /\ \A k \in ToSet(s) : Min(ToSet(s)) <= k
    BY <1>2, <1>3 DEF Min
<1> QED
    BY <1>1, <1>4

LEMMA TokensRuleType ==
    ASSUME NEW arg \in Argument, NEW f, \A i \in DOMAIN arg.args : f[arg.args[i]] \in Nat
    PROVE  TokensRule(arg, f) \in Nat
<1> DEFINE n == Len(arg.args)
           s == Each(f, arg.args)
<1>1. n \in Nat /\ s \in [1 .. n -> Nat]
    BY EachType, ArgumentType
<1>2. arg.args # <<>> => n # 0
    BY ArgumentType, EmptySeq
<1> HIDE DEF n, s
<1>3. SumOf(s) \in Nat
  <2>1. PICK h : SumOf(s) = h[1 .. n] /\ Adds(h, n, s)
      BY <1>1, SumOfTrace
  <2> QED
      BY <1>1, <2>1 DEF Adds
<1>4. arg.args # <<>> => Min(ToSet(s)) \in Nat
    BY <1>1, <1>2, LeastOf
<1>5. Prefix(arg) \in Nat
    BY PrefixType
<1> QED
    BY <1>3, <1>4, <1>5, ArgumentType DEF TokensRule, s

LEMMA MinTokensUnfolds ==
    MinTokens \in [Argument -> Nat] /\ \A arg \in Argument : MinTokens[arg] = TokensRule(arg, MinTokens)
<1> DEFINE F == [Argument -> Nat]
           G == [p \in Argument \X F |-> TokensRule(p[1], p[2])]
           Is(f) == f = [arg \in Argument |-> TokensRule(arg, f)]
<1>1. \A arg \in Argument, f \in F : TokensRule(arg, f) \in Nat
    BY TokensRuleType, ArgumentType
<1>2. G \in [Argument \X F -> Nat]
    BY <1>1
<1>3. \A arg \in Argument, f \in F : G[<<arg, f>>] = TokensRule(arg, f)
    OBVIOUS
<1>4. Grounded(G, Argument, Rank, Nat)
  <2> HIDE DEF G
  <2> SUFFICES ASSUME NEW arg \in Argument, NEW f \in F, NEW g \in F,
                      \A e \in Argument : Rank[e] < Rank[arg] => f[e] = g[e]
               PROVE  G[<<arg, f>>] = G[<<arg, g>>]
      BY DEF Grounded
  <2>1. Each(f, arg.args) = Each(g, arg.args)
      BY AgreeBelow, EachAgrees
  <2>2. TokensRule(arg, f) = TokensRule(arg, g)
      BY <2>1 DEF TokensRule
  <2> QED
      BY <1>3, <2>2
<1>5. Nat # {}
    OBVIOUS
<1> HIDE DEF G
<1>6. PICK h : Solution(h, G, Argument, Nat)
    BY <1>2, <1>4, <1>5, RankType, Recursion DEF Rule
<1>7. h \in F /\ \A arg \in Argument : h[arg] = TokensRule(arg, h)
    BY <1>3, <1>6 DEF Solution
<1>8. Is(h)
    BY <1>7
<1>9. Is(MinTokens)
    BY <1>8 DEF MinTokens, TokensRule
<1>10. \A arg \in Argument : MinTokens[arg] = TokensRule(arg, MinTokens)
    BY <1>9
<1> DEFINE S == {arg \in Argument : MinTokens[arg] \in Nat}
<1>11. \A arg \in Argument : (\A e \in Argument : Rank[e] < Rank[arg] => e \in S) => arg \in S
    BY <1>10, ArgumentType, TokensRuleType
<1> HIDE DEF S
<1>12. \A arg \in Argument : arg \in S
    BY <1>11, RankType, ByRank
<1> QED
    BY <1>9, <1>10, <1>12 DEF S

VariableRule(arg, f) ==
    \/ arg.optional \/ arg.multiple
    \/ arg.type \in {"oneof", "block"}
    \/ \E i \in DOMAIN arg.args : f[arg.args[i]]

LEMMA IsVariableUnfolds ==
    \A arg \in Argument : IsVariable[arg] <=> VariableRule(arg, IsVariable)
<1> DEFINE F == [Argument -> BOOLEAN]
           G == [p \in Argument \X F |-> VariableRule(p[1], p[2])]
           Is(f) == f = [arg \in Argument |-> VariableRule(arg, f)]
<1>1. \A arg \in Argument, f \in F : VariableRule(arg, f) \in BOOLEAN
    BY DEF VariableRule
<1>2. G \in [Argument \X F -> BOOLEAN]
    BY <1>1
<1>3. \A arg \in Argument, f \in F : G[<<arg, f>>] = VariableRule(arg, f)
    OBVIOUS
<1>4. Grounded(G, Argument, Rank, BOOLEAN)
  <2> HIDE DEF G
  <2> SUFFICES ASSUME NEW arg \in Argument, NEW f \in F, NEW g \in F,
                      \A e \in Argument : Rank[e] < Rank[arg] => f[e] = g[e]
               PROVE  G[<<arg, f>>] = G[<<arg, g>>]
      BY DEF Grounded
  <2>1. \A i \in DOMAIN arg.args : f[arg.args[i]] = g[arg.args[i]]
      BY ArgumentType
  <2>2. VariableRule(arg, f) = VariableRule(arg, g)
      BY <2>1 DEF VariableRule
  <2> QED
      BY <1>3, <2>2
<1>5. BOOLEAN # {}
    OBVIOUS
<1> HIDE DEF G
<1>6. PICK h : Solution(h, G, Argument, BOOLEAN)
    BY <1>2, <1>4, <1>5, RankType, Recursion DEF Rule
<1>7. h \in F /\ \A arg \in Argument : h[arg] = VariableRule(arg, h)
    BY <1>3, <1>6 DEF Solution
<1>8. Is(h)
    BY <1>7
<1>9. Is(IsVariable)
    BY <1>8 DEF IsVariable, VariableRule
<1> QED
    BY <1>9

Once(arg, f) ==
    Sums({Prefix(arg)},
         CASE arg.type = "oneof" -> UNION ToSet(Each(f, arg.args))
           [] arg.type = "block" -> FoldSeq(Sums, {0}, Each(f, arg.args))
           [] OTHER -> {1})
LengthsRule(arg, f) ==
    (Once(arg, f) \cup (IF arg.multiple THEN Sums(Once(arg, f), Once(arg, f)) ELSE {}))
        \cup (IF arg.optional THEN {0} ELSE {})

LEMMA OnceType ==
    ASSUME NEW arg \in Argument, NEW f, \A i \in DOMAIN arg.args : f[arg.args[i]] \in SUBSET Nat
    PROVE  Once(arg, f) \in SUBSET Nat
<1> DEFINE n == Len(arg.args)
           s == Each(f, arg.args)
<1>1. n \in Nat /\ s \in [1 .. n -> SUBSET Nat]
    BY EachType, ArgumentType
<1> HIDE DEF n, s
<1>2. UNION ToSet(s) \in SUBSET Nat
    BY <1>1 DEF ToSet
<1>3. FoldSeq(Sums, {0}, s) \in SUBSET Nat
  <2>1. {0} \in SUBSET Nat
      OBVIOUS
  <2>2. PICK h : FoldSeq(Sums, {0}, s) = h[1 .. n] /\ AddsSets(h, n, {0}, s)
      BY <1>1, <2>1, SumsTrace
  <2> QED
      BY <1>1, <2>2 DEF AddsSets
<1>4. {Prefix(arg)} \in SUBSET Nat /\ {1} \in SUBSET Nat
    BY PrefixType
<1>5. CASE arg.type = "oneof"
    BY <1>2, <1>4, <1>5, SumsType DEF Once, s
<1>6. CASE arg.type = "block"
    BY <1>3, <1>4, <1>6, SumsType DEF Once, s
<1>7. CASE arg.type \notin {"oneof", "block"}
    BY <1>4, <1>7, SumsType DEF Once
<1> QED
    BY <1>5, <1>6, <1>7

LEMMA LengthsRuleType ==
    ASSUME NEW arg \in Argument, NEW f, \A i \in DOMAIN arg.args : f[arg.args[i]] \in SUBSET Nat
    PROVE  LengthsRule(arg, f) \in SUBSET Nat
<1>1. Once(arg, f) \in SUBSET Nat
    BY OnceType
<1>2. Sums(Once(arg, f), Once(arg, f)) \in SUBSET Nat
    BY <1>1, SumsType
<1> QED
    BY <1>1, <1>2 DEF LengthsRule

LEMMA LengthsUnfolds ==
    Lengths \in [Argument -> SUBSET Nat] /\ \A arg \in Argument : Lengths[arg] = LengthsRule(arg, Lengths)
<1> DEFINE F == [Argument -> SUBSET Nat]
           G == [p \in Argument \X F |-> LengthsRule(p[1], p[2])]
           Is(f) == f = [arg \in Argument |-> LengthsRule(arg, f)]
<1>1. \A arg \in Argument, f \in F : LengthsRule(arg, f) \in SUBSET Nat
    BY LengthsRuleType, ArgumentType
<1>2. G \in [Argument \X F -> SUBSET Nat]
    BY <1>1
<1>3. \A arg \in Argument, f \in F : G[<<arg, f>>] = LengthsRule(arg, f)
    OBVIOUS
<1>4. Grounded(G, Argument, Rank, SUBSET Nat)
  <2> HIDE DEF G
  <2> SUFFICES ASSUME NEW arg \in Argument, NEW f \in F, NEW g \in F,
                      \A e \in Argument : Rank[e] < Rank[arg] => f[e] = g[e]
               PROVE  G[<<arg, f>>] = G[<<arg, g>>]
      BY DEF Grounded
  <2>1. Each(f, arg.args) = Each(g, arg.args)
      BY AgreeBelow, EachAgrees
  <2>2. LengthsRule(arg, f) = LengthsRule(arg, g)
      BY <2>1 DEF LengthsRule, Once
  <2> QED
      BY <1>3, <2>2
<1>5. SUBSET Nat # {}
    OBVIOUS
<1> HIDE DEF G
<1>6. PICK h : Solution(h, G, Argument, SUBSET Nat)
    BY <1>2, <1>4, <1>5, RankType, Recursion DEF Rule
<1>7. h \in F /\ \A arg \in Argument : h[arg] = LengthsRule(arg, h)
    BY <1>3, <1>6 DEF Solution
<1>8. Is(h)
    BY <1>7
<1>9. Is(Lengths)
    BY <1>8 DEF Lengths, LengthsRule, Once
<1>10. \A arg \in Argument : Lengths[arg] = LengthsRule(arg, Lengths)
    BY <1>9
<1> DEFINE S == {arg \in Argument : Lengths[arg] \in SUBSET Nat}
<1>11. \A arg \in Argument : (\A e \in Argument : Rank[e] < Rank[arg] => e \in S) => arg \in S
    BY SMTT(30), <1>10, ArgumentType, LengthsRuleType
<1> HIDE DEF S
<1>12. \A arg \in Argument : arg \in S
    BY <1>11, RankType, ByRank
<1> QED
    BY <1>9, <1>10, <1>12 DEF S

-----------------------------------------------------------------------------
(* Words.  The count of the generator is never more than an argument takes *)
(* in a call, however deep it is nested; and what is not variable takes    *)
(* one number of words.                                                    *)
LEMMA FewestWords ==
    \A arg \in Argument : \A words \in Lengths[arg] : MinTokens[arg] <= words
<1> DEFINE S == {arg \in Argument : \A words \in Lengths[arg] : MinTokens[arg] <= words}
<1>1. ASSUME NEW arg \in Argument, \A e \in Argument : Rank[e] < Rank[arg] => e \in S
      PROVE  \A words \in Lengths[arg] : MinTokens[arg] <= words
  <2> DEFINE n == Len(arg.args)
             least == Each(MinTokens, arg.args)
             s == Each(Lengths, arg.args)
             p == Prefix(arg)
  <2>1. n \in Nat /\ DOMAIN arg.args = 1 .. n /\ \A i \in 1 .. n : arg.args[i] \in S
      BY <1>1, ArgumentType
  <2>2. least \in [1 .. n -> Nat] /\ s \in [1 .. n -> SUBSET Nat]
      BY EachType, ArgumentType, MinTokensUnfolds, LengthsUnfolds
  <2>3. \A i \in 1 .. n : \A v \in s[i] : least[i] <= v
      BY <2>1 DEF Each
  <2>4. p \in Nat /\ MinTokens[arg] \in Nat /\ Lengths[arg] \in SUBSET Nat
      BY PrefixType, MinTokensUnfolds, LengthsUnfolds
  <2>5. MinTokens[arg] = TokensRule(arg, MinTokens) /\ Lengths[arg] = LengthsRule(arg, Lengths)
      BY MinTokensUnfolds, LengthsUnfolds
  <2> HIDE DEF n, least, s, p, S
  <2>6. CASE arg.optional \/ arg.multiple
    <3>1. MinTokens[arg] = 0
        BY <2>5, <2>6 DEF TokensRule
    <3> QED
        BY <2>4, <3>1
  <2>7. CASE ~(arg.optional \/ arg.multiple)
    <3>1. Lengths[arg] = Once(arg, Lengths)
        BY <2>5, <2>7 DEF LengthsRule
    <3>2. CASE arg.type = "oneof"
      <4>1. CASE arg.args = <<>>
        <5>1. MinTokens[arg] = 0
            BY <2>5, <2>7, <3>2, <4>1 DEF TokensRule
        <5> QED
            BY <2>4, <5>1
      <4>2. CASE arg.args # <<>>
        <5>1. MinTokens[arg] = p + Min(ToSet(least))
            BY <2>5, <2>7, <3>2, <4>2 DEF TokensRule, p, least
        <5>2. n # 0
            BY <4>2, ArgumentType, EmptySeq DEF n
        <5>3. Min(ToSet(least)) \in Nat /\ \A i \in 1 .. n : Min(ToSet(least)) <= least[i]
            BY <2>1, <2>2, <5>2, LeastOf
        <5>4. Lengths[arg] = Sums({p}, UNION ToSet(s))
            BY <3>1, <3>2 DEF Once, p, s
        <5> TAKE words \in Lengths[arg]
        <5>5. PICK v \in UNION ToSet(s) : words = p + v
            BY <5>4 DEF Sums
        <5>6. PICK i \in 1 .. n : v \in s[i]
            BY <2>2, <5>5 DEF ToSet
        <5>7. v \in Nat /\ least[i] \in Nat /\ least[i] <= v /\ Min(ToSet(least)) <= least[i]
            BY <2>2, <2>3, <5>3, <5>6
        <5>8. p + Min(ToSet(least)) <= p + v
            BY <2>4, <5>3, <5>7
        <5> QED
            BY <5>1, <5>5, <5>8
      <4> QED
          BY <4>1, <4>2
    <3>3. CASE arg.type = "block"
      <4>1. MinTokens[arg] = p + SumOf(least)
          BY <2>5, <2>7, <3>3 DEF TokensRule, p, least
      <4> DEFINE W == FoldSeq(Sums, {0}, s)
      <4>2. Lengths[arg] = Sums({p}, W)
          BY <3>1, <3>3 DEF Once, p, s
      <4>3. {0} \in SUBSET Nat /\ (\A b \in {0} : 0 <= b) /\ 0 \in Nat
          OBVIOUS
      <4>4. /\ SumOf(least) \in Nat
            /\ \A v \in W : v \in Nat /\ 0 + SumOf(least) <= v
          BY <2>1, <2>2, <2>3, <4>3, LeastSum
      <4> HIDE DEF W
      <4> TAKE words \in Lengths[arg]
      <4>5. PICK v \in W : words = p + v
          BY <4>2 DEF Sums
      <4>6. v \in Nat /\ SumOf(least) <= v
          BY <4>4, <4>5
      <4> QED
          BY <2>4, <4>1, <4>4, <4>5, <4>6
    <3>4. CASE arg.type \notin {"oneof", "block"}
      <4>1. MinTokens[arg] = 1 /\ Lengths[arg] = Sums({p}, {1})
          BY <2>5, <2>7, <3>1, <3>4 DEF TokensRule, Once, p
      <4> QED
          BY <2>4, <4>1 DEF Sums
    <3> QED
        BY <3>2, <3>3, <3>4
  <2> QED
      BY <2>6, <2>7
<1>2. \A arg \in Argument : (\A e \in Argument : Rank[e] < Rank[arg] => e \in S) => arg \in S
    BY <1>1
<1> HIDE DEF S
<1>3. \A arg \in Argument : arg \in S
    BY <1>2, RankType, ByRank
<1> QED
    BY <1>3 DEF S

LEMMA OneNumberOfWords ==
    \A arg \in Argument : ~IsVariable[arg] => \A v, w \in Lengths[arg] : v = w
<1> TAKE arg \in Argument
<1> HAVE ~IsVariable[arg]
<1>1. ~arg.optional /\ ~arg.multiple /\ arg.type \notin {"oneof", "block"}
    BY IsVariableUnfolds DEF VariableRule
<1>2. Lengths[arg] = LengthsRule(arg, Lengths)
    BY LengthsUnfolds
<1>3. Lengths[arg] = Sums({Prefix(arg)}, {1})
    BY <1>1, <1>2 DEF LengthsRule, Once
<1> QED
    BY <1>3 DEF Sums

(* The arity made of a list of arguments (infer_arity, lines 848-868): its *)
(* size is never more than the words of a call, and a command with a       *)
(* positive arity has calls of one length only.                            *)
LEMMA InferredArity ==
    ASSUME NEW page, page.arity = Missing, page.arguments # Missing,
           page.arguments \in Seq(Argument), Len(page.title) \in Nat \ {0}
    PROVE  /\ \A words \in CallLengths(page) :
                 InferArity(page) <= words /\ -InferArity(page) <= words
           /\ InferArity(page) > 0 => \A words, more \in CallLengths(page) : words = more
<1> DEFINE args == page.arguments
           n == Len(args)
           z == Len(page.title)
           least == Each(MinTokens, args)
           s == Each(Lengths, args)
           variable == \E i \in DOMAIN args : IsVariable[args[i]]
<1>1. n \in Nat /\ DOMAIN args = 1 .. n /\ \A i \in 1 .. n : args[i] \in Argument
    BY ElementOfSeq, LenProperties
<1>2. least \in [1 .. n -> Nat] /\ s \in [1 .. n -> SUBSET Nat]
    BY <1>1, MinTokensUnfolds, LengthsUnfolds DEF Each
<1>3. \A i \in 1 .. n : \A v \in s[i] : least[i] <= v
    BY <1>1, FewestWords DEF Each
<1>4. z \in Nat /\ {z} \in SUBSET Nat /\ 1 <= z /\ 1 \in Nat /\ \A b \in {z} : 1 <= b
    OBVIOUS
<1>5. CallLengths(page) = FoldSeq(Sums, {z}, s)
    BY DEF CallLengths
<1>6. InferArity(page) = IF variable THEN -(1 + SumOf(least)) ELSE 1 + SumOf(least)
    BY DEF InferArity
<1>7. ~variable => \A i \in 1 .. n : \A v, w \in s[i] : v = w
    BY <1>1, OneNumberOfWords DEF Each
<1> HIDE DEF n, z, least, s, variable
<1>8. /\ SumOf(least) \in Nat
      /\ \A v \in FoldSeq(Sums, {z}, s) : v \in Nat /\ 1 + SumOf(least) <= v
    BY <1>1, <1>2, <1>3, <1>4, LeastSum
<1>9. ~variable => \A v, w \in FoldSeq(Sums, {z}, s) : v = w
    BY <1>1, <1>2, <1>4, <1>7, SingleSum
<1> DEFINE m == SumOf(least)
<1> HIDE DEF m
<1>10. m \in Nat /\ \A v \in CallLengths(page) : v \in Nat /\ 1 + m <= v
    BY <1>5, <1>8 DEF m
<1>11. CASE variable
  <2>1. InferArity(page) = -(1 + m)
      BY <1>6, <1>11 DEF m
  <2> QED
      BY <1>10, <2>1
<1>12. CASE ~variable
  <2>1. InferArity(page) = 1 + m
      BY <1>6, <1>12 DEF m
  <2>2. \A words, more \in CallLengths(page) : words = more
      BY <1>5, <1>9, <1>12
  <2> QED
      BY <1>10, <2>1, <2>2
<1> QED
    BY <1>11, <1>12

-----------------------------------------------------------------------------
(* Pages.                                                                  *)
LEMMA PagesOfItems ==
    \A item \in Items : item.page # NoMetadata =>
        /\ Parse(item.page) = ParseEntry(item.page)
        /\ Classified(item.page.group) <=> Tiered(item.page.group)
        /\ Len(item.page.title) \in Nat \ {0}
        /\ item.page.arguments = Missing \/ item.page.arguments \in Seq(Argument)
<1> TAKE item \in Items
<1>1. PICK site \in Sites \cup Probes : item \in ToSet(site)
    BY DEF Items
<1>2. PICK i \in DOMAIN site : item = site[i]
    BY <1>1 DEF ToSet
<1> QED
    BY <1>2, PagesAssumption

(* Whatever the metadata says in lists of its own: specifications made for *)
(* a command that writes do not say that a key is only read.               *)
LEMMA WritesAreMarked ==
    ASSUME NEW page, page.key_specs = Missing, NEW flags, "write" \in flags,
           NEW k \in DOMAIN InferKeySpecs(page, flags)
    PROVE  "RO" \notin InferKeySpecs(page, flags)[k].flags
<1>1. \/ InferKeySpecs(page, flags) = <<>>
      \/ \E l : InferKeySpecs(page, flags)
                   = <<KeySpec("index", 1, "range", l, 1, {"access", "RW", "update"})>>
    BY DEF InferKeySpecs
<1>2. \A l : KeySpec("index", 1, "range", l, 1, {"access", "RW", "update"}).flags
                = {"access", "RW", "update"}
    BY DEF KeySpec
<1> QED
    BY <1>1, <1>2

(* What scripts/generate_command_catalog.py makes of pages without an      *)
(* arity of their own (lines 813-868), for all arguments however nested:   *)
(* no call is refused for its number of words that the arguments allow.    *)
THEOREM InferredMetadataIsSafe == Spec => []InferredMetaIsSafe
<1>1. TypesInv /\ OrderInv => InferredMetaIsSafe
  <2> SUFFICES ASSUME TypesInv, OrderInv, pc = "base", NEW i \in DOMAIN links
               PROVE  LET page  == links[i].page
                          arity == InferArity(page)
                          specs == InferKeySpecs(page, InferFlags(page))
                      IN  /\ page.arity = Missing /\ page.arguments # Missing =>
                               /\ \A words \in CallLengths(page) :
                                      arity <= words /\ -arity <= words
                               /\ arity > 0 =>
                                      \A words, more \in CallLengths(page) : words = more
                          /\ page.key_specs = Missing /\ "write" \in InferFlags(page) =>
                               \A k \in DOMAIN specs : "RO" \notin specs[k].flags
      BY DEF InferredMetaIsSafe
  <2> DEFINE page == links[i].page
  <2>1. links[i] \in Items
      BY ElementOfSeq, LenProperties DEF TypesInv
  <2>2. page # NoMetadata
    <3>1. PICK f : Origin(f)
        BY DEF OrderInv, Writing
    <3>2. waiting = {}
        BY DEF OrderInv, Writing, InOrder
    <3> QED
        BY <3>1, <3>2 DEF Origin
  <2>3. /\ Len(page.title) \in Nat \ {0}
        /\ page.arguments = Missing \/ page.arguments \in Seq(Argument)
      BY <2>1, <2>2, PagesOfItems
  <2> HIDE DEF page
  <2>4. page.arity = Missing /\ page.arguments # Missing =>
          /\ \A words \in CallLengths(page) :
                InferArity(page) <= words /\ -InferArity(page) <= words
          /\ InferArity(page) > 0 => \A words, more \in CallLengths(page) : words = more
      BY <2>3, InferredArity
  <2>5. page.key_specs = Missing /\ "write" \in InferFlags(page) =>
          \A k \in DOMAIN InferKeySpecs(page, InferFlags(page)) :
              "RO" \notin InferKeySpecs(page, InferFlags(page))[k].flags
      BY WritesAreMarked
  <2> QED
      BY <2>4, <2>5 DEF page
<1> QED
    BY <1>1, TypesInit, TypesStep, OrderInit, OrderStep, PTL DEF Spec

-----------------------------------------------------------------------------
(* The gate.  The rows of the matrix are those of classified entries; when *)
(* a run has ended well, of the entries of that run.                       *)
Row(page) == MatrixRow(ParseEntry(page))

RowsOfPages ==
    \A i \in DOMAIN matrix.rows :
        \E item \in Items : /\ item.page # NoMetadata /\ Tiered(item.page.group)
                            /\ matrix.rows[i] = Row(item.page)

GateInv ==
    /\ matrix # Absent => RowsOfPages
    /\ outcome = "ok" => /\ pc = "idle" /\ waiting = {} /\ \E f : Origin(f)
                         /\ RowsOfPages
                         /\ matrix.rows = [i \in DOMAIN entries |-> MatrixRow(entries[i])]

LEMMA GateInit == Init => GateInv
BY DEF Init, GateInv

(* The row of a page of a known group has a status, and a target if and    *)
(* only if that is deferred or standalone-error.                           *)
LEMMA RowsAreJudged ==
    ASSUME NEW page
    PROVE  /\ Row(page).name = page.title /\ Row(page).group = page.group
           /\ Row(page).status = ClassifyStatus(page.title, page.group)
           /\ Row(page).status \in Status
           /\ Row(page).status \in {"deferred", "standalone-error"} <=> Row(page).target # "-"
<1> DEFINE status == ClassifyStatus(page.title, page.group)
           target == TargetVersion(page.title, page.group, status)
<1>1. /\ Row(page).name = page.title /\ Row(page).group = page.group
      /\ Row(page).status = status /\ Row(page).target = IF target = "" THEN "-" ELSE target
    BY DEF Row, MatrixRow, ParseEntry
<1>2. status \in Status
    BY DEF ClassifyStatus, Status, Untargeted
<1> HIDE DEF status
<1>3. IF status \in Untargeted THEN target = "" ELSE target \in {"v1.1.0", "v0.9.2", "v0.9.3", "v0.9.1"}
  <2>1. CASE status \in Untargeted
      BY <2>1 DEF TargetVersion, Untargeted
  <2>2. CASE status = "standalone-error"
      BY <2>2 DEF TargetVersion, Untargeted
  <2>3. CASE status = "deferred"
    <3>1. status \notin Untargeted
        BY <2>3 DEF Untargeted
    <3>2. CASE page.group \in ADVANCED_GROUPS
        BY <2>3, <3>1, <3>2 DEF TargetVersion
    <3>3. CASE page.group \notin ADVANCED_GROUPS
        BY <2>3, <3>1, <3>3 DEF TargetVersion
    <3> QED
        BY <3>2, <3>3
  <2> QED
      BY <1>2, <2>1, <2>2, <2>3 DEF Status
<1> HIDE DEF target
<1>4. status \in {"deferred", "standalone-error"} <=> status \notin Untargeted
    BY <1>2 DEF Status, Untargeted
<1> QED
    BY <1>1, <1>2, <1>3, <1>4 DEF status

(* Only WriteDocs writes the matrix, and only the end of a run without a   *)
(* failure leaves `ok'.                                                    *)
LEMMA GateStep == TypesInv /\ OrderInv /\ GateInv /\ [Next]_vars => GateInv'
<1> SUFFICES ASSUME TypesInv, OrderInv, GateInv, [Next]_vars
             PROVE  GateInv'
    OBVIOUS
<1>1. ASSUME UNCHANGED matrix, outcome' # "ok"
      PROVE  GateInv'
    BY <1>1 DEF GateInv, RowsOfPages
<1>2. ASSUME outcome = "ok", ~UNCHANGED vars
      PROVE  UNCHANGED matrix /\ outcome' # "ok"
  <2>1. pc = "idle"
      BY <1>2 DEF GateInv
  <2>2. ~FetchStep /\ ~WriteStep /\ ~Interrupt
      BY <2>1 DEF FetchStep, WriteStep, Interrupt, TakeTask, FetchFails, FetchRaises, FetchSucceeds,
             Collect, CollectFailure, Drained, SortEntries, Working, WriteBase, WriteWrapper,
             UnlinkPart, Unlinked, WritePart, PartsWritten, WriteDocs
  <2>3. ASSUME NEW site, NEW cost, Start(site, cost)
        PROVE  UNCHANGED matrix /\ outcome' # "ok"
      BY <2>3 DEF Start, files
  <2>4. CASE IndexUnavailable
      BY <2>4 DEF IndexUnavailable, End, files
  <2> QED
      BY <1>2, <2>2, <2>3, <2>4 DEF Next
<1>3. CASE UNCHANGED vars
  <2>1. UNCHANGED <<pc, links, waiting, entries, matrix, outcome>>
      BY <1>3 DEF vars, pool, files
  <2> QED
      BY <2>1 DEF GateInv, RowsOfPages, Origin
<1>4. CASE WriteDocs
  <2>1. CASE \A i \in DOMAIN entries : Classified(entries[i].group)
    <3>1. /\ matrix' = RenderMatrix /\ pc' = "idle" /\ outcome' = "ok" /\ pc = "docs"
          /\ UNCHANGED <<links, waiting, entries>>
        BY <1>4, <2>1 DEF WriteDocs, End, pool
    <3>2. matrix'.rows = [i \in DOMAIN entries |-> MatrixRow(entries[i])]
        BY <3>1 DEF RenderMatrix
    <3>3. waiting = {} /\ \E f : Origin(f)
        BY <3>1 DEF OrderInv, Writing, InOrder
    <3>4. ASSUME NEW i \in DOMAIN entries
          PROVE  \E item \in Items : /\ item.page # NoMetadata /\ Tiered(item.page.group)
                                     /\ MatrixRow(entries[i]) = Row(item.page)
      <4>1. entries[i] \in Made
          BY ElementOfSeq, LenProperties DEF TypesInv
      <4>2. PICK item \in Items : item.page # NoMetadata /\ entries[i] = Parse(item.page)
          BY <4>1 DEF Made
      <4>3. entries[i] = ParseEntry(item.page)
          BY <4>2, PagesOfItems
      <4>4. entries[i].group = item.page.group
          BY <4>3 DEF ParseEntry
      <4>5. Tiered(item.page.group)
          BY <2>1, <4>2, <4>4, PagesOfItems
      <4> QED
          BY <4>2, <4>3, <4>5 DEF Row
    <3>5. RowsOfPages'
        BY <3>2, <3>4 DEF RowsOfPages
    <3>6. (\E f : Origin(f))'
        BY <3>1, <3>3 DEF Origin
    <3> QED
        BY <3>1, <3>2, <3>3, <3>5, <3>6 DEF GateInv
  <2>2. CASE ~\A i \in DOMAIN entries : Classified(entries[i].group)
      BY <1>1, <1>4, <2>2 DEF WriteDocs, End
  <2> QED
      BY <2>1, <2>2
<1>5. ASSUME outcome # "ok", ~WriteDocs, ~UNCHANGED vars
      PROVE  UNCHANGED matrix /\ outcome' # "ok"
  <2>1. ASSUME NEW site, NEW cost, Start(site, cost)
        PROVE  UNCHANGED matrix /\ outcome' # "ok"
      BY <2>1 DEF Start, files
  <2>2. CASE FetchStep
      BY <1>5, <2>2 DEF FetchStep, TakeTask, FetchFails, FetchRaises, FetchSucceeds, Collect,
             CollectFailure, Drained, SortEntries, End, files
  <2>3. CASE WriteStep
      BY <1>5, <2>3 DEF WriteStep, WriteBase, WriteWrapper, UnlinkPart, Unlinked, WritePart,
             PartsWritten, files
  <2>4. CASE IndexUnavailable
      BY <2>4 DEF IndexUnavailable, End, files
  <2>5. CASE Interrupt
      BY <2>5 DEF Interrupt, End, files
  <2> QED
      BY <1>5, <2>1, <2>2, <2>3, <2>4, <2>5 DEF Next
<1> QED
    BY <1>1, <1>2, <1>3, <1>4, <1>5

(* The gate finds nothing else in rows that are judged as these are.       *)
Twice(rows) == {i \in DOMAIN rows : \E j \in 1 .. i - 1 : rows[j].name = rows[i].name}
Postponed(rows) ==
    {i \in DOMAIN rows : rows[i].status = "deferred" /\ rows[i].group \notin TIER_C_GROUPS}

LEMMA ErrorsAre ==
    ASSUME NEW rows,
           \A i \in DOMAIN rows :
              /\ Tiered(rows[i].group) /\ rows[i].status \in Status
              /\ rows[i].status \in {"deferred", "standalone-error"} <=> rows[i].target # "-"
    PROVE  ScopeErrors(rows) = (IF DOMAIN rows = {} THEN {<<"no entries", "-">>} ELSE {})
                                \cup {<<"duplicate", rows[i].name>> : i \in Twice(rows)}
                                \cup {<<"deferred", rows[i].name>> : i \in Postponed(rows)}
<1> DEFINE tiered == {i \in DOMAIN rows : Tiered(rows[i].group)}
           judged == {i \in tiered : rows[i].status \in Status}
           open   == {i \in judged : rows[i].status \in {"deferred", "standalone-error"}}
<1>1. tiered = DOMAIN rows /\ judged = DOMAIN rows
    OBVIOUS
<1>2. /\ DOMAIN rows \ tiered = {} /\ tiered \ judged = {}
      /\ {i \in open : rows[i].target = "-"} = {}
      /\ {i \in judged \ open : rows[i].target # "-"} = {}
    BY <1>1
<1>3. Postponed(rows) = {i \in open : /\ rows[i].status = "deferred"
                                     /\ rows[i].group \notin TIER_C_GROUPS}
    BY <1>1 DEF Postponed
<1>4. ScopeErrors(rows) =
          (IF DOMAIN rows = {} THEN {<<"no entries", "-">>} ELSE {})
          \cup {<<"duplicate", rows[i].name>> : i \in Twice(rows)}
          \cup {<<"unclassified", rows[i].name>> : i \in DOMAIN rows \ tiered}
          \cup {<<"status", rows[i].name>> : i \in tiered \ judged}
          \cup {<<"no target", rows[i].name>> : i \in {i \in open : rows[i].target = "-"}}
          \cup {<<"keeps target", rows[i].name>> :
                    i \in {i \in judged \ open : rows[i].target # "-"}}
          \cup {<<"deferred", rows[i].name>> :
                    i \in {i \in open : /\ rows[i].status = "deferred"
                                       /\ rows[i].group \notin TIER_C_GROUPS}}
    BY DEF ScopeErrors, Twice
<1> HIDE DEF tiered, judged, open
<1> QED
    BY <1>2, <1>3, <1>4

LEMMA RowsAreClean ==
    ASSUME RowsOfPages
    PROVE  ScopeErrors(matrix.rows) =
              (IF DOMAIN matrix.rows = {} THEN {<<"no entries", "-">>} ELSE {})
              \cup {<<"duplicate", matrix.rows[i].name>> : i \in Twice(matrix.rows)}
              \cup {<<"deferred", matrix.rows[i].name>> : i \in Postponed(matrix.rows)}
<1>1. ASSUME NEW i \in DOMAIN matrix.rows
      PROVE  /\ Tiered(matrix.rows[i].group) /\ matrix.rows[i].status \in Status
             /\ matrix.rows[i].status \in {"deferred", "standalone-error"}
                   <=> matrix.rows[i].target # "-"
  <2>1. PICK item \in Items : Tiered(item.page.group) /\ matrix.rows[i] = Row(item.page)
      BY DEF RowsOfPages
  <2> QED
      BY <2>1, RowsAreJudged
<1> QED
    BY <1>1, ErrorsAre

(* A command of a known group is postponed and not of a module (tier C)    *)
(* exactly if it is of tier A and in none of the lists.                    *)
LEMMA PostponedIs ==
    ASSUME NEW page, Tiered(page.group)
    PROVE  ClassifyStatus(page.title, page.group) = "deferred" /\ page.group \notin TIER_C_GROUPS
              <=> page.group \in TIER_A_GROUPS /\ page.title \notin HandKept
<1>1. /\ \A g \in TIER_A_GROUPS : g \notin TIER_C_GROUPS /\ g \notin {"cluster", "sentinel"}
      /\ TIER_B_GROUPS = {"cluster", "sentinel"}
    BY DEF TIER_A_GROUPS, TIER_B_GROUPS, TIER_C_GROUPS
<1>2. ClassifyStatus(page.title, page.group) = "deferred"
        <=> page.title \notin HandKept /\ page.group \notin {"cluster", "sentinel"}
    BY DEF ClassifyStatus, HandKept
<1>3. page.group \in TIER_A_GROUPS \cup TIER_B_GROUPS \cup TIER_C_GROUPS
    BY DEF Tiered
<1> QED
    BY <1>1, <1>2, <1>3

(* scripts/verify_command_scope.py over the output of the generator: the   *)
(* two agree on statuses and targets, whatever the lists hold, and after a *)
(* good run the gate asks exactly that there are pages, that they differ   *)
(* in their names and that every command of tier A is in a list.           *)
THEOREM GateAgreesWithGenerator == Spec => []ScopeGateAgrees
<1>1. RowsOfPages =>
          \A e \in ScopeErrors(matrix.rows) : e[1] \in {"no entries", "duplicate", "deferred"}
  <2> SUFFICES ASSUME RowsOfPages, NEW e \in ScopeErrors(matrix.rows)
               PROVE  e[1] \in {"no entries", "duplicate", "deferred"}
      OBVIOUS
  <2>1. \/ e = <<"no entries", "-">>
        \/ \E i \in Twice(matrix.rows) : e = <<"duplicate", matrix.rows[i].name>>
        \/ \E i \in Postponed(matrix.rows) : e = <<"deferred", matrix.rows[i].name>>
      BY RowsAreClean
  <2>2. \A what, x : e = <<what, x>> => e[1] = what
      OBVIOUS
  <2> QED
      BY Zenon, <2>1, <2>2
<1>2. ASSUME TypesInv, GateInv, outcome = "ok"
      PROVE  ScopeErrors(matrix.rows) = {} <=> HasCommands /\ PagesDiffer /\ TierAIsListed
  <2> DEFINE rows == matrix.rows
  <2>1. PICK f : Origin(f)
      BY <1>2 DEF GateInv
  <2>2. /\ RowsOfPages /\ rows = [i \in DOMAIN entries |-> MatrixRow(entries[i])]
        /\ waiting = {}
      BY <1>2 DEF GateInv
  <2>3. DOMAIN rows = DOMAIN entries /\ DOMAIN entries = 1 .. Len(entries) /\ Len(entries) \in Nat
      BY <1>2, <2>2, LenProperties DEF TypesInv
  <2>4. ASSUME NEW j \in DOMAIN rows
        PROVE  /\ f[j] \in DOMAIN links /\ Tiered(links[f[j]].page.group)
               /\ rows[j] = Row(links[f[j]].page)
    <3>1. /\ f[j] \in DOMAIN links /\ links[f[j]].page # NoMetadata
          /\ entries[j] = Parse(links[f[j]].page)
        BY <2>1, <2>3 DEF Origin
    <3>2. links[f[j]] \in Items
        BY <1>2, <3>1, ElementOfSeq, LenProperties DEF TypesInv
    <3>3. rows[j] = Row(links[f[j]].page)
        BY <2>2, <2>3, <3>1, <3>2, PagesOfItems DEF Row
    <3>4. PICK item \in Items : Tiered(item.page.group) /\ rows[j] = Row(item.page)
        BY <2>2 DEF RowsOfPages
    <3>5. /\ Row(links[f[j]].page).group = links[f[j]].page.group
          /\ Row(item.page).group = item.page.group
        BY RowsAreJudged
    <3> QED
        BY <3>1, <3>3, <3>4, <3>5
  <2>5. /\ \A j, k \in DOMAIN rows : f[j] = f[k] => j = k
        /\ \A i \in DOMAIN links : \E j \in DOMAIN rows : f[j] = i
      BY <2>1, <2>2, <2>3 DEF Origin
  <2> HIDE DEF rows
  <2>6. ScopeErrors(rows) = {} <=> DOMAIN rows # {} /\ Twice(rows) = {} /\ Postponed(rows) = {}
      BY <2>2, RowsAreClean DEF rows
  <2>7. Twice(rows) = {} <=> PagesDiffer
    <3>1. \A j \in DOMAIN rows : rows[j].name = links[f[j]].page.title
        BY <2>4, RowsAreJudged
    <3>2. ASSUME PagesDiffer, NEW k \in Twice(rows)
          PROVE  FALSE
      <4>1. PICK j \in 1 .. k - 1 : rows[j].name = rows[k].name
          BY DEF Twice
      <4>2. k \in DOMAIN rows /\ j \in DOMAIN rows /\ j # k
          BY <2>3, <4>1 DEF Twice
      <4>3. f[j] = f[k]
          BY <2>4, <3>1, <3>2, <4>1, <4>2 DEF PagesDiffer
      <4> QED
          BY <2>5, <4>2, <4>3
    <3>3. ASSUME Twice(rows) = {}, NEW j \in DOMAIN rows, NEW k \in DOMAIN rows,
                 rows[j].name = rows[k].name
          PROVE  ~(j < k)
      <4>1. j < k => j \in 1 .. k - 1
          BY <2>3
      <4> QED
          BY <3>3, <4>1 DEF Twice
    <3>4. ASSUME Twice(rows) = {}, NEW i \in DOMAIN links, NEW m \in DOMAIN links,
                 links[i].page.title = links[m].page.title
          PROVE  i = m
      <4>1. PICK j \in DOMAIN rows, k \in DOMAIN rows : f[j] = i /\ f[k] = m
          BY <2>5
      <4>2. rows[j].name = rows[k].name
          BY <3>1, <3>4, <4>1
      <4>3. ~(j < k) /\ ~(k < j)
          BY <3>3, <3>4, <4>2
      <4>4. j = k
          BY <2>3, <4>3
      <4> QED
          BY <4>1, <4>4
    <3> QED
        BY <3>2, <3>4 DEF PagesDiffer
  <2>8. Postponed(rows) = {} <=> TierAIsListed
    <3>1. \A j \in DOMAIN rows :
              j \in Postponed(rows) <=> /\ links[f[j]].page.group \in TIER_A_GROUPS
                                        /\ links[f[j]].page.title \notin HandKept
      <4> TAKE j \in DOMAIN rows
      <4>1. /\ rows[j].status = ClassifyStatus(links[f[j]].page.title, links[f[j]].page.group)
            /\ rows[j].group = links[f[j]].page.group
          BY <2>4, RowsAreJudged
      <4> QED
          BY <2>4, <4>1, PostponedIs DEF Postponed
    <3> QED
        BY <2>4, <2>5, <3>1 DEF TierAIsListed, Postponed
  <2>9. DOMAIN rows # {} <=> HasCommands
      BY <2>4, <2>5 DEF HasCommands
  <2> QED
      BY <2>6, <2>7, <2>8, <2>9 DEF rows
<1>3. TypesInv /\ GateInv => ScopeGateAgrees
    BY <1>1, <1>2 DEF GateInv, ScopeGateAgrees
<1> QED
    BY <1>3, TypesInit, TypesStep, OrderInit, OrderStep, GateInit, GateStep, PTL DEF Spec
=============================================================================
