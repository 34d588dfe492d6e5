--------------------------- MODULE SortedArrayProofs ---------------------------
(***************************************************************************)
(* Theorems about SortedArray, for arrays of any length over any values:   *)
(* the elements stay apart, and the search by halving answers exactly      *)
(* whether its argument belongs to the array.                              *)
(***************************************************************************)
EXTENDS SortedArray, SequenceTheorems, TLAPS

\* The interval that is still searched holds every element around the probe.
Narrowed ==
  answer = "searching" =>
    \A i \in 1..Len(array) :
      Inside(probe, array[i]) => left + 1 <= i /\ i <= right + 1

\* The verdict, in terms of single elements.
Decided ==
  answer \in {"yes", "no"} =>
    (answer = "yes" <=> \E i \in 1..Len(array) : Inside(probe, array[i]))

SortedArrayInv == SarrayTypeOK /\ Separated /\ SearchInBounds /\ Narrowed /\ Decided

--------------------------------------------------------------------------------
\* What each comparison says of the two ranges, as numbers: the cases of
\* asn_cmp(), r4_cmp() and r6_cmp() are told apart completely.
LEMMA Comparison ==
  ASSUME NEW n1 \in Ranges, NEW n2 \in Ranges
  PROVE  /\ sarray_cmp(n1, n2) \in {"EQUAL", "CHILD"} <=> Inside(n2, n1)
         /\ sarray_cmp(n1, n2) \in {"LEFT", "ADJACENT_LEFT"} <=> n2.max < n1.min
         /\ sarray_cmp(n1, n2) \in {"RIGHT", "ADJACENT_RIGHT"} <=> n1.max < n2.min
         /\ sarray_cmp(n1, n2) = "RIGHT" => n1.max + 1 < n2.min
         /\ sarray_cmp(n1, n2) \in {"PARENT", "INTERSECTION"} =>
              /\ ~Inside(n2, n1)
              /\ n1.min <= n2.max
              /\ n2.min <= n1.max
<1>1. /\ n1.min \in Nat /\ n1.max \in Nat /\ n1.min <= n1.max
      /\ n2.min \in Nat /\ n2.max \in Nat /\ n2.min <= n2.max
      /\ n1 = [min |-> n1.min, max |-> n1.max]
      /\ n2 = [min |-> n2.min, max |-> n2.max]
  BY MaxValueAssumption DEF Ranges
<1>2. n1 = n2 <=> n1.min = n2.min /\ n1.max = n2.max
  BY <1>1
<1>. QED  BY <1>1, <1>2 DEF sarray_cmp, Inside

\* The parts of an element are numbers in order.
LEMMA Parts ==
  ASSUME NEW r \in Ranges
  PROVE  r.min \in Nat /\ r.max \in Nat /\ r.min <= r.max
BY MaxValueAssumption DEF Ranges

\* In an array whose elements are apart, the argument of a search belongs to the
\* array exactly when one element is around it.
LEMMA OneElement ==
  ASSUME SarrayTypeOK, Separated
  PROVE  (\A v \in probe.min..probe.max : Owned(v))
           <=> \E i \in 1..Len(array) : Inside(probe, array[i])
<1>1. probe.min \in Nat /\ probe.max \in Nat /\ probe.min <= probe.max
  BY Parts DEF SarrayTypeOK
<1>2. \A i \in 1..Len(array) :
        array[i].min \in Nat /\ array[i].max \in Nat /\ array[i].min <= array[i].max
  BY Parts DEF SarrayTypeOK
<1>3. ASSUME NEW i \in 1..Len(array), Inside(probe, array[i])
      PROVE  \A v \in probe.min..probe.max : Owned(v)
  BY <1>1, <1>2, <1>3 DEF Inside, Owned
<1>4. ASSUME \A v \in probe.min..probe.max : Owned(v)
      PROVE  \E i \in 1..Len(array) : Inside(probe, array[i])
  <2>1. PICK i \in 1..Len(array) : array[i].min <= probe.min /\ probe.min <= array[i].max
    BY <1>1, <1>4 DEF Owned
  <2>2. CASE probe.max <= array[i].max
    BY <2>1, <2>2 DEF Inside
  <2>3. CASE array[i].max < probe.max
    <3>1. array[i].max + 1 \in probe.min..probe.max
      BY <1>1, <1>2, <2>1, <2>3
    <3>2. PICK j \in 1..Len(array) :
            array[j].min <= array[i].max + 1 /\ array[i].max + 1 <= array[j].max
      BY <3>1, <1>4 DEF Owned
    <3>3. i # j
      BY <1>2, <3>2
    <3>4. Len(array) \in Nat /\ i \in Nat /\ j \in Nat
      BY DEF SarrayTypeOK
    <3>5. CASE i < j
      BY <3>5, <3>2, <1>2 DEF Separated
    <3>6. CASE j < i
      BY <3>6, <3>2, <1>2, SMTT(30) DEF Separated
    <3>. QED  BY <3>3, <3>4, <3>5, <3>6
  <2>. QED  BY <1>1, <1>2, <2>2, <2>3
<1>. QED  BY <1>3, <1>4

--------------------------------------------------------------------------------
\* sarray_add() keeps the invariant.
LEMMA AddPreserves ==
  ASSUME SortedArrayInv, NEW n \in Ranges, sarray_add(n)
  PROVE  SortedArrayInv'
<1>. USE DEF SortedArrayInv, sarray_add
<1>1. /\ array' \in Seq(Ranges) /\ Len(array) \in Nat
      /\ Len(array') = Len(array) + 1
      /\ array'[Len(array) + 1] = n
      /\ \A i \in 1..Len(array) : array'[i] = array[i]
  BY DEF SarrayTypeOK
<1>2. SarrayTypeOK'
  BY <1>1 DEF SarrayTypeOK
<1>3. Separated'
  <2>1. SUFFICES ASSUME NEW i \in 1..Len(array'), NEW j \in 1..Len(array'), i < j
                 PROVE  array'[i].max + 1 < array'[j].min
    BY SMTT(30) DEF Separated
  <2>2. i \in 1..Len(array)
    BY <1>1, <2>1
  <2>3. CASE j \in 1..Len(array)
    BY <2>1, <2>2, <2>3, <1>1 DEF Separated
  <2>4. CASE j = Len(array) + 1
    <3>. DEFINE last == array[Len(array)]
    <3>1. Len(array) \in 1..Len(array) /\ array # <<>>
      BY <1>1, <2>2
    <3>2. last \in Ranges /\ array[i] \in Ranges
      BY <3>1, <2>2 DEF SarrayTypeOK
    <3>3. last.max + 1 < n.min
      <4>1. sarray_cmp(last, n) = "RIGHT"
        BY <3>1 DEF compare
      <4>. HIDE DEF last
      <4>. QED  BY <4>1, <3>2, Comparison
    <3>4. array[i].max <= last.max
      <4>1. CASE i = Len(array)
        BY <4>1, <3>2, Parts
      <4>2. CASE i < Len(array)
        <5>1. array[i].max + 1 < last.min
          BY <4>2, <2>2, <3>1 DEF Separated
        <5>. QED  BY <5>1, <3>2, Parts
      <4>. QED  BY <4>1, <4>2, <2>2, <1>1
    <3>5. array[i].max \in Nat /\ last.max \in Nat /\ n.min \in Nat
      BY <3>2, Parts
    <3>. QED  BY <3>3, <3>4, <3>5, <1>1, <2>2, <2>4, SMTT(30)
  <2>. QED  BY <2>3, <2>4, <1>1
<1>4. SearchInBounds' /\ Narrowed' /\ Decided'
  BY DEF SearchInBounds, Narrowed, Decided
<1>. QED  BY <1>2, <1>3, <1>4

\* The beginning of sarray_contains() keeps the invariant.
LEMMA StartPreserves ==
  ASSUME SortedArrayInv, NEW n \in Ranges, StartContains(n)
  PROVE  SortedArrayInv'
<1>. USE DEF SortedArrayInv, StartContains
<1>1. Len(array) \in Nat /\ (array # <<>> => Len(array) > 0)
  BY DEF SarrayTypeOK
<1>2. SarrayTypeOK' /\ Separated'
  BY <1>1 DEF SarrayTypeOK, Separated
<1>3. CASE array = <<>>
  <2>1. Len(array') = 0
    BY <1>3
  <2>. QED  BY <1>2, <1>3, <2>1 DEF SearchInBounds, Narrowed, Decided
<1>4. CASE array # <<>>
  BY <1>1, <1>2, <1>4 DEF SearchInBounds, Narrowed, Decided
<1>. QED  BY <1>3, <1>4

\* A round of the loop keeps the invariant: what it leaves out is not around
\* the probe.
LEMMA ProbePreserves ==
  ASSUME SortedArrayInv, Probe
  PROVE  SortedArrayInv'
<1>. USE DEF SortedArrayInv
<1>. DEFINE e == array[Mid + 1]
<1>1. /\ answer = "searching" /\ left <= right
      /\ array' = array /\ probe' = probe
  BY DEF Probe
<1>2. /\ Len(array) \in Nat /\ left \in Nat /\ right \in Nat
      /\ right < Len(array)
      /\ \A i \in 1..Len(array) :
           Inside(probe, array[i]) => left + 1 <= i /\ i <= right + 1
  BY <1>1 DEF SarrayTypeOK, SearchInBounds, Narrowed
<1>3. Mid \in Nat /\ left <= Mid /\ Mid <= right /\ Mid + 1 \in 1..Len(array)
  BY <1>1, <1>2 DEF Mid
<1>4. e \in Ranges /\ probe \in Ranges
  BY <1>3 DEF SarrayTypeOK
<1>5. \A i \in 1..Len(array) :
        array[i].min \in Nat /\ array[i].max \in Nat /\ array[i].min <= array[i].max
  BY Parts DEF SarrayTypeOK
<1>6. probe.min \in Nat /\ probe.max \in Nat /\ probe.min <= probe.max
  BY Parts DEF SarrayTypeOK
<1>6a. \A i \in 1..Len(array) :
         /\ i < Mid + 1 => array[i].max + 1 < e.min
         /\ Mid + 1 < i => e.max + 1 < array[i].min
  BY <1>3 DEF Separated
<1>6b. e.min \in Nat /\ e.max \in Nat /\ e.min <= e.max
  BY <1>3, <1>5
<1>6c. \A i \in 1..Len(array) : i \in Nat /\ (i < Mid + 1 \/ i = Mid + 1 \/ Mid + 1 < i)
  BY <1>2, <1>3
<1>7. SarrayTypeOK' /\ Separated' /\ SearchInBounds'
  BY <1>1, <1>2, <1>3 DEF Probe, GoLeft, GoRight, SarrayTypeOK, Separated, SearchInBounds
<1>. DEFINE cmp == sarray_cmp(e, probe)
<1>8. CASE cmp \in {"LEFT", "ADJACENT_LEFT"}
  <2>1. probe.max < e.min
    <3>. HIDE DEF e
    <3>. QED  BY <1>4, <1>8, Comparison
  <2>2. \A i \in 1..Len(array) : Mid + 1 <= i => ~Inside(probe, array[i])
    <3>. HIDE DEF e
    <3>1. Inside(probe, e) => FALSE
      BY <2>1, <1>6, <1>6b DEF Inside
    <3>2. \A i \in 1..Len(array) : Mid + 1 < i => ~Inside(probe, array[i])
      BY <2>1, <1>3, <1>5, <1>6, <1>6a, <1>6b, SMTT(30) DEF Inside
    <3>. QED  BY <3>1, <3>2, <1>3, <1>6c DEF e
  <2>3. GoLeft /\ left' = left
    BY <1>8 DEF Probe
  <2>4. CASE Mid = 0
    <3>1. answer' = "no" /\ \A i \in 1..Len(array) : ~Inside(probe, array[i])
      BY <2>2, <2>3, <2>4 DEF GoLeft
    <3>. QED  BY <3>1, <1>1, <1>7 DEF Narrowed, Decided
  <2>5. CASE Mid # 0
    <3>1. right' = Mid - 1 /\ answer' = answer
      BY <2>3, <2>5 DEF GoLeft
    <3>. QED  BY <3>1, <2>2, <2>3, <1>1, <1>2, <1>3, <1>7 DEF Narrowed, Decided
  <2>. QED  BY <2>4, <2>5
<1>9. CASE cmp \in {"RIGHT", "ADJACENT_RIGHT"}
  <2>1. e.max < probe.min
    <3>. HIDE DEF e
    <3>. QED  BY <1>4, <1>9, Comparison
  <2>2. \A i \in 1..Len(array) : i <= Mid + 1 => ~Inside(probe, array[i])
    <3>. HIDE DEF e
    <3>1. Inside(probe, e) => FALSE
      BY <2>1, <1>6, <1>6b DEF Inside
    <3>2. \A i \in 1..Len(array) : i < Mid + 1 => ~Inside(probe, array[i])
      BY <2>1, <1>3, <1>5, <1>6, <1>6a, <1>6b, SMTT(30) DEF Inside
    <3>. QED  BY <3>1, <3>2, <1>3, <1>6c DEF e
  <2>3. GoRight /\ right' = right
    BY <1>9 DEF Probe
  <2>4. CASE Mid = Len(array) - 1
    <3>1. answer' = "no" /\ \A i \in 1..Len(array) : ~Inside(probe, array[i])
      BY <2>2, <2>3, <2>4, <1>2 DEF GoRight
    <3>. QED  BY <3>1, <1>1, <1>7 DEF Narrowed, Decided
  <2>5. CASE Mid # Len(array) - 1
    <3>1. left' = Mid + 1 /\ answer' = answer
      BY <2>3, <2>5 DEF GoRight
    <3>. QED  BY <3>1, <2>2, <2>3, <1>1, <1>2, <1>3, <1>7 DEF Narrowed, Decided
  <2>. QED  BY <2>4, <2>5
<1>10. CASE cmp \in {"EQUAL", "CHILD"}
  <2>1. Inside(probe, e)
    <3>. HIDE DEF e
    <3>. QED  BY <1>4, <1>10, Comparison
  <2>2. answer' = "yes"
    BY <1>10 DEF Probe
  <2>. QED  BY <2>1, <2>2, <1>1, <1>3, <1>7 DEF Narrowed, Decided
<1>11. CASE cmp \in {"PARENT", "INTERSECTION"}
  <2>1. ~Inside(probe, e) /\ e.min <= probe.max /\ probe.min <= e.max
    <3>. HIDE DEF e
    <3>. QED  BY <1>4, <1>11, Comparison
  <2>2. \A i \in 1..Len(array) : ~Inside(probe, array[i])
    <3>. HIDE DEF e
    <3>1. \A i \in 1..Len(array) : i < Mid + 1 \/ Mid + 1 < i => ~Inside(probe, array[i])
      BY <2>1, <1>3, <1>5, <1>6, <1>6a, <1>6b, SMTT(30) DEF Inside
    <3>. QED  BY <2>1, <3>1, <1>3, <1>6c DEF e
  <2>3. answer' = "no"
    BY <1>11 DEF Probe
  <2>. QED  BY <2>2, <2>3, <1>1, <1>7 DEF Narrowed, Decided
<1>. QED  BY <1>8, <1>9, <1>10, <1>11 DEF Probe

\* The end of the loop keeps the invariant: an empty interval holds no element.
LEMMA LoopEndsPreserves ==
  ASSUME SortedArrayInv, LoopEnds
  PROVE  SortedArrayInv'
<1>. USE DEF SortedArrayInv, LoopEnds
<1>1. SarrayTypeOK' /\ Separated' /\ SearchInBounds'
  BY DEF SarrayTypeOK, Separated, SearchInBounds
<1>2. \A i \in 1..Len(array) : ~Inside(probe, array[i])
  BY DEF SarrayTypeOK, Narrowed
<1>. QED  BY <1>1, <1>2 DEF Narrowed, Decided

--------------------------------------------------------------------------------
\* The inductive invariant holds of every behaviour of an array.
THEOREM SortedArrayInvariance == SarraySpec => []SortedArrayInv
<1>1. SarrayInit => SortedArrayInv
  BY MaxValueAssumption
  DEF SarrayInit, SortedArrayInv, SarrayTypeOK, Ranges, Separated, SearchInBounds, Narrowed, Decided
<1>2. SortedArrayInv /\ [SarrayNext]_sarray_vars => SortedArrayInv'
  <2>1. CASE UNCHANGED sarray_vars
    BY <2>1 DEF sarray_vars, SortedArrayInv, SarrayTypeOK, Separated, SearchInBounds, Narrowed, Decided
  <2>. QED  BY <2>1, AddPreserves, StartPreserves, ProbePreserves, LoopEndsPreserves DEF SarrayNext
<1>. QED  BY <1>1, <1>2, PTL DEF SarraySpec

\* The ranges that sarray_add() accepts never touch, for any number of them.
THEOREM StaySeparated == SarraySpec => []Separated
<1>1. SortedArrayInv => Separated
  BY DEF SortedArrayInv
<1>. QED  BY <1>1, SortedArrayInvariance, PTL

\* sarray_contains() is exact for every array that sarray_add() can build.
THEOREM ContainsIsExact == SarraySpec => []ContainsExact
<1>1. SortedArrayInv => ContainsExact
  BY OneElement DEF SortedArrayInv, Decided, ContainsExact
<1>. QED  BY <1>1, SortedArrayInvariance, PTL

\* The unsigned locals of sarray_contains() never leave the array.
THEOREM StaysInBounds == SarraySpec => []SearchInBounds
<1>1. SortedArrayInv => SearchInBounds
  BY DEF SortedArrayInv
<1>. QED  BY <1>1, SortedArrayInvariance, PTL
================================================================================
