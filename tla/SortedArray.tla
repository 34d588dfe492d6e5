------------------------------ MODULE SortedArray ------------------------------
(***************************************************************************)
(* The sorted arrays of resources: sorted_array.c with the comparisons of  *)
(* resource/asn.c, ip4.c and ip6.c.                                        *)
(*                                                                         *)
(* An array holds ranges of AS numbers or of addresses.  sarray_add()      *)
(* accepts a range only at the right of the last one; sarray_contains()    *)
(* searches by halving, one step per round of its loop.                    *)
(***************************************************************************)
EXTENDS Intervals, Sequences

CONSTANT MaxCount    \* bound on the length of the array

ASSUME MaxCountAssumption == MaxCount \in Nat

VARIABLES
  array,    \* array[i]: element i - 1 of the C array
  probe,    \* the argument of the last sarray_contains()
  left,     \* its locals
  right,
  answer    \* "none", "searching" or what it returned

sarray_vars == <<array, probe, left, right, answer>>

(* compare() returns 0: a non-empty array is extended at its right only. *)
compare(n) == array # <<>> => sarray_cmp(array[Len(array)], n) = "RIGHT"

SarrayInit ==
  /\ array = <<>>
  /\ probe = [min |-> 0, max |-> 0]
  /\ left = 0
  /\ right = 0
  /\ answer = "none"

(* A range that compare() refuses, or for which there is no memory, leaves the
   array alone.                                                              *)
sarray_add(n) ==
  /\ answer # "searching"
  /\ Len(array) < MaxCount
  /\ compare(n)
  /\ array' = Append(array, n)
  /\ answer' = "none"
  /\ UNCHANGED <<probe, left, right>>

(* sarray_contains() up to its loop. *)
StartContains(n) ==
  /\ answer # "searching"
  /\ probe' = n
  /\ left' = 0
  /\ right' = IF array = <<>> THEN 0 ELSE Len(array) - 1
  /\ answer' = IF array = <<>> THEN "no" ELSE "searching"
  /\ UNCHANGED array

Mid == left + (right - left) \div 2

(* right is unsigned: it never steps below the first element. *)
GoLeft ==
  IF Mid = 0 THEN answer' = "no" /\ UNCHANGED right
  ELSE right' = Mid - 1 /\ UNCHANGED answer

(* Mutant of GoRight: the loop gives up one element too early. *)
GoRightGivesUp ==
  IF Mid + 1 >= Len(array) - 1 THEN answer' = "no" /\ UNCHANGED left
  ELSE left' = Mid + 1 /\ UNCHANGED answer

GoRight ==
  IF Mid = Len(array) - 1 THEN answer' = "no" /\ UNCHANGED left
  ELSE left' = Mid + 1 /\ UNCHANGED answer

(* One round of the loop. *)
Probe ==
  /\ answer = "searching"
  /\ left <= right
  /\ LET cmp == sarray_cmp(array[Mid + 1], probe)
     IN \/ cmp \in {"LEFT", "ADJACENT_LEFT"} /\ GoLeft /\ UNCHANGED left
        \/ cmp \in {"RIGHT", "ADJACENT_RIGHT"} /\ GoRight /\ UNCHANGED right
        \/ cmp \in {"EQUAL", "CHILD"} /\ answer' = "yes" /\ UNCHANGED <<left, right>>
        \/ cmp \in {"PARENT", "INTERSECTION"} /\ answer' = "no" /\ UNCHANGED <<left, right>>
  /\ UNCHANGED <<array, probe>>

LoopEnds ==
  /\ answer = "searching"
  /\ left > right
  /\ answer' = "no"
  /\ UNCHANGED <<array, probe, left, right>>

SarrayNext ==
  \/ \E n \in Ranges : sarray_add(n) \/ StartContains(n)
  \/ Probe
  \/ LoopEnds

SarraySpec == SarrayInit /\ [][SarrayNext]_sarray_vars

--------------------------------------------------------------------------------
SarrayTypeOK ==
  /\ array \in Seq(Ranges)
  /\ probe \in Ranges
  /\ left \in Nat
  /\ right \in Nat
  /\ answer \in {"none", "searching", "no", "yes"}

\* Between two elements there is always a value that belongs to neither: what
\* compare() establishes with the last element alone holds for every pair.
Separated ==
  \A i, j \in 1..Len(array) : i < j => array[i].max + 1 < array[j].min

\* The values the array stands for.
Owned(v) == \E i \in 1..Len(array) : array[i].min <= v /\ v <= array[i].max

\* sarray_contains() says yes exactly when every value of its argument belongs
\* to the array, although it only ever looks for one element around it.
ContainsExact ==
  answer \in {"yes", "no"} =>
    (answer = "yes" <=> \A v \in probe.min..probe.max : Owned(v))

\* The unsigned locals of the search stay within the array.
SearchInBounds ==
  answer = "searching" => right < Len(array) /\ left <= Len(array)

================================================================================
