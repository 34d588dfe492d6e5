------------------------------- MODULE Intervals -------------------------------
(***************************************************************************)
(* Ranges of AS numbers or addresses and how two of them lie: the          *)
(* comparisons of resource/asn.c, ip4.c and ip6.c.                         *)
(***************************************************************************)
EXTENDS Naturals

CONSTANT MaxValue   \* the largest AS number or address

ASSUME MaxValueAssumption == MaxValue \in Nat

(* The callers hand over no inverted range: add_asn(), check_order4() and
   check_order6() refuse them, and a prefix has none.                      *)
Ranges == {r \in [min : 0..MaxValue, max : 0..MaxValue] : r.min <= r.max}

Inside(r, s) == s.min <= r.min /\ r.max <= s.max

(* asn_cmp(), r4_cmp() and r6_cmp(): where n2 lies, seen from n1. *)
sarray_cmp(n1, n2) ==
  IF n1 = n2 THEN "EQUAL"
  ELSE IF Inside(n2, n1) THEN "CHILD"
  ELSE IF Inside(n1, n2) THEN "PARENT"
  ELSE IF n1.max + 1 = n2.min THEN "ADJACENT_RIGHT"
  ELSE IF n1.max < n2.min THEN "RIGHT"
  ELSE IF n2.max + 1 = n1.min THEN "ADJACENT_LEFT"
  ELSE IF n2.max < n1.min THEN "LEFT"
  ELSE "INTERSECTION"
================================================================================
