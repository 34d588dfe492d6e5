------------------------------ MODULE RrdpDeltas -------------------------------
(***************************************************************************)
(* The list of deltas of an RRDP update notification: rrdp_objects.c, and  *)
(* order_notification_deltas() of rrdp_parser.c, which fills it.           *)
(*                                                                         *)
(* A notification names its own serial and lists deltas in any order.  The *)
(* parser files them in an array by their distance to the serial of the    *)
(* notification; the loader later walks the array from the serial it has.  *)
(* Serials are unsigned long and positions size_t: subtraction wraps at    *)
(* Word, which is 2^64 in the code.                                        *)
(***************************************************************************)
EXTENDS Integers, Sequences

CONSTANTS
  Word,       \* serials and positions are 0 .. Word - 1
  NoHead      \* the NULL of an array element that has no delta yet

ASSUME WordAssumption == Word \in Nat \ {0}

(* Unsigned subtraction. *)
Minus(a, b) == (a - b) % Word

(* deltas_head_set_size(): all the elements are NULL. *)
EmptyList(capacity) ==
  [capacity |-> capacity, array |-> [i \in 0 .. capacity - 1 |-> NoHead], len |-> 0]

(* The position deltas_head_add() computes: the newest delta comes last. *)
position(capacity, max_serial, serial) ==
  Minus(capacity - 1, Minus(max_serial, serial))

(* Another delta of the document has the position already. *)
Occupied(list, pos) == list.array[pos] # NoHead

(* What deltas_head_add() returns. *)
AddResult(list, max_serial, serial) ==
  LET pos == position(list.capacity, max_serial, serial)
  IN CASE pos > list.capacity - 1 -> "EINVAL"
       [] pos <= list.capacity - 1 /\ Occupied(list, pos) -> "EEXIST"
       [] OTHER -> "ok"

(* deltas_head_add(), when it succeeds. *)
deltas_head_add(list, max_serial, serial) ==
  [list EXCEPT !.array[position(list.capacity, max_serial, serial)] = serial,
               !.len = @ + 1]

deltas_head_values_set(list) == list.len = list.capacity

(* Mutant of deltas_head_for_each: the walk starts one delta too late. *)
ForEachAfter(list, max_serial, from_serial) ==
  LET from == Minus(list.capacity, Minus(max_serial, from_serial)) + 1
  IN IF from < list.capacity THEN [i \in 1 .. list.capacity - from |-> from + i - 1]
                             ELSE << >>

(***************************************************************************)
(* deltas_head_for_each(): the positions it calls back for, in order, when *)
(* no call back fails.  Nothing is called when the first position is not   *)
(* in the array, and that is a success.                                    *)
(***************************************************************************)
deltas_head_for_each(list, max_serial, from_serial) ==
  LET from == Minus(list.capacity, Minus(max_serial, from_serial))
  IN IF from < list.capacity THEN [i \in 1 .. list.capacity - from |-> from + i - 1]
                             ELSE << >>

(* -ENOENT of deltas_head_for_each(): the loader takes the snapshot instead. *)
NoDeltaList(list) == list.capacity = 0
================================================================================
