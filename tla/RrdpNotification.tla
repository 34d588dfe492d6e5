--------------------------- MODULE RrdpNotification ----------------------------
(***************************************************************************)
(* One update notification, from its XML to the deltas that are processed: *)
(* order_notification_deltas() files the listed deltas one by one, in the  *)
(* order of the document, and stops at the first it refuses; a list that   *)
(* is accepted is walked from the serial of the local copy.                *)
(***************************************************************************)
EXTENDS RrdpDeltas, FiniteSets

CONSTANT MaxDeltas    \* bound: deltas listed by one notification

VARIABLES
  max_serial,         \* serial of the notification
  parsed,             \* ctx->deltas: the serials, in document order
  from_serial,        \* serial of the local copy
  list,               \* notification->deltas_list
  next,               \* index of the next element of parsed
  outcome,            \* "parsing", "accepted", "EINVAL", "EEXIST",
                      \* "incomplete", "processed" or "ENOENT"
  called              \* the serials given to process_delta(), in order

notification_vars == <<max_serial, parsed, from_serial, list, next, outcome, called>>

Serials == 0 .. Word - 1

NotificationInit ==
  /\ max_serial \in Serials
  /\ from_serial \in Serials \ {max_serial}
  /\ parsed \in UNION {[1 .. n -> Serials] : n \in 0 .. MaxDeltas}
  /\ list = EmptyList(Len(parsed))
  /\ next = 1
  /\ outcome = "parsing"
  /\ called = << >>

(* One turn of the loop of order_notification_deltas(). *)
AddDelta ==
  /\ outcome = "parsing"
  /\ next <= Len(parsed)
  /\ LET result == AddResult(list, max_serial, parsed[next])
     IN IF result = "ok"
        THEN /\ list' = deltas_head_add(list, max_serial, parsed[next])
             /\ next' = next + 1
             /\ UNCHANGED outcome
        ELSE /\ outcome' = result
             /\ UNCHANGED <<list, next>>
  /\ UNCHANGED <<max_serial, parsed, from_serial, called>>

(* Its end: every position has to be taken. *)
EndOfDeltas ==
  /\ outcome = "parsing"
  /\ next > Len(parsed)
  /\ outcome' = IF deltas_head_values_set(list) THEN "accepted" ELSE "incomplete"
  /\ UNCHANGED <<max_serial, parsed, from_serial, list, next, called>>

(* rrdp_process_deltas(), with call backs that succeed. *)
rrdp_process_deltas ==
  /\ outcome = "accepted"
  /\ IF NoDeltaList(list)
     THEN outcome' = "ENOENT" /\ UNCHANGED called
     ELSE /\ outcome' = "processed"
          /\ called' = LET idx == deltas_head_for_each(list, max_serial, from_serial)
                       IN [i \in DOMAIN idx |-> list.array[idx[i]]]
  /\ UNCHANGED <<max_serial, parsed, from_serial, list, next>>

NotificationNext == AddDelta \/ EndOfDeltas \/ rrdp_process_deltas

NotificationSpec == NotificationInit /\ [][NotificationNext]_notification_vars

--------------------------------------------------------------------------------

(* The last n serials up to max_serial, oldest first. *)
LastSerials(n) == [i \in 1 .. n |-> (max_serial - n + i) % Word]

(* The serials the local copy lacks, as far as the list could hold them. *)
Gap == (max_serial - from_serial) % Word

(***************************************************************************)
(* A list is accepted exactly when the document names, in any order and    *)
(* each once, the serials that end at the one of the notification:         *)
(* deltas_head_add() and deltas_head_values_set() together implement       *)
(* "they MUST form a contiguous sequence ... up to the serial number       *)
(* mentioned in the notification element" (rrdp_parser.c).                 *)
(***************************************************************************)
AcceptsExactlyContiguous ==
  LET wanted == LastSerials(Len(parsed))
      contiguous == {parsed[i] : i \in DOMAIN parsed} = {wanted[i] : i \in DOMAIN wanted}
  IN /\ outcome \in {"accepted", "processed", "ENOENT"} => contiguous
     /\ outcome \in {"EINVAL", "EEXIST", "incomplete"} => ~contiguous

(***************************************************************************)
(* An accepted array holds the serials in ascending order, so the walk of  *)
(* deltas_head_for_each() applies a delta only after the one before it.    *)
(***************************************************************************)
ArrayAscends ==
  outcome \in {"accepted", "processed", "ENOENT"} =>
    \A i \in 0 .. list.capacity - 1 : list.array[i] = LastSerials(list.capacity)[i + 1]

(***************************************************************************)
(* When the list reaches back to the local copy, exactly the missing       *)
(* deltas are processed, each once, oldest first.                          *)
(***************************************************************************)
CoveredGapIsProcessed ==
  outcome = "processed" /\ Gap <= list.capacity => called = LastSerials(Gap)
================================================================================
