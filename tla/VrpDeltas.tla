------------------------------- MODULE VrpDeltas -------------------------------
(***************************************************************************)
(* The differences between two validated databases, as built by            *)
(* rtr/db/db_table.c, stored by rtr/db/delta.c and merged into one answer  *)
(* by rtr/db/vrps.c and rtr/pdu_sender.c.                                  *)
(*                                                                         *)
(* A database (struct db_table) is a set of records: its hash tables are   *)
(* keyed by the whole record, so HASH_REPLACE keeps one copy of each.  A   *)
(* struct deltas is a pair of disjoint sets, the records announced and the *)
(* records withdrawn; the split of both into IPv4, IPv6 and router key     *)
(* arrays is abstracted away, since no operation treats them differently.  *)
(***************************************************************************)
EXTENDS Integers, Sequences

\* What deltas_create() returns: no announcements and no withdrawals.
NoDeltas == [adds |-> {}, removes |-> {}]

\* Mutant of compute_deltas(): announcements and withdrawals are swapped.
ComputeSwapped(old, new) == [adds |-> old \ new, removes |-> new \ old]

\* compute_deltas(): the records only @new has are announced, the records only
\* @old has are withdrawn.
compute_deltas(old, new) == [adds |-> new \ old, removes |-> old \ new]

deltas_is_empty(d) == d.adds = {} /\ d.removes = {}

\* The records of a database after a router applied announcements and
\* withdrawals to the records it had.
Applied(records, d) == (records \cup d.adds) \ d.removes

\* Whether a delta is the exact difference between two databases.
IsDiff(d, old, new) ==
  Applied(old, d) = new /\ d.adds \cap old = {} /\ d.removes \subseteq old

\* Mutant of ovrd_remove(): the last entry of a record replaces the others.
LastEntryWins(net, d) ==
  [r \in DOMAIN net |-> IF r \in d.adds THEN 1
                        ELSE IF r \in d.removes THEN -1 ELSE net[r]]

\* vrp_ovrd_remove() and router_key_ovrd_remove() on every entry of a delta.  An
\* entry drops one listed entry of the same record and the opposite flag if there
\* is one, and is listed otherwise: the list never has both flags of a record, so
\* net[r] counts its entries, positive for announcements, negative for
\* withdrawals.
ovrd_remove(net, d) ==
  [r \in DOMAIN net |-> net[r] + (IF r \in d.adds THEN 1 ELSE 0)
                               - (IF r \in d.removes THEN 1 ELSE 0)]

\* The list vrps_foreach_filtered_delta() hands to its callbacks.
filtered_delta(records, groups) ==
  LET net[n \in 0..Len(groups)] ==
        IF n = 0 THEN [r \in records |-> 0]
                 ELSE ovrd_remove(net[n - 1], groups[n].deltas)
  IN net[Len(groups)]

\* Mutant of send_delta_pdus(): several groups are sent unfiltered.
SendUnfiltered(records, groups) ==
  [adds |-> UNION {groups[i].deltas.adds : i \in DOMAIN groups},
   removes |-> UNION {groups[i].deltas.removes : i \in DOMAIN groups}]

\* The records announced and withdrawn by send_delta_pdus(): the deltas of a
\* lone group as they are, those of several groups filtered.
send_delta_pdus(records, groups) ==
  IF Len(groups) = 1 THEN groups[1].deltas
  ELSE LET net == filtered_delta(records, groups)
       IN [adds |-> {r \in records : net[r] > 0},
           removes |-> {r \in records : net[r] < 0}]
================================================================================
