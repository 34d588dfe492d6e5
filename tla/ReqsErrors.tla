------------------------------- MODULE ReqsErrors ------------------------------
(***************************************************************************)
(* The table of servers that could not be reached: reqs_errors.c.          *)
(*                                                                         *)
(* It is shared by the threads of all TALs and survives the cycle.  An     *)
(* entry names the entry it was an alternative of (uri_related) and the    *)
(* one that was an alternative of it (ref_by); both are pointers to the    *)
(* keys of other entries.  The table is a function from the listed URIs to *)
(* entries.                                                                *)
(***************************************************************************)
EXTENDS Naturals, Sequences, TLC

CONSTANT NULL

NoErrors == <<>>

Listed(errors) == DOMAIN errors

(* A failed request of uri, made after one of the working repository failed:
   set_working_repo() and the insertion.  An entry is never overwritten.    *)
reqs_errors_add_uri(errors, uri, working) ==
  IF uri \in Listed(errors) THEN errors
  ELSE IF working \in Listed(errors)
  THEN (uri :> [uri_related |-> working, ref_by |-> NULL])
       @@ [errors EXCEPT ![working].ref_by = uri]
  ELSE (uri :> [uri_related |-> NULL, ref_by |-> NULL]) @@ errors

(* The first request of the chain of alternatives that uri belongs to. *)
RECURSIVE FirstRelated(_, _)
FirstRelated(errors, uri) ==
  LET related == errors[uri].uri_related
  IN IF related = NULL \/ related \notin Listed(errors) THEN uri
     ELSE FirstRelated(errors, related)

Without(errors, uri) == [u \in Listed(errors) \ {uri} |-> errors[u]]

RECURSIVE RemoveAlong(_, _)
RemoveAlong(errors, uri) ==
  LET next == errors[uri].ref_by
      rest == Without(errors, uri)
  IN IF next = NULL \/ next \notin Listed(rest) THEN rest
     ELSE RemoveAlong(rest, next)

(* A request of uri succeeded: the whole chain of alternatives goes. *)
reqs_errors_rem_uri(errors, uri) ==
  IF uri \notin Listed(errors) THEN errors
  ELSE RemoveAlong(errors, FirstRelated(errors, uri))
================================================================================
