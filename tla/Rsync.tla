--------------------------------- MODULE Rsync ---------------------------------
(***************************************************************************)
(* rsync downloads: rsync/rsync.c.  A URI is the sequence of its tokens:   *)
(* scheme, server, module, path.                                           *)
(***************************************************************************)
EXTENDS ReqsErrors

CONSTANTS
  Strategy,     \* --rsync.strategy: "strict", "root" or "root-except-ta"
  RetryCount    \* --rsync.retry.count

uri_is_rsync(uri) == uri[1] = "rsync"

is_descendant(ancestor, descendant) ==
  IF Strategy = "strict" THEN ancestor = descendant
  ELSE /\ Len(ancestor) <= Len(descendant)
       /\ ancestor = SubSeq(descendant, 1, Len(ancestor))

is_already_downloaded(uri, visited) == \E v \in visited : is_descendant(v, uri)

handle_strict_strategy(uri) == uri

(* Up to the fourth slash: rsync://server/module *)
handle_root_strategy(uri) ==
  IF Len(uri) > 3 THEN SubSeq(uri, 1, 3) ELSE uri

get_rsync_uri(uri, is_ta) ==
  IF Strategy = "strict" \/ (Strategy = "root-except-ta" /\ is_ta)
  THEN handle_strict_strategy(uri)
  ELSE handle_root_strategy(uri)

(* Mutant of check_ancestor_error: only the URI itself is looked up. *)
check_same_error(errors, uri) == IF uri \in Listed(errors) THEN "EREQFAILED" ELSE "0"

check_ancestor_error(errors, uri) ==
  IF \E u \in Listed(errors) : uri_is_rsync(u) /\ is_descendant(u, uri)
  THEN "EREQFAILED" ELSE "0"

(* What do_rsync() may return after so many retries: the child exited well; it
   exited with an error and there are no retries left; or it was killed, or could
   not be started (EINTR stands for all such errors).  CanRetry: the remaining case,
   the loop goes on.                                                                *)
do_rsync(retries) ==
  {"0", "EINTR"} \cup (IF retries = RetryCount THEN {"EREQFAILED"} ELSE {})

CanRetry(retries) == retries # RetryCount

(* The URI that download_files() passes to do_rsync(), or NULL when it returns
   without a request.                                                       *)
RequestedUri(uri, is_ta, force, visited, errors) ==
  IF ~force /\ is_already_downloaded(uri, visited) THEN NULL
  ELSE IF ~force THEN get_rsync_uri(uri, is_ta)
  ELSE IF check_ancestor_error(errors, uri) # "0" THEN NULL
  ELSE handle_strict_strategy(uri)

mark_as_downloaded(uri, visited, error) ==
  IF error \in {"0", "EREQFAILED"} THEN visited \cup {uri} ELSE visited

(* download_files(): the error and the tables afterwards, for each result of
   do_rsync().                                                              *)
download_files(uri, is_ta, force, visited, errors, working, retries) ==
  LET requested == RequestedUri(uri, is_ta, force, visited, errors)
      Result(error) ==
        [error |-> error, requested |-> requested,
         visited |-> mark_as_downloaded(requested, visited, error),
         errors |-> CASE error = "0" -> reqs_errors_rem_uri(errors, requested)
                      [] error = "EREQFAILED" -> reqs_errors_add_uri(errors, requested, working)
                      [] OTHER -> errors]
  IN IF requested = NULL
     THEN {[error |-> check_ancestor_error(errors, uri), requested |-> NULL,
            visited |-> visited, errors |-> errors]}
     ELSE {Result(error) : error \in do_rsync(retries)}
================================================================================
