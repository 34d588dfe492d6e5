--------------------------------- MODULE Rrdp ----------------------------------
(***************************************************************************)
(* One RRDP repository and the local copy of it that a TAL's thread keeps: *)
(* rrdp_loader.c, rrdp_parser.c, db/db_rrdp_uris.c, visited_uris.c, and    *)
(* exec_rrdp_method() of certificate.c, which calls them.                  *)
(*                                                                         *)
(* The thread asks for the update notification at most once per validation *)
(* cycle, brings the files of its workspace up to date with deltas or with *)
(* the snapshot, and remembers the session and serial it has, the manifests*)
(* it wrote and the time of the update.  It shares none of this with the   *)
(* threads of other TALs; what changes under its feet is the repository.   *)
(* The documents of a notification are fixed by their hashes, so a download*)
(* returns the right one or fails.                                         *)
(*                                                                         *)
(* Left out: reqs_errors, which only decides what is logged; the list of   *)
(* rsync URIs that reset_downloaded() empties; and current_workspace, which*)
(* belongs to the choice between rsync and RRDP.                           *)
(***************************************************************************)
EXTENDS RrdpDeltas, FiniteSets

CONSTANTS
  Files,         \* rsync URIs of the files of the repository
  Mfts,          \* those that are manifests
  DirOf,         \* [Files -> directories]
  Versions,      \* contents a file may have
  Absent,        \* there is no such file
  NoEntry,       \* the URI is not in the database
  NoSession,     \* session_id "" of an errored entry
  MaxPublished,  \* bound: changes the repository makes
  MaxSessions,   \* bound: sessions of the repository
  MaxTime,       \* bound: seconds
  MaxRestarts,   \* bound: restarts of the validator
  MayFail,       \* downloads, parsing, file writes and deletions may fail
  MayTrim        \* the repository may list only its latest deltas

ASSUME RrdpAssumption ==
  /\ Mfts \subseteq Files
  /\ MaxPublished + 1 < Word

VARIABLES
  srv,        \* the repository: session, serial, its contents so far, mtime
  clock,      \* seconds; the repository and the validator have the same time
  db,         \* the entry of the URI in db_rrdp_uri, or NoEntry
  disk,       \* the files of the workspace
  load,       \* the call of __rrdp_load() in progress
  requests,   \* history: notifications requested in this cycle
  asked,      \* history: time of the last request not answered with 304
  mirrored,   \* history: the contents of the serial in db
  restarts    \* history: restarts so far

vars == <<srv, clock, db, disk, load, requests, asked, mirrored, restarts>>

Repos == [Files -> Versions \cup {Absent}]

NoFiles == [f \in Files |-> Absent]

Published(repo) == {f \in Files : repo[f] # Absent}

Idle == [pc |-> "idle"]

(***************************************************************************)
(* The repository.  It lists the deltas of its session, or none, or, if    *)
(* MayTrim, the latest ones.                                               *)
(***************************************************************************)
Publish ==
  /\ srv.serial + srv.earlier < MaxPublished
  /\ \E repo \in Repos \ {srv.repos[srv.serial]} :
       srv' = [srv EXCEPT !.serial = @ + 1, !.repos = Append(@, repo), !.mtime = clock]
  /\ UNCHANGED <<clock, db, disk, load, requests, asked, mirrored, restarts>>

NewSession ==
  /\ srv.session < MaxSessions
  /\ srv.serial + srv.earlier < MaxPublished
  /\ \E repo \in Repos :
       srv' = [session |-> srv.session + 1, serial |-> 1, repos |-> <<repo>>,
               mtime |-> clock, earlier |-> srv.earlier + srv.serial]
  /\ UNCHANGED <<clock, db, disk, load, requests, asked, mirrored, restarts>>

Tick ==
  /\ clock < MaxTime
  /\ clock' = clock + 1
  /\ UNCHANGED <<srv, db, disk, load, requests, asked, mirrored, restarts>>

ListedDeltas ==
  IF MayTrim THEN 0 .. srv.serial - 1 ELSE {0, srv.serial - 1}

(* A notification that lists the last n deltas, as order_notification_deltas()
   leaves it.                                                               *)
Notification(n) ==
  [session |-> srv.session, serial |-> srv.serial, repos |-> srv.repos,
   list |-> [capacity |-> n, len |-> n,
             array |-> [i \in 0 .. n - 1 |-> srv.serial - n + 1 + i]]]

--------------------------------------------------------------------------------
(***************************************************************************)
(* The database entry of the URI.                                          *)
(***************************************************************************)
Entry(session, serial, status, visited) ==
  [session |-> session, serial |-> serial, last_update |-> 0, status |-> status,
   visited |-> visited]

(* Mutant of UpdatedNow: the stored time is in the future. *)
UpdatedAhead(entry) == [entry EXCEPT !.last_update = clock + 1]

UpdatedNow(entry) == [entry EXCEPT !.last_update = clock]

db_rrdp_uris_cmp(ntf) ==
  IF db = NoEntry THEN "NOTFOUND"
  ELSE IF db.session # ntf.session THEN "DIFF_SESSION"
  ELSE IF db.serial # ntf.serial THEN "DIFF_SERIAL"
  ELSE "EQUAL"

(* Mutants of mark_rrdp_uri_request_err: the failed load keeps the session and
   the serial of the entry, or stores its time. *)
KeepEntry ==
  db' = IF db = NoEntry THEN Entry(NoSession, 0, "ERROR", {})
                        ELSE [db EXCEPT !.status = "ERROR", !.last_update = 0]

ErroredNow == db' = UpdatedNow(Entry(NoSession, 0, "ERROR", {}))

(* The dummy entry of a load that failed. *)
mark_rrdp_uri_request_err ==
  db' = Entry(NoSession, 0, "ERROR", {})

Without(dirs) == [f \in Files |-> IF DirOf[f] \in dirs THEN Absent ELSE disk[f]]

(* visited_uris_delete_local() renames the directory of every visited manifest.  One
   that cannot be renamed is a soft error: it stays, and the others are removed.     *)
delete_local(visited) ==
  LET dirs == {DirOf[m] : m \in visited}
  IN {Without(renamed) : renamed \in IF MayFail THEN SUBSET dirs ELSE {dirs}}

--------------------------------------------------------------------------------
(***************************************************************************)
(* __rrdp_load(), one action per document that is requested.  Both         *)
(* rrdp_load() and, with force, rrdp_reload_snapshot() run it.             *)
(***************************************************************************)
Init ==
  /\ \E repo \in Repos :
       srv = [session |-> 1, serial |-> 1, repos |-> <<repo>>, mtime |-> 1, earlier |-> 0]
  /\ clock = 1
  /\ db = NoEntry
  /\ disk = NoFiles
  /\ load = Idle
  /\ requests = 0
  /\ asked = 0
  /\ mirrored = NoFiles
  /\ restarts = 0

(* handle_tal_uri() begins a traversal with db_rrdp_uris_set_all_unvisited(). *)
StartCycle ==
  /\ load = Idle
  /\ db' = IF db = NoEntry THEN db ELSE [db EXCEPT !.status = "UNVISITED"]
  /\ requests' = 0
  /\ UNCHANGED <<srv, clock, disk, load, asked, mirrored, restarts>>

(* Mutant of NotRequested: the status of the URI is not looked at. *)
AlwaysRequested == TRUE

(* A visited URI is not loaded again, by use_access_method(), and an errored
   one fails with -EPERM.                                                   *)
NotRequested == db # NoEntry => db.status = "UNVISITED"

(* exec_rrdp_method() for a certificate whose manifest is m. *)
exec_rrdp_method(m) ==
  /\ load = Idle
  /\ NotRequested
  /\ load' = [pc |-> "request", mft |-> m, force |-> FALSE, updated |-> FALSE]
  /\ UNCHANGED <<srv, clock, db, disk, requests, asked, mirrored, restarts>>

Requested == requests' = requests + 1 /\ asked' = clock

(* The download or the parsing of the notification fails. *)
NotificationFails ==
  /\ MayFail
  /\ load.pc = "request"
  /\ Requested
  /\ mark_rrdp_uri_request_err
  /\ load' = Idle
  /\ UNCHANGED <<srv, clock, disk, mirrored, restarts>>

IfModifiedSince == ~load.force /\ db # NoEntry /\ db.last_update > 0

(* A 304 answer to a request with If-Modified-Since. *)
NotModified ==
  /\ load.pc = "request"
  /\ IfModifiedSince
  /\ srv.mtime <= db.last_update
  /\ requests' = requests + 1
  /\ db' = [db EXCEPT !.status = "VISITED"]
  /\ load' = [load EXCEPT !.pc = "verify"]
  /\ UNCHANGED <<srv, clock, disk, asked, mirrored, restarts>>

(* rrdp_parse_notification() marks the entry, if there is one, as visited.  A
   server may ignore If-Modified-Since: the file is then requested again
   without it.                                                              *)
Notified ==
  /\ load.pc = "request"
  /\ Requested
  /\ db' = IF db = NoEntry THEN db ELSE [db EXCEPT !.status = "VISITED"]
  /\ \E n \in ListedDeltas :
       load' = [pc |-> "compare", mft |-> load.mft, force |-> load.force,
                updated |-> FALSE, ntf |-> Notification(n), todo |-> << >>]
  /\ UNCHANGED <<srv, clock, disk, mirrored, restarts>>

UpToDate ==
  /\ load.pc = "compare"
  /\ ~load.force
  /\ db_rrdp_uris_cmp(load.ntf) = "EQUAL"
  /\ db' = UpdatedNow(db)
  /\ load' = [load EXCEPT !.pc = "verify"]
  /\ UNCHANGED <<srv, clock, disk, requests, asked, mirrored, restarts>>

(* remove_rrdp_uri_files() of process_diff_session(). *)
DiffSession ==
  /\ load.pc = "compare"
  /\ load.force \/ db_rrdp_uris_cmp(load.ntf) = "DIFF_SESSION"
  /\ disk' \in delete_local(db.visited)
  /\ load' = [load EXCEPT !.pc = "snapshot"]
  /\ UNCHANGED <<srv, clock, db, requests, asked, mirrored, restarts>>

(* A hard error of remove_rrdp_uri_files(), no memory or no thread, ends the load with
   some of the directories gone.                                                      *)
DiffSessionFails ==
  /\ MayFail
  /\ load.pc = "compare"
  /\ load.force \/ db_rrdp_uris_cmp(load.ntf) = "DIFF_SESSION"
  /\ disk' \in delete_local(db.visited)
  /\ mark_rrdp_uri_request_err
  /\ load' = Idle
  /\ UNCHANGED <<srv, clock, requests, asked, mirrored, restarts>>

NotFound ==
  /\ load.pc = "compare"
  /\ db_rrdp_uris_cmp(load.ntf) = "NOTFOUND"
  /\ load' = [load EXCEPT !.pc = "snapshot"]
  /\ UNCHANGED <<srv, clock, db, disk, requests, asked, mirrored, restarts>>

process_diff_serial ==
  /\ load.pc = "compare"
  /\ ~load.force
  /\ db_rrdp_uris_cmp(load.ntf) = "DIFF_SERIAL"
  /\ load' = IF NoDeltaList(load.ntf.list)
             THEN [load EXCEPT !.pc = "snapshot"]
             ELSE [load EXCEPT !.pc = "deltas",
                     !.todo = deltas_head_for_each(load.ntf.list, load.ntf.serial, db.serial)]
  /\ UNCHANGED <<srv, clock, db, disk, requests, asked, mirrored, restarts>>

--------------------------------------------------------------------------------
(***************************************************************************)
(* One delta document: an element for every file that differs between two  *)
(* serials.  A withdraw always has the hash of the file it removes; the    *)
(* publish of a file that exists may have it (hashed).  An element whose   *)
(* hash is not the one of the local file, or that withdraws a manifest     *)
(* nobody visited, is refused, and with it the rest of the document.       *)
(***************************************************************************)
Changed(old, new) == {f \in Files : old[f] # new[f]}

Accepted(f, old, new, hashed) ==
  /\ new[f] = Absent \/ (old[f] # Absent /\ hashed) => disk[f] = old[f]
  /\ new[f] = Absent /\ f \in Mfts => f \in db.visited

Written(repo, fs) == [f \in Files |-> IF f \in fs THEN repo[f] ELSE disk[f]]

Visiting(repo, fs) ==
  (db.visited \cup {m \in Mfts \cap fs : repo[m] # Absent})
    \ {m \in Mfts \cap fs : repo[m] = Absent}

NextDelta == load.ntf.list.array[Head(load.todo)]

process_delta ==
  /\ load.pc = "deltas"
  /\ load.todo # << >>
  /\ LET old == load.ntf.repos[NextDelta - 1]
         new == load.ntf.repos[NextDelta]
         fs == Changed(old, new)
     IN /\ \E hashed \in BOOLEAN : \A f \in fs : Accepted(f, old, new, hashed)
        /\ disk' = Written(new, fs)
        /\ db' = [db EXCEPT !.visited = Visiting(new, fs)]
  /\ load' = [load EXCEPT !.todo = Tail(@)]
  /\ UNCHANGED <<srv, clock, requests, asked, mirrored, restarts>>

(* The delta fails after some of its elements; the snapshot is next. *)
process_delta_fails ==
  /\ load.pc = "deltas"
  /\ load.todo # << >>
  /\ LET old == load.ntf.repos[NextDelta - 1]
         new == load.ntf.repos[NextDelta]
         fs == Changed(old, new)
     IN \E hashed \in BOOLEAN, done \in SUBSET fs :
          /\ \A f \in done : Accepted(f, old, new, hashed)
          /\ MayFail \/ \E f \in fs \ done : ~Accepted(f, old, new, hashed)
          /\ disk' = Written(new, done)
          /\ db' = [db EXCEPT !.visited = Visiting(new, done)]
  /\ load' = [load EXCEPT !.pc = "snapshot"]
  /\ UNCHANGED <<srv, clock, requests, asked, mirrored, restarts>>

(* db_rrdp_uris_update() and db_rrdp_uris_set_last_update(). *)
Updated(visited) ==
  /\ db' = UpdatedNow(Entry(load.ntf.session, load.ntf.serial, "VISITED", visited))
  /\ mirrored' = load.ntf.repos[load.ntf.serial]
  /\ load' = [load EXCEPT !.pc = "verify", !.updated = TRUE]

DeltasDone ==
  /\ load.pc = "deltas"
  /\ load.todo = << >>
  /\ Updated(db.visited)
  /\ UNCHANGED <<srv, clock, disk, requests, asked, restarts>>

SnapshotMfts(repo) == Mfts \cap Published(repo)

process_snapshot ==
  /\ load.pc = "snapshot"
  /\ LET repo == load.ntf.repos[load.ntf.serial]
     IN /\ disk' = Written(repo, Published(repo))
        /\ Updated(SnapshotMfts(repo))
  /\ UNCHANGED <<srv, clock, requests, asked, restarts>>

process_snapshot_fails ==
  /\ MayFail
  /\ load.pc = "snapshot"
  /\ LET repo == load.ntf.repos[load.ntf.serial]
     IN \E done \in SUBSET Published(repo) : disk' = Written(repo, done)
  /\ mark_rrdp_uri_request_err
  /\ load' = Idle
  /\ UNCHANGED <<srv, clock, requests, asked, mirrored, restarts>>

(* verify_rrdp_mft_loc() of exec_rrdp_method(): when the manifest is missing
   and nothing was updated, the snapshot is forced, once.                   *)
verify_rrdp_mft_loc ==
  /\ load.pc = "verify"
  /\ load' = IF disk[load.mft] = Absent /\ ~load.updated /\ ~load.force
             THEN [pc |-> "request", mft |-> load.mft, force |-> TRUE, updated |-> FALSE]
             ELSE Idle
  /\ UNCHANGED <<srv, clock, db, disk, requests, asked, mirrored, restarts>>

(* The database is in memory only; the workspace stays. *)
Restart ==
  /\ restarts < MaxRestarts
  /\ restarts' = restarts + 1
  /\ db' = NoEntry
  /\ load' = Idle
  /\ requests' = 0
  /\ UNCHANGED <<srv, clock, disk, asked, mirrored>>

Load ==
  \/ NotificationFails \/ NotModified \/ Notified
  \/ UpToDate \/ DiffSession \/ DiffSessionFails \/ NotFound \/ process_diff_serial
  \/ process_delta \/ process_delta_fails \/ DeltasDone
  \/ process_snapshot \/ process_snapshot_fails
  \/ verify_rrdp_mft_loc

Next ==
  \/ Publish \/ NewSession \/ Tick
  \/ StartCycle
  \/ \E m \in Mfts : exec_rrdp_method(m)
  \/ Load
  \/ Restart

Spec == Init /\ [][Next]_vars

--------------------------------------------------------------------------------

Statuses == {"UNVISITED", "VISITED", "ERROR"}

(* The types of the state: db_rrdp_uris.c and rrdp_loader.c. *)
TypeOK ==
  /\ srv.session \in 1 .. MaxSessions
  /\ srv.serial \in 1 .. MaxPublished
  /\ srv.repos \in [1 .. srv.serial -> Repos]
  /\ clock \in 1 .. MaxTime
  /\ db # NoEntry =>
     /\ db.session \in (1 .. MaxSessions) \cup {NoSession}
     /\ db.serial \in 0 .. MaxPublished
     /\ db.status \in Statuses
     /\ db.visited \subseteq Mfts
     /\ db.last_update \in 0 .. clock
  /\ disk \in Repos
  /\ load.pc \in {"idle", "request", "compare", "deltas", "snapshot", "verify"}
  /\ load.pc = "deltas" => \A i \in DOMAIN load.todo : load.todo[i] \in DOMAIN load.ntf.list.array

HasSerial == db # NoEntry /\ db.session # NoSession

(***************************************************************************)
(* Between loads, an entry that names a session and a serial means that    *)
(* the workspace has every file of that serial, with its contents, and     *)
(* that the visited list is exactly its manifests, whatever failed before: *)
(* a delta or a snapshot that fails halfway never leaves a real serial in  *)
(* the database (rrdp_loader.c: "so that it won't be requested again").    *)
(***************************************************************************)
MirrorsSerial ==
  load = Idle /\ HasSerial =>
    /\ \A f \in Published(mirrored) : disk[f] = mirrored[f]
    /\ db.visited = Mfts \cap Published(mirrored)

(***************************************************************************)
(* "Avoid multiple requests on the same run" (rrdp_loader.c): a cycle      *)
(* requests the notification once, and once more only to force the         *)
(* snapshot for a missing manifest.                                        *)
(***************************************************************************)
RequestedOnce ==
  requests <= 1 \/ (requests = 2 /\ (load # Idle => load.force))

(***************************************************************************)
(* An update that a conditional request would not see (the server would    *)
(* answer 304) was published no earlier than the last request that was     *)
(* answered otherwise: a load that failed, and an update older than that   *)
(* request, are never hidden by db_rrdp_uris_set_last_update()'s time.     *)
(***************************************************************************)
OnlyRacesHidden ==
  load = Idle /\ db # NoEntry /\ srv.mtime <= db.last_update =>
    \/ db.session = srv.session /\ db.serial = srv.serial
    \/ srv.mtime >= asked
================================================================================
