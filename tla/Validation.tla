------------------------------- MODULE Validation -------------------------------
(***************************************************************************)
(* A validation cycle: check_vrps_updates() (updates_daemon.c) calls       *)
(* vrps_update() (vrps.c), which runs perform_standalone_validation()      *)
(* (tal.c) with one thread per TAL file on one table (db_table.c), applies *)
(* the SLURM files (slurm_loader.c) to the result and publishes it.        *)
(*                                                                         *)
(* What a thread finds is the tree of its TAL at the moment it starts to   *)
(* read it (Traversal has the details); it adds its records one by one     *)
(* under table_lock, or fails after any of them.  The files of the         *)
(* configured directories change at any time.  Reading all the SLURM files *)
(* once is one step.  Running out of memory inside a TAL's thread is left  *)
(* out.                                                                    *)
(***************************************************************************)
EXTENDS Sequences, Naturals, FiniteSets

CONSTANTS
  Tals,         \* the names a TAL file can have
  Records,      \* VRPs and router keys
  Yields,       \* [Tals -> the sets of records that its tree can yield]
  SlurmNames,   \* the names a SLURM file can have
  Contents,     \* the contents a SLURM file can have
  NULL,
  MaxEdits,     \* bound: changes of the files and of the trees
  MaxFaults     \* bound: failures of a thread, of malloc() or of a system call

ASSUME YieldsAssumption == Yields \in [Tals -> SUBSET SUBSET Records]

ASSUME ContentsAssumption ==
  Contents \subseteq [valid : BOOLEAN, filters : SUBSET Records, assertions : SUBSET Records]

ASSUME NullAssumption == \A set \in SUBSET Records : NULL # set

ASSUME BoundsAssumption == MaxEdits \in Nat /\ MaxFaults \in Nat

VARIABLES
  world,    \* the TAL files, the trees behind them, the SLURM files
  main,     \* the thread that runs the cycles: its place and its locals
  thread,   \* [Tals -> its validation thread]
  table,    \* the table that the threads fill, or NULL
  db,       \* db_rrdp: [TALs it knows -> visited]
  slurm,    \* state.slurm: the last valid SLURM with its checksums, or NULL
  base,     \* state.base
  faults,   \* how many faults there were
  edits     \* how many edits there were

vars == <<world, main, thread, table, db, slurm, base, faults, edits>>

Codes == {"0", "EINVAL", "EINTR", "ENOMEM"}

Elements(seq) == {seq[i] : i \in 1..Len(seq)}

NoRules == [filters |-> {}, assertions |-> {}]

Applied(set, rules) == (set \ rules.filters) \cup rules.assertions

InForce == IF slurm = NULL THEN NoRules ELSE slurm.rules

NoThread == [pc |-> "none", tree |-> NULL, todo |-> {}, exit |-> "EINTR"]

--------------------------------------------------------------------------------
(***************************************************************************)
(* SLURM files.  files is a function from the names that are there to      *)
(* contents: valid (it parses), filters and assertions.  The checksum of a *)
(* file stands for its contents.                                           *)
(***************************************************************************)
About(content) == content.filters \cup content.assertions

\* load_slurm_files(): every file parses and no two speak of the same record.
load_slurm_files(files) ==
  IF \/ \E f \in DOMAIN files : ~files[f].valid
     \/ \E f, g \in DOMAIN files : f # g /\ About(files[f]) \cap About(files[g]) # {}
  THEN {}
  ELSE {[filters |-> UNION {files[f].filters : f \in DOMAIN files},
         assertions |-> UNION {files[f].assertions : f \in DOMAIN files}]}

\* As many files, and each of the new ones is among the old ones.
are_csum_lists_equals(new, old) ==
  /\ Cardinality(DOMAIN new) = Cardinality(DOMAIN old)
  /\ \A f \in DOMAIN new : \E g \in DOMAIN old : new[f] = old[g]

Files(w) == [f \in {g \in SlurmNames : w.files[g] # NULL} |-> w.files[f]]

--------------------------------------------------------------------------------
NewCycle(first) ==
  [pc |-> "sleep", first |-> first, listed |-> {}, left |-> {}, threads |-> <<>>,
   error |-> "0", csums |-> <<>>, before |-> NoRules, torn |-> FALSE]

Init ==
  /\ world \in [tals : SUBSET Tals, tree : {f \in [Tals -> SUBSET Records] :
                                              \A t \in Tals : f[t] \in Yields[t]},
                files : [SlurmNames -> Contents \cup {NULL}], path : {TRUE}]
  /\ main = NewCycle(TRUE)
  /\ thread = [t \in Tals |-> NoThread]
  /\ table = NULL
  /\ db = <<>>
  /\ slurm = NULL
  /\ base = NULL
  /\ faults = 0
  /\ edits = 0

Fault ==
  /\ faults < MaxFaults
  /\ faults' = faults + 1

(* vrps_update() returned error: to check_vrps_updates(), or the first time to
   updates_daemon_start(), whose error ends the program.                      *)
Finished(error) ==
  IF main.first
  THEN [NewCycle(FALSE) EXCEPT !.pc = IF error = "0" THEN "sleep" ELSE "exited"]
  ELSE [NewCycle(FALSE) EXCEPT !.pc = IF error = "EINTR" THEN "stopped" ELSE "sleep"]

\* The table is released and the cycle ends.
Discard(error) ==
  /\ table' = NULL
  /\ thread' = [t \in Tals |-> IF thread[t].pc = "joined" THEN NoThread ELSE thread[t]]
  /\ main' = Finished(error)

--------------------------------------------------------------------------------
(***************************************************************************)
(* perform_standalone_validation()                                         *)
(***************************************************************************)
\* db_rrdp_reset_visited_tals()
ResetVisited(d) == [t \in DOMAIN d |-> FALSE]

\* db_rrdp_add_tal(), db_rrdp_rem_tal(), db_rrdp_rem_nonvisited_tals()
db_rrdp_add_tal(d, tal) == [t \in DOMAIN d \cup {tal} |-> t = tal \/ d[t]]
db_rrdp_rem_tal(d, tal) == [t \in DOMAIN d \ {tal} |-> d[t]]

\* Mutant of the next: the visited ones go.
RemVisited(d) == [t \in {u \in DOMAIN d : ~d[u]} |-> FALSE]
db_rrdp_rem_nonvisited_tals(d) == [t \in {u \in DOMAIN d : d[u]} |-> TRUE]

(* The table is created and the directory of the TALs opened; without a TAL the
   cycle fails.                                                              *)
StartCycle ==
  /\ main.pc = "sleep"
  /\ table' = {}
  /\ db' = ResetVisited(db)
  /\ main' = [main EXCEPT !.pc = IF world.tals = {} THEN "cancel" ELSE "spawn",
                          !.error = IF world.tals = {} THEN "EINVAL" ELSE "0",
                          !.listed = world.tals, !.left = world.tals]
  /\ UNCHANGED <<world, thread, slurm, base, faults, edits>>

(* __do_file_validation() for the next file of the directory: process_file()
   fails if it is gone.                                                     *)
SpawnThread(t) ==
  /\ main.pc = "spawn"
  /\ t \in main.left
  /\ t \in world.tals
  /\ db' = db_rrdp_add_tal(db, t)
  /\ thread' = [thread EXCEPT ![t] = [NoThread EXCEPT !.pc = "new"]]
  /\ main' = [main EXCEPT !.pc = IF main.left = {t} THEN "join" ELSE "spawn",
                          !.left = @ \ {t}, !.threads = <<t>> \o @]
  /\ UNCHANGED <<world, table, slurm, base, faults, edits>>

TalIsGone(t) ==
  /\ main.pc = "spawn"
  /\ t \in main.left \ world.tals
  /\ main' = [main EXCEPT !.pc = "cancel", !.error = "EINVAL"]
  /\ UNCHANGED <<world, thread, table, db, slurm, base, faults, edits>>

\* malloc() or pthread_create() fails: the RRDP state of the TAL goes as well.
SpawnFails(t) ==
  /\ main.pc = "spawn"
  /\ t \in main.left \cap world.tals
  /\ Fault
  /\ db' = db_rrdp_rem_tal(db, t)
  /\ main' = [main EXCEPT !.pc = "cancel", !.error = "ENOMEM"]
  /\ UNCHANGED <<world, thread, table, slurm, base, edits>>

(* close_thread() on the head of the list: the thread goes on until its next
   cancellation point, and is joined.                                       *)
CancelThread ==
  /\ main.pc = "cancel"
  /\ main.threads # <<>>
  /\ LET t == Head(main.threads)
     IN /\ thread[t].pc \in {"new", "running"}
        /\ thread' = [thread EXCEPT ![t].pc = "cancelled"]
  /\ UNCHANGED <<world, main, table, db, slurm, base, faults, edits>>

JoinCancelled ==
  /\ main.pc = "cancel"
  /\ main.threads # <<>>
  /\ thread[Head(main.threads)].pc = "ended"
  /\ thread' = [thread EXCEPT ![Head(main.threads)] = NoThread]
  /\ main' = [main EXCEPT !.threads = Tail(@)]
  /\ UNCHANGED <<world, table, db, slurm, base, faults, edits>>

AllCancelled ==
  /\ main.pc = "cancel"
  /\ main.threads = <<>>
  /\ Discard(main.error)
  /\ UNCHANGED <<world, db, slurm, base, faults, edits>>

\* Mutant of JoinThread: the first error ends the loop.
JoinUntilError ==
  /\ main.pc = "join"
  /\ main.threads # <<>>
  /\ LET t == Head(main.threads)
     IN /\ thread[t].pc = "ended"
        /\ thread' = [thread EXCEPT ![t].pc = "joined"]
        /\ main' = [main EXCEPT !.threads = IF thread[t].exit = "0" THEN Tail(@) ELSE <<>>,
                                !.error = IF thread[t].exit = "0" THEN @ ELSE thread[t].exit]
  /\ UNCHANGED <<world, table, db, slurm, base, faults, edits>>

\* pthread_join() on the head of the list: the last error joined remains.
JoinThread ==
  /\ main.pc = "join"
  /\ main.threads # <<>>
  /\ LET t == Head(main.threads)
     IN /\ thread[t].pc = "ended"
        /\ thread' = [thread EXCEPT ![t].pc = "joined"]
        /\ main' = [main EXCEPT !.threads = Tail(@),
                                !.error = IF thread[t].exit = "0" THEN @ ELSE thread[t].exit]
  /\ UNCHANGED <<world, table, db, slurm, base, faults, edits>>

\* Mutant of SomeFailed: what the other TALs gave is published.
PublishPartial ==
  /\ main.pc = "join"
  /\ main.threads = <<>>
  /\ main.error # "0"
  /\ base' = table
  /\ Discard(main.error)
  /\ UNCHANGED <<world, db, slurm, faults, edits>>

\* One error is enough to drop the table.
SomeFailed ==
  /\ main.pc = "join"
  /\ main.threads = <<>>
  /\ main.error # "0"
  /\ Discard(main.error)
  /\ UNCHANGED <<world, db, slurm, base, faults, edits>>

AllSucceeded ==
  /\ main.pc = "join"
  /\ main.threads = <<>>
  /\ main.error = "0"
  /\ db' = db_rrdp_rem_nonvisited_tals(db)
  /\ main' = [main EXCEPT !.pc = "checksums", !.before = InForce]
  /\ UNCHANGED <<world, thread, table, slurm, base, faults, edits>>

--------------------------------------------------------------------------------
(***************************************************************************)
(* do_file_validation(), the thread of a TAL.                              *)
(***************************************************************************)
\* Mutant of LoadTal: a file that is gone is polled for.
LoadWaits(t) ==
  /\ thread[t].pc = "new"
  /\ thread' = [thread EXCEPT ![t] =
       IF t \in world.tals
       THEN [@ EXCEPT !.pc = "running", !.tree = world.tree[t], !.todo = world.tree[t]]
       ELSE @]
  /\ UNCHANGED <<world, main, table, db, slurm, base, faults, edits>>

\* tal_load() fails if the file is gone; else the tree is read.
LoadTal(t) ==
  /\ thread[t].pc = "new"
  /\ thread' = [thread EXCEPT ![t] =
       IF t \in world.tals
       THEN [@ EXCEPT !.pc = "running", !.tree = world.tree[t], !.todo = world.tree[t]]
       ELSE [@ EXCEPT !.pc = "ended", !.exit = "EINVAL"]]
  /\ UNCHANGED <<world, main, table, db, slurm, base, faults, edits>>

\* handle_roa_v4(), handle_roa_v6(), handle_router_key(): HASH_REPLACE()
AddRecord(t) ==
  /\ thread[t].pc \in {"running", "cancelled"}
  /\ \E r \in thread[t].todo :
       /\ table' = table \cup {r}
       /\ thread' = [thread EXCEPT ![t].todo = @ \ {r}]
  /\ UNCHANGED <<world, main, db, slurm, base, faults, edits>>

EndThread(t) ==
  /\ thread[t].pc = "running"
  /\ thread[t].todo = {}
  /\ thread' = [thread EXCEPT ![t].pc = "ended", ![t].exit = "0"]
  /\ UNCHANGED <<world, main, table, db, slurm, base, faults, edits>>

EndCancelled(t) ==
  /\ thread[t].pc = "cancelled"
  /\ thread' = [thread EXCEPT ![t].pc = "ended"]
  /\ UNCHANGED <<world, main, table, db, slurm, base, faults, edits>>

(* handle_tal_uri() fails, with -EINTR if the rsync of the trust anchor's
   repository was killed by a signal.                                       *)
FailThread(t) ==
  /\ thread[t].pc = "running"
  /\ Fault
  /\ \E code \in {"EINVAL", "EINTR"} :
       thread' = [thread EXCEPT ![t].pc = "ended", ![t].exit = code]
  /\ UNCHANGED <<world, main, table, db, slurm, base, edits>>

--------------------------------------------------------------------------------
(***************************************************************************)
(* slurm_apply() and the end of __vrps_update().                           *)
(***************************************************************************)
(* load_updated_slurm(): nothing changed, there is no file, or the files have
   to be read again.                                                        *)
Checksums ==
  /\ main.pc = "checksums"
  /\ world.path
  /\ LET files == Files(world)
         same == slurm # NULL /\ are_csum_lists_equals(files, slurm.csums)
     IN /\ main' = [main EXCEPT !.pc = IF same \/ files = <<>> THEN "apply" ELSE "parse",
                                !.csums = files, !.torn = same /\ slurm.torn]
        /\ slurm' = IF ~same /\ files = <<>> THEN NULL ELSE slurm
  /\ UNCHANGED <<world, thread, table, db, base, faults, edits>>

\* The configured path is not there, or a file cannot be read.
ChecksumsFail ==
  /\ main.pc = "checksums"
  /\ IF world.path THEN Files(world) # <<>> /\ Fault ELSE UNCHANGED faults
  /\ Discard("EINVAL")
  /\ UNCHANGED <<world, db, slurm, base, edits>>

\* Mutant of ParseSlurm: a version that does not load replaces the last one.
BadReplacesGood ==
  /\ main.pc = "parse"
  /\ LET rules == IF world.path THEN load_slurm_files(Files(world)) ELSE {}
     IN slurm' = IF rules \in {{}, {NoRules}} THEN NULL
                 ELSE [rules |-> CHOOSE r \in rules : TRUE, csums |-> main.csums,
                       torn |-> Files(world) # main.csums]
  /\ main' = [main EXCEPT !.pc = "apply", !.torn = Files(world) # main.csums]
  /\ UNCHANGED <<world, thread, table, db, base, faults, edits>>

(* __load_slurm_files(): the files are read again, now with the parser, and
   kept with the checksums of the first time; files without rules leave no
   SLURM, files that do not load leave the last one.                        *)
ParseSlurm ==
  /\ main.pc = "parse"
  /\ LET rules == IF world.path THEN load_slurm_files(Files(world)) ELSE {}
         torn == ~world.path \/ Files(world) # main.csums
     IN /\ slurm' = IF rules = {} THEN slurm
                    ELSE IF rules = {NoRules} THEN NULL
                    ELSE [rules |-> CHOOSE r \in rules : TRUE, csums |-> main.csums,
                          torn |-> torn]
        /\ main' = [main EXCEPT !.pc = "apply", !.torn = torn]
  /\ UNCHANGED <<world, thread, table, db, base, faults, edits>>

\* A copy of the table is filtered and extended, and replaces it.
ApplySlurm ==
  /\ main.pc = "apply"
  /\ table' = Applied(table, InForce)
  /\ main' = [main EXCEPT !.pc = "publish"]
  /\ UNCHANGED <<world, thread, db, slurm, base, faults, edits>>

ApplyFails ==
  /\ main.pc = "apply"
  /\ slurm # NULL
  /\ Fault
  /\ Discard("ENOMEM")
  /\ UNCHANGED <<world, db, slurm, base, edits>>

\* Mutant of PublishBase: only the first database is published.
PublishOnce ==
  /\ main.pc = "publish"
  /\ base' = IF base = NULL /\ table # {} THEN table ELSE base
  /\ Discard("0")
  /\ UNCHANGED <<world, db, slurm, faults, edits>>

(* Under state_lock; Vrps has the deltas.  A first database without records is
   not published, an unchanged one is not published again.                   *)
PublishBase ==
  /\ main.pc = "publish"
  /\ base' = IF base = NULL /\ table = {} THEN NULL ELSE table
  /\ Discard("0")
  /\ UNCHANGED <<world, db, slurm, faults, edits>>

PublishFails ==
  /\ main.pc = "publish"
  /\ Fault
  /\ Discard("ENOMEM")
  /\ UNCHANGED <<world, db, slurm, base, edits>>

--------------------------------------------------------------------------------
(***************************************************************************)
(* The environment.                                                        *)
(***************************************************************************)
Edit ==
  /\ edits < MaxEdits
  /\ edits' = edits + 1
  /\ \/ \E t \in Tals : world' = [world EXCEPT !.tals = IF t \in @ THEN @ \ {t} ELSE @ \cup {t}]
     \/ \E t \in Tals : \E y \in Yields[t] \ {world.tree[t]} : world' = [world EXCEPT !.tree[t] = y]
     \/ \E f \in SlurmNames : \E c \in (Contents \cup {NULL}) \ {world.files[f]} :
          world' = [world EXCEPT !.files[f] = c]
     \/ world' = [world EXCEPT !.path = ~@]
  /\ UNCHANGED <<main, thread, table, db, slurm, base, faults>>

\* The program or its updater thread has ended.
Ended ==
  /\ main.pc \in {"stopped", "exited"}
  /\ UNCHANGED vars

MainStep ==
  \/ StartCycle
  \/ \E t \in Tals : SpawnThread(t) \/ TalIsGone(t) \/ SpawnFails(t)
  \/ CancelThread \/ JoinCancelled \/ AllCancelled
  \/ JoinThread \/ SomeFailed \/ AllSucceeded
  \/ Checksums \/ ChecksumsFail \/ ParseSlurm \/ ApplySlurm \/ ApplyFails
  \/ PublishBase \/ PublishFails

ThreadStep(t) == LoadTal(t) \/ AddRecord(t) \/ EndThread(t) \/ EndCancelled(t) \/ FailThread(t)

Next == MainStep \/ (\E t \in Tals : ThreadStep(t)) \/ Edit \/ Ended

Spec == Init /\ [][Next]_vars

(* The operating system runs the threads that can run, and what they ask the
   network for is answered or fails.                                        *)
LiveSpec == Spec /\ WF_vars(MainStep) /\ \A t \in Tals : WF_vars(ThreadStep(t))

--------------------------------------------------------------------------------
(***************************************************************************)
(* Properties.                                                             *)
(***************************************************************************)
RuleSets == [filters : SUBSET Records, assertions : SUBSET Records]

FileSets == UNION {[D -> Contents] : D \in SUBSET SlurmNames}

MainType ==
  [pc : {"sleep", "spawn", "join", "cancel", "checksums", "parse", "apply", "publish",
         "stopped", "exited"},
   first : BOOLEAN, listed : SUBSET Tals, left : SUBSET Tals, threads : Seq(Tals),
   error : Codes, csums : FileSets, before : RuleSets, torn : BOOLEAN]

ThreadType ==
  [pc : {"none", "new", "running", "cancelled", "ended", "joined"},
   tree : (SUBSET Records) \cup {NULL}, todo : SUBSET Records, exit : Codes]

\* The types of the variables.
TypeOK ==
  /\ world \in [tals : SUBSET Tals, tree : [Tals -> SUBSET Records],
                files : [SlurmNames -> Contents \cup {NULL}], path : BOOLEAN]
  /\ \A t \in Tals : world.tree[t] \in Yields[t]
  /\ main \in MainType
  /\ thread \in [Tals -> ThreadType]
  /\ table \in (SUBSET Records) \cup {NULL}
  /\ DOMAIN db \subseteq Tals /\ db \in [DOMAIN db -> BOOLEAN]
  /\ slurm \in [rules : RuleSets, csums : FileSets, torn : BOOLEAN] \cup {NULL}
  /\ base \in (SUBSET Records) \cup {NULL}
  /\ faults \in 0..MaxFaults
  /\ edits \in 0..MaxEdits

(* The cycle implements Publication: what is published is the union of the
   complete results of every TAL that the cycle listed, under the rules in
   force, or the database stays; a failing or cancelled thread leaves nothing
   (perform_standalone_validation(), __vrps_update()).                        *)
InCycle == main.pc \notin {"sleep", "cancel", "stopped", "exited"}

CycleTals == IF InCycle THEN main.listed ELSE {}

CycleYield ==
  IF InCycle THEN [t \in {u \in Tals : thread[u].tree # NULL} |-> thread[t].tree]
             ELSE [t \in {} |-> {}]

Publication == INSTANCE Publication WITH
  rules <- InForce, listed <- CycleTals, yield <- CycleYield

PublishesAllOrNothing == Publication!PublicationSpec

(* No thread is alive when the table it writes to is released or handed on:
   both loops of perform_standalone_validation() join every thread.        *)
NoThreadOutlives ==
  main.pc \notin {"spawn", "join", "cancel"} =>
    \A t \in Tals : thread[t].pc \in {"none", "joined"}

(* A thread finds its TAL in db_rrdp: db_rrdp_get_uris() aborts the program
   otherwise.                                                               *)
RrdpFound ==
  \A t \in Tals : thread[t].pc \in {"new", "running", "cancelled"} => t \in DOMAIN db

(* The records that the thread of t has added, and those that all have. *)
Found(t) == IF thread[t].tree = NULL THEN {} ELSE thread[t].tree \ thread[t].todo

AllFound == UNION {Found(t) : t \in Tals}

Working == {"spawn", "join", "checksums", "parse", "apply", "publish"}

(* What perform_standalone_validation() and __vrps_update() know where they are:
   the list has the threads that are alive, every listed TAL has its thread
   (once) and its entry in db_rrdp, the table holds what the threads found, and
   after the joins that is everything, unless an error was noted.             *)
ThreadSane(t) ==
  LET th == thread[t]
  IN /\ th.pc = "none" => th = NoThread
     /\ th.pc = "new" => th.tree = NULL
     /\ th.pc = "running" => th.tree # NULL
     /\ th.tree = NULL => th.todo = {}
     /\ th.tree # NULL => th.tree \in Yields[t] /\ th.todo \subseteq th.tree
     /\ th.exit = "0" => th.tree # NULL /\ th.todo = {}
     /\ main.pc \in {"sleep", "stopped", "exited"} => th.pc = "none"
     /\ th.pc \notin {"none", "joined"} => t \in Elements(main.threads)
     /\ main.pc \in {"spawn", "join"} /\ th.pc # "none" => t \in DOMAIN db /\ db[t]
     /\ main.pc = "spawn" => /\ th.pc # "joined"
                             /\ t \in main.left => th.pc = "none"
                             /\ t \in main.listed <=> t \in main.left \/ th.pc # "none"
     /\ main.pc \in Working \ {"spawn"} =>
          /\ t \in main.listed <=> th.pc # "none"
          /\ th.pc = "joined" /\ main.error = "0" => th.exit = "0"

CycleSane ==
  /\ \A t \in Tals : ThreadSane(t)
  /\ main.pc \in Working => main.listed # {}
  /\ main.pc \notin {"join", "cancel"} => main.error = "0"
  /\ main.pc \in Working \cup {"cancel"} => table # NULL
  /\ main.pc \in Working \ {"publish"} => table = AllFound
  /\ main.pc = "publish" => table = Applied(AllFound, InForce)

(* No thread outlives the table it writes to, none misses its TAL in db_rrdp, and
   the table holds exactly what the threads of the listed TALs found.            *)
ValidationInv ==
  /\ TypeOK
  /\ CycleSane
  /\ NoThreadOutlives
  /\ RrdpFound

(* The RRDP state of a TAL goes only when a whole cycle succeeded without it, or
   when its own thread could not be created.                                    *)
RrdpKept ==
  [][\A t \in DOMAIN db \ DOMAIN db' :
       \/ t \notin main.listed /\ main.pc = "join" /\ main'.pc = "checksums"
       \/ t \in main.left /\ main'.pc = "cancel"]_vars

(* load_updated_slurm(): the rules applied to a table are those of the files
   whose checksums were taken in this cycle, or if these do not load the rules
   of the cycle before; unless a file changed between its checksum and its
   parse when the rules in force were loaded, or contents repeat (the
   comparison of the checksums does not count them).                          *)
Repeat(files) == \E f, g \in DOMAIN files : f # g /\ files[f] = files[g]

RulesFollowFiles ==
  main.pc = "apply" /\ ~main.torn /\ ~Repeat(main.csums) =>
    LET rules == load_slurm_files(main.csums)
    IN InForce = IF rules = {} THEN main.before ELSE CHOOSE r \in rules : TRUE

(* Every cycle ends: no join waits for ever. *)
CycleEnds == main.pc = "spawn" ~> main.pc \in {"sleep", "stopped", "exited"}

(* Once the files and the trees stay as they are and nothing fails any more,
   the database becomes the one they stand for, as long as the updater lives,
   there is a TAL and the configured SLURM path can be read.                 *)
Wanted ==
  LET rules == load_slurm_files(Files(world))
  IN Applied(UNION {world.tree[t] : t \in world.tals},
             IF rules = {} THEN InForce ELSE CHOOSE r \in rules : TRUE)

Converges ==
  <>[](\/ main.pc \in {"stopped", "exited"}
       \/ world.tals = {} \/ ~world.path \/ Repeat(Files(world))
       \/ slurm # NULL /\ slurm.torn
       \/ base = Wanted \/ (base = NULL /\ Wanted = {}))
================================================================================
