---------------------------------- MODULE Vrps ----------------------------------
(***************************************************************************)
(* The database the RTR server serves: rtr/db/vrps.c.                      *)
(*                                                                         *)
(* One thread, the updater, replaces the base and maintains the list of    *)
(* deltas under the write side of state_lock; the client threads (Readers) *)
(* read both under the read side.  The updater asks the clients table for  *)
(* the smallest serial in use twice per update, at two different moments   *)
(* (clients.c has a lock of its own): the module takes both answers as     *)
(* inputs, and RtrServer supplies the ones the clients table gives.        *)
(*                                                                         *)
(* history is auxiliary: the database published under each serial.         *)
(***************************************************************************)
EXTENDS Integers, Sequences, FiniteSets, VrpDeltas

CONSTANTS
  Records,      \* VRPs and router keys
  Readers,      \* the threads that read the database
  None,         \* no base, no answer, no serial
  MaxSerial,    \* bound: no update beyond this serial
  MaxObjs,      \* bound: struct deltas objects in the heap
  MaxRestarts,  \* bound: restarts of the process
  StartTime,    \* clock of the first start, in seconds
  MayFail       \* whether malloc() and the validation may fail

ASSUME MaxSerialAssumption == MaxSerial \in Nat
ASSUME MaxObjsAssumption == MaxObjs \in Nat \ {0}
ASSUME MaxRestartsAssumption == MaxRestarts \in Nat
ASSUME StartTimeAssumption == StartTime \in Nat
ASSUME MayFailAssumption == MayFail \in BOOLEAN
ASSUME NoneAssumption == None \notin Nat /\ \A S \in SUBSET Records : S # None

VARIABLES
  base,         \* state.base: a set of records, or None (NULL)
  deltas,       \* state.deltas: the delta groups, oldest first
  next_serial,  \* state.next_serial
  boot,         \* how many times the process restarted
  refs,         \* the reference count of each struct deltas, 0 when free
  upd,          \* the updater's place in __vrps_update() and its locals
  result,       \* per reader, what vrps_get_deltas_from() gave it, or None
  streaming,    \* the readers inside vrps_foreach_base()
  history       \* auxiliary: the bases published since the start, in order

vrpsVars == <<base, deltas, next_serial, boot, refs, upd, result, streaming,
              history>>

--------------------------------------------------------------------------------
Objs == 1..MaxObjs
NoObj == 0
Serials == 0..MaxSerial
Delta == [adds : SUBSET Records, removes : SUBSET Records]
Group == [serial : Serials, deltas : Delta, obj : Objs]

UpdIdle == [pc |-> "idle", new |-> {}, deltas |-> NoDeltas, obj |-> NoObj]

\* The database published under serial s.
Snapshot(s) == history[s + 1]

\* Mutant of get_current_session_id(): a restart keeps the session IDs.
SameSessionForever(version) ==
  IF version = 1 THEN (StartTime - 1) % 65536 ELSE StartTime % 65536

\* vrps_init() derives both session IDs from the clock, 16 bits wide; the one of
\* RTR version 1 is the previous number.  The clock advances at least one second
\* between two starts, and less than 2^16.
get_current_session_id(version) ==
  IF version = 1 THEN (StartTime + boot - 1) % 65536
                 ELSE (StartTime + boot) % 65536

\* The state vrps_init() leaves.
VrpsInit ==
  /\ base = None
  /\ deltas = <<>>
  /\ next_serial = 0
  /\ boot = 0
  /\ refs = [o \in Objs |-> 0]
  /\ upd = UpdIdle
  /\ result = [rd \in Readers |-> None]
  /\ streaming = {}
  /\ history = <<>>

\* The process dies and starts again: everything was in memory.
VrpsRestart ==
  /\ boot < MaxRestarts
  /\ boot' = boot + 1
  /\ base' = None
  /\ deltas' = <<>>
  /\ next_serial' = 0
  /\ refs' = [o \in Objs |-> 0]
  /\ upd' = UpdIdle
  /\ result' = [rd \in Readers |-> None]
  /\ streaming' = {}
  /\ history' = <<>>

--------------------------------------------------------------------------------
\* state_lock: the updater holds the write side while it is between its two
\* questions to the clients table; a reader inside vrps_foreach_base() holds the
\* read side.  The other critical sections are single steps.
ReadLockFree == upd.pc # "purge"

\* Mutant of WriteLockFree: the updater does not wait for the readers.
NoWriteLock == TRUE
WriteLockFree == streaming = {}

\* deltas_create(): a free object, referenced once.
FreeObjs(rf) == {o \in Objs : rf[o] = 0}
NewObj(rf) == CHOOSE o \in FreeObjs(rf) : TRUE

\* deltas_refput() and deltas_refget(), on one object and on every group of a
\* list (deltas_db_cleanup() with deltagroup_cleanup()).
deltas_refput(rf, o) == [rf EXCEPT ![o] = @ - 1]
Occurrences(groups, o) == Cardinality({i \in DOMAIN groups : groups[i].obj = o})
RefPutAll(rf, groups) == [o \in Objs |-> rf[o] - Occurrences(groups, o)]

\* Mutant of RefGetAll: the copies of the readers are not counted.
NoRefGet(rf, groups) == rf
RefGetAll(rf, groups) == [o \in Objs |-> rf[o] + Occurrences(groups, o)]

\* deltas_create() and deltas_db_add() of create_empty_delta(), on the heap rf
\* and on a list that vrps_init() or vrps_purge() left empty.
create_empty_delta(rf) ==
  /\ FreeObjs(rf) # {}
  /\ deltas' = <<[serial |-> next_serial, deltas |-> NoDeltas,
                  obj |-> NewObj(rf)]>>
  /\ refs' = [rf EXCEPT ![NewObj(rf)] = 1]

\* The end of a successful update: the new base and its serial become visible
\* and the lock is released.
Publish ==
  /\ base' = upd.new
  /\ next_serial' = next_serial + 1
  /\ history' = Append(history, upd.new)
  /\ upd' = UpdIdle

\* The revert_base path: the new base is dropped and the lock released.
Revert ==
  /\ upd' = UpdIdle
  /\ UNCHANGED <<base, next_serial, history>>

--------------------------------------------------------------------------------
\* The validation and SLURM produce a database; when they fail __vrps_update()
\* returns before it touches the state.
perform_standalone_validation(new) ==
  /\ upd.pc = "idle"
  /\ next_serial <= MaxSerial
  /\ upd' = [upd EXCEPT !.pc = "validated", !.new = new]
  /\ UNCHANGED <<base, deltas, next_serial, boot, refs, result, streaming,
                 history>>

\* __vrps_update() when there was no base: an empty database changes nothing, any
\* other becomes serial 0 with a placeholder delta.
FirstUpdate ==
  /\ upd.pc = "validated"
  /\ WriteLockFree
  /\ base = None
  /\ \/ upd.new # {} /\ create_empty_delta(refs) /\ Publish
     \/ (upd.new = {} \/ MayFail) /\ Revert /\ UNCHANGED <<deltas, refs>>
  /\ UNCHANGED <<boot, result, streaming>>

\* __vrps_update() up to its first clients_get_min_serial(), whose answer is min:
\* nothing to do if the database did not change, otherwise the delta is stored
\* only if some client has a serial.  The lock stays held.
ComputeDeltas(min) ==
  LET d == compute_deltas(base, upd.new)
      o == NewObj(refs)
  IN /\ upd.pc = "validated"
     /\ WriteLockFree
     /\ base # None
     /\ \/ /\ ~deltas_is_empty(d)
           /\ FreeObjs(refs) # {}
           /\ refs' = [refs EXCEPT ![o] = 1]
           /\ deltas' = IF min # None
                        THEN Append(deltas, [serial |-> next_serial,
                                             deltas |-> d, obj |-> o])
                        ELSE deltas
           /\ upd' = [upd EXCEPT !.pc = "purge", !.deltas = d, !.obj = o]
           /\ UNCHANGED <<base, next_serial, history>>
        \/ /\ deltas_is_empty(d) \/ MayFail
           /\ Revert
           /\ UNCHANGED <<deltas, refs>>
     /\ UNCHANGED <<boot, result, streaming>>

\* vrps_purge() when clients_get_min_serial() finds no client: all deltas go and
\* a placeholder remains.
PurgeAll ==
  LET rf == RefPutAll(deltas_refput(refs, upd.obj), deltas)
  IN \/ create_empty_delta(rf) /\ Publish
     \/ MayFail /\ deltas' = <<>> /\ refs' = rf /\ Revert

\* The groups vrps_purge() keeps start at the first one whose serial is not
\* below the minimum; when that is none of them, or the first, all are kept.
PurgeFrom(min) ==
  LET kept == {i \in DOMAIN deltas : deltas[i].serial >= min}
  IN IF kept = {} THEN 1 ELSE CHOOSE i \in kept : \A j \in kept : i <= j

\* vrps_purge() when the smallest serial is min.  resize_deltas_db() shortens the
\* list before it allocates the new array, so a failure loses groups from the
\* end of the list and leaves the old array in place.
PurgeBelow(min) ==
  LET k == PurgeFrom(min)
  IN \/ /\ deltas' = SubSeq(deltas, k, Len(deltas))
        /\ refs' = RefPutAll(refs, SubSeq(deltas, 1, k - 1))
        /\ Publish
     \/ /\ MayFail
        /\ k > 1
        /\ deltas' = SubSeq(deltas, 1, Len(deltas) - (k - 1))
        /\ UNCHANGED refs
        /\ Revert

\* __vrps_update() from vrps_purge() on; min answers the second
\* clients_get_min_serial().
PurgeAndPublish(min) ==
  /\ upd.pc = "purge"
  /\ IF min = None THEN PurgeAll ELSE PurgeBelow(min)
  /\ UNCHANGED <<boot, result, streaming>>

--------------------------------------------------------------------------------
\* The position of the group a client at serial @from already has.
FromFound(from) == {i \in DOMAIN deltas : deltas[i].serial = from}

\* vrps_get_deltas_from() answers EAGAIN without a base, ESRCH without a group of
\* serial @from, OK otherwise.
deltas_from_status(from) ==
  CASE base = None -> "EAGAIN"
    [] base # None /\ FromFound(from) = {} -> "ESRCH"
    [] OTHER -> "OK"

\* Mutant of DeltasFrom: @to stays at the serial of the client.
DeltasToFrom(from) ==
  LET k == CHOOSE i \in FromFound(from) : \A j \in FromFound(from) : i <= j
  IN [from |-> from, to |-> from, groups |-> SubSeq(deltas, k + 1, Len(deltas))]

\* The groups after the one of serial @from, and the serial they lead to.
DeltasFrom(from) ==
  LET k == CHOOSE i \in FromFound(from) : \A j \in FromFound(from) : i <= j
  IN [from |-> from, to |-> deltas[Len(deltas)].serial,
      groups |-> SubSeq(deltas, k + 1, Len(deltas))]

\* vrps_get_deltas_from(): the reader gets a shallow copy, a reference to each.
vrps_get_deltas_from(rd, from) ==
  /\ ReadLockFree
  /\ result[rd] = None
  /\ deltas_from_status(from) = "OK"
  /\ result' = [result EXCEPT ![rd] = DeltasFrom(from)]
  /\ refs' = RefGetAll(refs, DeltasFrom(from).groups)
  /\ UNCHANGED <<base, deltas, next_serial, boot, upd, streaming, history>>

\* The deltas_db_cleanup() at the end of handle_serial_query_pdu().
PutDeltas(rd) ==
  /\ result[rd] # None
  /\ result' = [result EXCEPT ![rd] = None]
  /\ refs' = RefPutAll(refs, result[rd].groups)
  /\ UNCHANGED <<base, deltas, next_serial, boot, upd, streaming, history>>

\* vrps_foreach_base() holds the read lock from its first callback to its last.
vrps_foreach_base(rd) ==
  /\ ReadLockFree
  /\ rd \notin streaming
  /\ base # None
  /\ streaming' = streaming \cup {rd}
  /\ UNCHANGED <<base, deltas, next_serial, boot, refs, upd, result, history>>

ForeachBaseEnd(rd) ==
  /\ rd \in streaming
  /\ streaming' = streaming \ {rd}
  /\ UNCHANGED <<base, deltas, next_serial, boot, refs, upd, result, history>>

--------------------------------------------------------------------------------
MinSerials == Serials \cup {None}

VrpsNext ==
  \/ VrpsRestart
  \/ \E new \in SUBSET Records : perform_standalone_validation(new)
  \/ FirstUpdate
  \/ \E min \in MinSerials : ComputeDeltas(min)
  \/ \E min \in MinSerials : PurgeAndPublish(min)
  \/ \E rd \in Readers, from \in Serials : vrps_get_deltas_from(rd, from)
  \/ \E rd \in Readers : PutDeltas(rd)
  \/ \E rd \in Readers : vrps_foreach_base(rd)
  \/ \E rd \in Readers : ForeachBaseEnd(rd)

VrpsSpec == VrpsInit /\ [][VrpsNext]_vrpsVars

--------------------------------------------------------------------------------
UpdType == [pc : {"idle", "validated", "purge"}, new : SUBSET Records,
            deltas : Delta, obj : Objs \cup {NoObj}]
ResultType == [from : Serials, to : Serials, groups : Seq(Group)]

\* The state has the types of struct state and of the locals of its users.
VrpsTypeOK ==
  /\ base \in (SUBSET Records) \cup {None}
  /\ deltas \in Seq(Group)
  /\ next_serial \in 0..(MaxSerial + 1)
  /\ boot \in 0..MaxRestarts
  /\ refs \in [Objs -> Int]
  /\ upd \in UpdType
  /\ result \in [Readers -> ResultType \cup {None}]
  /\ streaming \in SUBSET Readers
  /\ history \in Seq(SUBSET Records)

\* The groups of state.deltas are in strictly ascending order of serial, whatever
\* was purged and whatever failed, and none is ahead of the published serial:
\* vrps_purge() relies on it ("Assume its ordered by serial") and so does the
\* search of vrps_get_deltas_from().
AscendingSerials ==
  /\ \A i, j \in DOMAIN deltas : i < j => deltas[i].serial < deltas[j].serial
  /\ \A i \in DOMAIN deltas :
        \/ deltas[i].serial < next_serial
        \/ upd.pc = "purge" /\ deltas[i].serial = next_serial

\* Every stored group is the exact difference between the database published
\* under its serial and the one before it; only the oldest group may be the
\* placeholder of create_empty_delta().  The group of an update in progress is
\* the difference that update is about to publish.
GroupIsDiff ==
  \A i \in DOMAIN deltas :
    LET g == deltas[i]
    IN \/ i = 1 /\ g.deltas = NoDeltas
       \/ /\ g.serial \in 1..(next_serial - 1)
          /\ IsDiff(g.deltas, Snapshot(g.serial - 1), Snapshot(g.serial))
       \/ /\ upd.pc = "purge"
          /\ g.serial = next_serial
          /\ IsDiff(g.deltas, base, upd.new)

\* Two consecutive serials never name the same database: __vrps_update() discards
\* an update whose deltas are empty, so a new serial always means new data, and
\* the last serial names the base.
SerialMeansChange ==
  /\ Len(history) = next_serial
  /\ \A s \in 1..(next_serial - 1) : Snapshot(s) # Snapshot(s - 1)
  /\ next_serial > 0 => base = Snapshot(next_serial - 1)

\* Where the updater is says what it knows: an update is only begun below the
\* bound, the one between its two questions has a new database, and there is a
\* base as soon as there is a serial.
UpdateSane ==
  /\ upd.pc # "idle" => next_serial <= MaxSerial
  /\ upd.pc = "purge" => base # None /\ upd.new # base
  /\ base = None <=> next_serial = 0

\* All of the above at once: whatever is purged, fails or restarts, each serial
\* stands for one database, each stored group for the step between two of them,
\* in order, and an update in progress knows what it is about to publish.  This
\* is what __vrps_update() keeps from one critical section to the next.
VrpsInv ==
  /\ VrpsTypeOK
  /\ UpdateSane
  /\ AscendingSerials
  /\ SerialMeansChange
  /\ GroupIsDiff

\* Whether a list of groups has one for each serial after @from, up to @to.
Contiguous(res) == Len(res.groups) = res.to - res.from

\* What vrps_get_deltas_from() and the filtering of send_delta_pdus() give a
\* router turns the database of the serial it asked from into the database of the
\* serial it is told, naming each record at most once, announcing only records it
\* lacks and withdrawing only records it has.  (If no delta in between is
\* missing: see RtrServer.)
ServedExact ==
  \A rd \in Readers :
    (result[rd] # None /\ Contiguous(result[rd])) =>
      LET res  == result[rd]
          have == Snapshot(res.from)
          pdus == send_delta_pdus(Records, res.groups)
          net  == filtered_delta(Records, res.groups)
      IN /\ Applied(have, pdus) = Snapshot(res.to)
         /\ pdus.adds \cap have = {}
         /\ pdus.removes \subseteq have
         /\ \A r \in Records : net[r] \in {-1, 0, 1}

\* How many lists hold the object: state.deltas and the copies of the readers.
Holders(o) ==
  Occurrences(deltas, o)
  + Cardinality({x \in Readers \X (1..(MaxSerial + 1)) :
                   /\ result[x[1]] # None
                   /\ x[2] \in DOMAIN result[x[1]].groups
                   /\ result[x[1]].groups[x[2]].obj = o})

\* A struct deltas that is listed, in state.deltas or in the copy of a reader, is
\* referenced at least as many times as it is listed: no list ever holds a group
\* whose deltas were released, however purges, failures and readers interleave.
ListedIsReferenced == \A o \in Objs : Holders(o) > 0 => refs[o] >= Holders(o)

\* A reader iterating the base keeps it: while vrps_foreach_base() runs its
\* callbacks the updater neither replaces the base nor moves the serial, unless
\* the whole process restarts.
BaseStableWhileStreaming ==
  [][(streaming # {} /\ boot' = boot)
       => UNCHANGED <<base, next_serial, deltas>>]_vrpsVars
================================================================================
