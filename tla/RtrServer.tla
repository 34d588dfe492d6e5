------------------------------- MODULE RtrServer -------------------------------
(***************************************************************************)
(* The RTR server: the database (Vrps), the clients table (Clients), the   *)
(* updater thread (updates_daemon.c, notify.c), the accept loop and one    *)
(* thread per connection (rtr/rtr.c) that loads PDUs (rtr/pdu.c), handles  *)
(* them (rtr/pdu_handler.c) and sends the response (rtr/pdu_sender.c).     *)
(*                                                                         *)
(* Routers are the environment.  A router keeps its records and its serial *)
(* across connections; thread[r] is the server thread of its connection.   *)
(***************************************************************************)
EXTENDS Vrps, Clients

CONSTANTS
  RouterKeys,  \* the records an RTRv0 session cannot carry
  Versions     \* the protocol versions routers speak

ASSUME RouterKeysAssumption == RouterKeys \subseteq Records
ASSUME VersionsAssumption == Versions \subseteq {0, 1}
ASSUME UnsetAssumption == Unset \notin Nat /\ NoClient # NewClient

VARIABLES
  phase,    \* "starting", "running" (listening), "stopped"
  changed,  \* the updater owes the clients a notification
  thread,   \* the connection threads
  router    \* auxiliary: what the routers hold

serverVars == <<phase, changed, thread, router>>
vars == <<vrpsVars, clients, serverVars>>

Routers == Readers
NoFd == Unset

--------------------------------------------------------------------------------
\* A thread that does not exist, and a router that knows nothing.
Off == [pc |-> "off", fd |-> NoFd, version |-> Unset, serial |-> Unset,
        sent |-> {}, sound |-> FALSE]
Blank == [session |-> Unset, version |-> Unset, serial |-> Unset,
          data |-> {}, sound |-> FALSE]

Init ==
  /\ VrpsInit
  /\ ClientsInit
  /\ phase = "starting"
  /\ changed = FALSE
  /\ thread = [r \in Routers |-> Off]
  /\ router = [r \in Routers |-> Blank]

Goto(r, pc) == thread' = [thread EXCEPT ![r].pc = pc]

\* The handler returns, or hands over to pc: its locals are gone, except the serial
\* that clients_update_serial() still needs.
Return(r, pc) ==
  thread' = [thread EXCEPT
    ![r].pc = pc, ![r].sent = {}, ![r].sound = FALSE,
    ![r].serial = IF pc \in {"update", "lost"} THEN @ ELSE Unset]

\* The descriptors some thread has open.  close() precedes clients_forget(), so a
\* thread in "forget" does not have its descriptor any more.
OpenFds == {thread[r].fd : r \in {q \in Routers : thread[q].pc \notin {"off", "forget"}}}

\* The records a session of that version can carry: send_router_key_pdu() sends
\* nothing on RTRv0.
Carried(version, records) == IF version = 0 THEN records \ RouterKeys ELSE records

--------------------------------------------------------------------------------
(***************************************************************************)
(* The updater: updates_daemon_start() and check_vrps_updates().           *)
(***************************************************************************)

\* A validation cycle starts once the previous one is over, notification
\* included.
Validate ==
  /\ phase # "stopped"
  /\ ~changed
  /\ \E new \in SUBSET Records : perform_standalone_validation(new)
  /\ UNCHANGED <<clients, serverVars>>

\* The first cycle must succeed for the server to listen; a later one that fails
\* is tried again after the validation interval.
FirstValidationFails ==
  /\ MayFail
  /\ phase = "starting"
  /\ upd.pc = "idle"
  /\ phase' = "stopped"
  /\ UNCHANGED <<vrpsVars, clients, changed, thread, router>>

\* __vrps_update() without a base.  updates_daemon_start() does not notify.
UpdateFirst ==
  /\ FirstUpdate
  /\ LET published == next_serial' # next_serial
     IN /\ phase' = IF phase = "running" THEN "running"
                    ELSE IF published \/ upd.new = {} THEN "running" ELSE "stopped"
        /\ changed' = (published /\ phase = "running")
  /\ UNCHANGED <<clients, thread, router>>

UpdateCompute ==
  /\ ComputeDeltas(clients_get_min_serial(None))
  /\ UNCHANGED <<clients, serverVars>>

UpdatePurge ==
  /\ PurgeAndPublish(clients_get_min_serial(None))
  /\ changed' = (next_serial' # next_serial)
  /\ UNCHANGED <<clients, phase, thread, router>>

\* The routers notify_clients() reaches: clients_foreach() writes a Serial Notify
\* to every descriptor in the table.
Notified == {r \in Routers : thread[r].fd \in OpenFds \cap Known}

notify_clients ==
  /\ changed
  /\ changed' = FALSE
  /\ UNCHANGED <<vrpsVars, clients, phase, thread, router>>

--------------------------------------------------------------------------------
(***************************************************************************)
(* Connections: handle_client_connections() and client_thread_cb().        *)
(***************************************************************************)

\* accept() returns the lowest descriptor that is free; a router speaks one
\* version per connection.
Accept(r) ==
  LET free == FDs \ OpenFds
  IN /\ phase = "running"
     /\ thread[r].pc = "off"
     /\ free # {}
     /\ \E v \in Versions :
          thread' = [thread EXCEPT
            ![r] = [Off EXCEPT !.pc = "accepted", !.version = v,
                               !.fd = CHOOSE f \in free : \A g \in free : f <= g]]
     /\ UNCHANGED <<vrpsVars, clients, phase, changed, router>>

ClientAdd(r) ==
  /\ thread[r].pc = "accepted"
  /\ \/ clients_add(thread[r].fd) /\ Goto(r, "loop")
     \/ /\ MayFail
        /\ thread' = [thread EXCEPT ![r] = Off]
        /\ UNCHANGED clients
  /\ UNCHANGED <<vrpsVars, phase, changed, router>>

\* The router went away, so the next read fails.
ReadError(r) ==
  /\ thread[r].pc = "loop"
  /\ Goto(r, "close")
  /\ UNCHANGED <<vrpsVars, clients, phase, changed, router>>

\* Mutant of EndClient: the thread ends without clients_forget().
EndWithoutForget(r) ==
  /\ thread[r].pc = "close"
  /\ thread' = [thread EXCEPT ![r] = Off]
  /\ UNCHANGED <<vrpsVars, clients, phase, changed, router>>

\* end_client() gives the descriptor back ...
EndClient(r) ==
  /\ thread[r].pc = "close"
  /\ thread' = [thread EXCEPT ![r] = [Off EXCEPT !.pc = "forget",
                                                 !.fd = thread[r].fd]]
  /\ UNCHANGED <<vrpsVars, clients, phase, changed, router>>

\* ... and then clients_forget() removes whatever entry the descriptor has.
ClientForget(r) ==
  /\ thread[r].pc = "forget"
  /\ clients_forget(thread[r].fd)
  /\ thread' = [thread EXCEPT ![r] = Off]
  /\ UNCHANGED <<vrpsVars, phase, changed, router>>

--------------------------------------------------------------------------------
(***************************************************************************)
(* Requests: pdu_load(), handle_serial_query_pdu() and                     *)
(* handle_reset_query_pdu().                                               *)
(***************************************************************************)

\* pdu_load() and the choice of a handler.  A router sends a Serial Query if it
\* has a serial of that version; PDUs of other types, versions or lengths end the
\* connection.
PduLoad(r, type) ==
  LET fd == thread[r].fd
  IN /\ thread[r].pc = "loop"
     /\ type = "serial" => router[r].version = thread[r].version
     /\ IF rtr_version_ok(fd, thread[r].version)
        THEN /\ clients_set_rtr_version(fd, thread[r].version)
             /\ Goto(r, IF type = "invalid" THEN "close" ELSE type)
        ELSE Goto(r, "close") /\ UNCHANGED clients
     /\ UNCHANGED <<vrpsVars, phase, changed, router>>

\* The session of the query is not ours: Error Report "Corrupt Data", and the
\* router starts over.
SessionMismatch(r) ==
  /\ thread[r].pc = "serial"
  /\ router[r].session # get_current_session_id(thread[r].version)
  /\ Goto(r, "close")
  /\ router' = [router EXCEPT ![r] = Blank]
  /\ UNCHANGED <<vrpsVars, clients, phase, changed>>

SessionMatch(r) ==
  /\ thread[r].pc = "serial"
  /\ router[r].session = get_current_session_id(thread[r].version)

\* Mutant of SerialQuery: the table learns the serial before the router does.
SerialQueryEarlyUpdate(r) ==
  /\ SessionMatch(r)
  /\ vrps_get_deltas_from(r, router[r].serial)
  /\ LET res == DeltasFrom(router[r].serial)
     IN /\ thread' = [thread EXCEPT ![r].pc = "eod", ![r].serial = res.to,
                                    ![r].sound = Contiguous(res)]
        /\ clients_update_serial(thread[r].fd, res.to)
  /\ UNCHANGED <<phase, changed, router>>

\* Deltas found: Cache Response and the filtered deltas, End of Data to come.
SerialQuery(r) ==
  /\ SessionMatch(r)
  /\ vrps_get_deltas_from(r, router[r].serial)
  /\ LET res == DeltasFrom(router[r].serial)
     IN thread' = [thread EXCEPT ![r].pc = "eod", ![r].serial = res.to,
                                 ![r].sound = Contiguous(res)]
  /\ UNCHANGED <<clients, phase, changed, router>>

\* -ENOMEM while the groups are copied.
SerialQueryFails(r) ==
  /\ SessionMatch(r)
  /\ MayFail
  /\ ReadLockFree
  /\ deltas_from_status(router[r].serial) = "OK"
  /\ Goto(r, "close")
  /\ UNCHANGED <<vrpsVars, clients, phase, changed, router>>

\* Mutant of CacheReset: the wrong error code is handled.
CacheResetWrongError(r) ==
  /\ SessionMatch(r)
  /\ ReadLockFree
  /\ deltas_from_status(router[r].serial) = "EAGAIN"
  /\ Goto(r, "loop")
  /\ router' = [router EXCEPT ![r] = Blank]
  /\ UNCHANGED <<vrpsVars, clients, phase, changed>>

\* -ESRCH: Cache Reset, and the router will ask for everything.
CacheReset(r) ==
  /\ SessionMatch(r)
  /\ ReadLockFree
  /\ deltas_from_status(router[r].serial) = "ESRCH"
  /\ Goto(r, "loop")
  /\ router' = [router EXCEPT ![r] = Blank]
  /\ UNCHANGED <<vrpsVars, clients, phase, changed>>

\* -EAGAIN in either handler: No Data Available, the connection stays.
NoDataAvailable(r) ==
  /\ SessionMatch(r) \/ thread[r].pc = "reset"
  /\ ReadLockFree
  /\ base = None
  /\ Goto(r, "loop")
  /\ UNCHANGED <<vrpsVars, clients, phase, changed, router>>

\* Mutants of ResetQuery: the serial is one too high, or one too low.
ResetQueryAhead(r) ==
  /\ thread[r].pc = "reset"
  /\ ReadLockFree
  /\ base # None
  /\ thread' = [thread EXCEPT ![r].pc = "base", ![r].serial = next_serial]
  /\ UNCHANGED <<vrpsVars, clients, phase, changed, router>>
ResetQueryBehind(r) ==
  /\ thread[r].pc = "reset"
  /\ ReadLockFree
  /\ base # None
  /\ thread' = [thread EXCEPT ![r].pc = "base", ![r].serial = next_serial - 2]
  /\ UNCHANGED <<vrpsVars, clients, phase, changed, router>>

\* handle_reset_query_pdu() reads the serial in one critical section ...
ResetQuery(r) ==
  /\ thread[r].pc = "reset"
  /\ ReadLockFree
  /\ base # None
  /\ thread' = [thread EXCEPT ![r].pc = "base", ![r].serial = next_serial - 1]
  /\ UNCHANGED <<vrpsVars, clients, phase, changed, router>>

\* ... and sends the base in another, which lasts as long as the writes.
StreamBase(r) ==
  /\ thread[r].pc = "base"
  /\ vrps_foreach_base(r)
  /\ thread' = [thread EXCEPT ![r].pc = "stream", ![r].sent = base,
                              ![r].sound = (thread[r].serial = next_serial - 1)]
  /\ UNCHANGED <<clients, phase, changed, router>>

\* A write that fails ends the connection.
StreamEnd(r) ==
  /\ thread[r].pc = "stream"
  /\ ForeachBaseEnd(r)
  /\ \/ Goto(r, "eod")
     \/ Return(r, "close")
  /\ UNCHANGED <<clients, phase, changed, router>>

--------------------------------------------------------------------------------
(***************************************************************************)
(* send_end_of_data_pdu(): the write, then clients_update_serial().        *)
(***************************************************************************)

\* What the router holds once it received the whole response.  Its records are
\* followed as long as the responses were sound.
Received(r) ==
  LET v == thread[r].version
      d == send_delta_pdus(Records, result[r].groups)
      sound == thread[r].sound /\ (result[r] = None \/ router[r].sound)
  IN [session |-> get_current_session_id(v),
      version |-> v,
      serial  |-> thread[r].serial,
      data    |-> IF ~sound THEN {}
                  ELSE IF result[r] = None THEN Carried(v, thread[r].sent)
                  ELSE Applied(router[r].data, [adds |-> Carried(v, d.adds),
                                                removes |-> Carried(v, d.removes)]),
      sound   |-> sound]

\* The write succeeds and the router receives the response.
EndOfData(r) ==
  /\ thread[r].pc = "eod"
  /\ Return(r, "update")
  /\ router' = [router EXCEPT ![r] = Received(r)]
  /\ UNCHANGED <<vrpsVars, clients, phase, changed>>

\* The write succeeds but the router went away: nothing arrives, and the next
\* read will fail.
EndOfDataLost(r) ==
  /\ thread[r].pc = "eod"
  /\ Return(r, "lost")
  /\ UNCHANGED <<vrpsVars, clients, phase, changed, router>>

\* Mutant of CleanUp: the copies are dropped without deltas_refput().
CleanUpWithoutPut(r) ==
  /\ result' = [result EXCEPT ![r] = None]
  /\ UNCHANGED <<base, deltas, next_serial, boot, refs, upd, streaming, history>>

\* The deltas a Serial Query obtained are released when the handler returns.
CleanUp(r) == IF result[r] # None THEN PutDeltas(r) ELSE UNCHANGED vrpsVars

WriteError(r) ==
  /\ thread[r].pc = "eod"
  /\ CleanUp(r)
  /\ Return(r, "close")
  /\ UNCHANGED <<clients, phase, changed, router>>

UpdateSerial(r) ==
  /\ thread[r].pc \in {"update", "lost"}
  /\ clients_update_serial(thread[r].fd, thread[r].serial)
  /\ CleanUp(r)
  /\ Return(r, IF thread[r].pc = "lost" THEN "close" ELSE "loop")
  /\ UNCHANGED <<phase, changed, router>>

--------------------------------------------------------------------------------
\* The process dies and starts again; the routers keep what they have.
Restart ==
  /\ VrpsRestart
  /\ clients' = [fd \in FDs |-> NoClient]
  /\ phase' = "starting"
  /\ changed' = FALSE
  /\ thread' = [r \in Routers |-> Off]
  /\ UNCHANGED router

RequestTypes == {"serial", "reset", "invalid"}

\* What a connection's thread does by itself once it has work.
ThreadStep(r) ==
  \/ ClientAdd(r) \/ EndClient(r) \/ ClientForget(r)
  \/ SessionMismatch(r) \/ SerialQuery(r) \/ SerialQueryFails(r)
  \/ CacheReset(r) \/ NoDataAvailable(r)
  \/ ResetQuery(r) \/ StreamBase(r) \/ StreamEnd(r)
  \/ EndOfData(r) \/ EndOfDataLost(r) \/ WriteError(r) \/ UpdateSerial(r)

\* What the router at the other end makes it do.
RouterStep(r) ==
  \/ Accept(r) \/ ReadError(r)
  \/ \E type \in RequestTypes : PduLoad(r, type)

UpdaterStep == UpdateFirst \/ UpdateCompute \/ UpdatePurge \/ notify_clients

Next ==
  \/ Restart
  \/ Validate \/ FirstValidationFails \/ UpdaterStep
  \/ \E r \in Routers : ThreadStep(r) \/ RouterStep(r)

Spec == Init /\ [][Next]_vars

\* The operating system runs every thread that can run, and writes to sockets
\* either complete or fail.  The fairness of the threads is strong because of
\* state_lock: updates may fail forever, but the updater sleeps between two of them
\* without the lock, and who waits for it in the meantime gets it.  Nothing is
\* assumed of the routers, nor that a validation ever starts.
Fairness == WF_vars(UpdaterStep) /\ \A r \in Routers : SF_vars(ThreadStep(r))

FairSpec == Spec /\ Fairness

--------------------------------------------------------------------------------
Serial == Serials \cup {Unset}
Version == Versions \cup {Unset}
ClientType == [serial : Serial, version : Version]
ThreadType == [pc : {"off", "accepted", "loop", "serial", "reset", "base", "stream",
                     "eod", "update", "lost", "close", "forget"},
               fd : FDs \cup {NoFd}, version : Version, serial : Serial,
               sent : SUBSET Records, sound : BOOLEAN]
RouterType == [session : 0..65535 \cup {Unset}, version : Version, serial : Serial,
               data : SUBSET Records, sound : BOOLEAN]

\* The variables of the server, of the clients table and of the routers have
\* their types.
TypeOK ==
  /\ VrpsTypeOK
  /\ clients \in [FDs -> ClientType \cup {NoClient}]
  /\ phase \in {"starting", "running", "stopped"}
  /\ changed \in BOOLEAN
  /\ thread \in [Routers -> ThreadType]
  /\ router \in [Routers -> RouterType]

\* A router of the current session holds exactly the database published under
\* the serial it was told, as far as its version can carry it, provided that all
\* responses since its last reset were sound: the base and the serial of the
\* reset belong together, and no delta was missing from the list.  Purges, other
\* clients, lost connections, filtering and restarts never make it diverge.
RouterExact ==
  \A r \in Routers :
    LET x == router[r]
    IN (x.sound /\ x.session = get_current_session_id(x.version)) =>
         /\ x.serial < next_serial
         /\ x.data = {k \in Snapshot(x.serial) : x.version = 1 \/ k \notin RouterKeys}

\* The base sent in answer to a Reset Query is never older than the serial its
\* End of Data carries, whatever the updater does between the two critical
\* sections of handle_reset_query_pdu().
ResetNeverOlder ==
  \A r \in Routers :
    (thread[r].pc \in {"stream", "eod"} /\ result[r] = None) =>
      \E s \in thread[r].serial..(next_serial - 1) : thread[r].sent = Snapshot(s)

\* The serial the clients table has for a connected router is never ahead of the
\* router's own: the deltas vrps_purge() drops as unneeded are not the ones the
\* router will ask for.
TableNotAhead ==
  \A r \in Routers :
    LET fd == thread[r].fd
    IN (/\ thread[r].pc \notin {"off", "accepted", "close", "forget"}
        /\ fd \in Known
        /\ clients[fd].serial # Unset
        /\ router[r].serial # Unset)
         => clients[fd].serial <= router[r].serial

\* Every entry of the clients table belongs to a thread that will still remove
\* it: no dead client holds deltas back forever, even when descriptors are reused.
NoOrphanEntry ==
  \A fd \in Known : \E r \in Routers : thread[r].fd = fd

\* Every Serial Query and Reset Query the server takes is answered or the
\* connection ends: the handlers never wait for each other, for the updater and
\* for the clients table in a circle.
RequestsAnswered ==
  \A r \in Routers :
    thread[r].pc \in {"serial", "reset"} ~> thread[r].pc \in {"loop", "close", "off"}

\* The newest group is older than the published serial.
ListBehind == deltas # <<>> /\ deltas[Len(deltas)].serial < next_serial - 1

\* A router that completes synchronizations forever ends up at the last serial of
\* the server and never settles for an older one, no matter which deltas were purged
\* before it asked and which updates failed; unless an update left the list of
\* deltas behind its serial.  (A Cache Reset makes it start over.)
Converges ==
  \A r \in Routers :
    []<>(thread[r].pc = "update") =>
      \/ <>[](router[r].serial \in {Unset, next_serial - 1})
      \/ <>ListBehind

--------------------------------------------------------------------------------
(***************************************************************************)
(* What comments, tests and documents of the repository say, and the code  *)
(* does not do in every interleaving.                                      *)
(***************************************************************************)

\* "If there are any updates at the VRPs, FORT will notify the routers so that they
\* can request the updates" (docs/routers.md): when the Serial Notify is due, every
\* router being served has the entry in the clients table that it is sent to.
ServedAreNotified ==
  changed => {r \in Routers : thread[r].pc \in {"loop", "serial", "reset", "base",
                                                "stream", "eod", "update"}} \subseteq Notified

\* "Just store deltas if someone will care about it" (rtr/db/vrps.c): a client
\* that gets deltas gets those of every serial after its own.
NoMissingDelta ==
  \A r \in Routers : result[r] # None => Contiguous(result[r])
================================================================================
