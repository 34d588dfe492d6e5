-------------------------------- MODULE Clients --------------------------------
(***************************************************************************)
(* The table of connected RTR clients: clients.c.                          *)
(*                                                                         *)
(* The table is a hash table keyed by file descriptor and protected by a   *)
(* read/write lock of its own.  Every function below is one critical       *)
(* section of that lock, so one step; the caller's next step may find      *)
(* another table.  clients[fd] is None when the table has no such key.     *)
(***************************************************************************)
EXTENDS Integers, FiniteSets

CONSTANTS
  FDs,        \* file descriptors accept() may return
  NoClient,   \* the table has no such client
  Unset       \* serial_number_set or rtr_version_set is false

VARIABLE clients

Known == {fd \in FDs : clients[fd] # NoClient}

ClientsInit == clients = [fd \in FDs |-> NoClient]

\* create_client(): neither a serial nor a version yet.
NewClient == [serial |-> Unset, version |-> Unset]

\* clients_add() replaces whatever entry the descriptor had.
clients_add(fd) == clients' = [clients EXCEPT ![fd] = NewClient]

\* clients_update_serial() does nothing for an unknown descriptor.
clients_update_serial(fd, serial) ==
  clients' = IF fd \in Known THEN [clients EXCEPT ![fd].serial = serial]
                             ELSE clients

\* clients_get_min_serial(): the smallest serial of the clients that have one;
\* @none stands for -ENOENT.
clients_get_min_serial(none) ==
  LET serials == {clients[fd].serial : fd \in Known} \ {Unset}
  IN IF serials = {} THEN none ELSE CHOOSE s \in serials : \A t \in serials : s <= t

\* validate_rtr_version() looks the version of the client up and, when the
\* client has none yet, sets it with clients_set_rtr_version().
rtr_version_ok(fd, version) ==
  /\ fd \in Known
  /\ IF clients[fd].version = Unset THEN version <= 1
                                    ELSE clients[fd].version = version

clients_set_rtr_version(fd, version) ==
  clients' = IF clients[fd].version = Unset
             THEN [clients EXCEPT ![fd].version = version]
             ELSE clients

\* clients_forget() deletes the entry of the descriptor, whoever added it.
clients_forget(fd) == clients' = [clients EXCEPT ![fd] = NoClient]
================================================================================
