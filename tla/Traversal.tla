------------------------------- MODULE Traversal -------------------------------
(***************************************************************************)
(* The thread of one TAL: do_file_validation() and handle_tal_uri() of     *)
(* tal.c, certificate_traverse() and use_access_method() of certificate.c, *)
(* rpp_traverse() of rpp.c, over the certificate stack, the rsync          *)
(* downloads and the table of request errors.                              *)
(*                                                                         *)
(* The tree of certificates is given; which certificates and manifests are *)
(* accepted, which requests succeed and which manifests the servers hold is*)
(* chosen as the thread goes, so that all trees of failures are covered.   *)
(* There is one action per request and per decision between requests.      *)
(* Manifests are named by their certificates.  The RRDP loader is reduced  *)
(* to its results; Rrdp models it.                                         *)
(***************************************************************************)
EXTENDS CertStack, Rsync, FiniteSets

CONSTANTS
  Certs,        \* the certificates of the tree
  Root,         \* the trust anchor's
  Children,     \* [Certs -> sequences of the certificates its manifest lists]
  Routers,      \* the BGPsec router certificates
  CertUri,      \* [Certs -> rsync URI of the certificate]
  Aia,          \* [Certs -> rsync URI of the issuer, as the certificate says]
  Repository,   \* [Certs -> rsync URI of its publication point]
  Notify,       \* [Certs -> RRDP notification URI, or NULL]
  Holds,        \* [notification URIs -> certificates whose manifests it has]
  RrdpFirst,    \* certificates for which RRDP has the priority
  TalUris,      \* sequence of the URIs of the TAL, as tal_order_uris() leaves it
  MaxDepth,     \* --maximum-certificate-depth
  MaxMissing,   \* bound: manifests a request may fail to deliver
  MaxCycles     \* bound: validation cycles

VARIABLES
  tal,        \* locals of do_file_validation() and handle_tal_uri()
  cert,       \* locals of certificate_traverse() and use_access_method()
  stack,      \* the certificate stack
  visited,    \* the rsync URIs of this validation
  retries,    \* local of do_rsync(), 0 outside
  status,     \* RRDP: request status of each notification URI
  workspace,  \* RRDP: current_workspace is set
  working,    \* the working repository: uri, level
  errors,     \* the table of request errors
  disk,       \* [tree -> certificates whose manifest is there]
  enabled,    \* the access methods that the configuration enables
  hist        \* history

vars == <<tal, cert, stack, visited, retries, status, workspace, working, errors, disk,
          enabled, hist>>

Trees == {"rsync", "rrdp"}

Notifications == DOMAIN Holds

Elements(seq) == {seq[i] : i \in DOMAIN seq}

Parent(c) == CHOOSE p \in Certs : c \in Elements(Children[p])

(* The issuers of c up to the trust anchor, nearest first. *)
RECURSIVE AncestorsOf(_)
AncestorsOf(c) == IF c = Root THEN <<>> ELSE <<Parent(c)>> \o AncestorsOf(Parent(c))

None == [pc |-> "none"]

(* What is remembered of a cycle: the certificates handled, in order; those
   whose manifest was accepted; whether a router certificate displaced the
   stack; the failed URIs and whether one was requested again.              *)
NoHistory(cycle) ==
  [cycle |-> cycle, handled |-> <<>>, accepted |-> {}, displaced |-> FALSE,
   failed |-> {}, again |-> FALSE]

Init ==
  /\ tal = [pc |-> "idle", uri |-> 0, sync_files |-> TRUE, retry_local |-> TRUE, exit |-> "0"]
  /\ cert = None
  /\ stack = certstack_create
  /\ visited = {} /\ retries = 0
  /\ status = [n \in Notifications |-> "NOTFOUND"]
  /\ workspace = FALSE
  /\ working = [uri |-> NULL, level |-> 0]
  /\ errors = NoErrors
  /\ disk = [t \in Trees |-> {}]
  /\ enabled \in {{"rsync", "http"}, {"rsync"}, {"http"}}
  /\ hist = NoHistory(0)

--------------------------------------------------------------------------------
(***************************************************************************)
(* Requests.  Whatever its result, a request leaves the manifests that the *)
(* server may hold, but for any MaxMissing of them.                        *)
(***************************************************************************)
Under(uri) ==
  {c \in Certs \ Routers : /\ Len(uri) <= Len(Repository[c])
                           /\ uri = SubSeq(Repository[c], 1, Len(uri))}

Copies(mfts) == {held \in SUBSET mfts : Cardinality(mfts \ held) <= MaxMissing}

(* download_files() with the list of visited URIs vis, once do_rsync() does not
   retry any more.                                                             *)
Download(uri, is_ta, force, vis) ==
  IF "rsync" \in enabled
  THEN download_files(uri, is_ta, force, vis, errors, working.uri, retries)
  ELSE {[error |-> "0", requested |-> NULL, visited |-> vis, errors |-> errors]}

(* It returned d. *)
Held(d) ==
  IF d.requested = NULL THEN {disk["rsync"]}
  ELSE {(disk["rsync"] \ Under(d.requested)) \cup held : held \in Copies(Under(d.requested))}

Recorded(d) ==
  IF d.requested = NULL THEN hist
  ELSE [hist EXCEPT !.again = @ \/ \E f \in hist.failed : is_descendant(f, d.requested),
                    !.failed = IF d.error = "EREQFAILED" THEN @ \cup {d.requested} ELSE @]

Downloaded(d) ==
  /\ visited' = d.visited
  /\ \E held \in Held(d) : disk' = [disk EXCEPT !["rsync"] = held]

--------------------------------------------------------------------------------
(***************************************************************************)
(* do_file_validation() and handle_tal_uri(): the URIs of the TAL in turn, *)
(* first with requests, then, if none of them answered, from the files of  *)
(* earlier cycles.                                                         *)
(***************************************************************************)
Exit(code) == [tal EXCEPT !.pc = "idle", !.exit = code]

(* tal_load() and tal_order_uris() may fail, which ends the thread. *)
StartCycle ==
  /\ tal.pc = "idle"
  /\ hist.cycle < MaxCycles
  /\ \/ tal' = [pc |-> "uri", uri |-> 1, sync_files |-> TRUE, retry_local |-> TRUE, exit |-> "EINTR"]
     \/ tal' = Exit("EINVAL")
  /\ working' = [uri |-> NULL, level |-> 0]
  /\ hist' = NoHistory(hist.cycle + 1)
  /\ UNCHANGED <<cert, stack, visited, retries, status, workspace, errors, disk, enabled>>

(* handle_tal_uri() returned 0: the next URI, or the end of the pass. *)
NextUri ==
  IF tal.uri < Len(TalUris) THEN [tal EXCEPT !.pc = "uri", !.uri = @ + 1]
  ELSE IF tal.sync_files /\ tal.retry_local
  THEN [tal EXCEPT !.pc = "uri", !.uri = 1, !.sync_files = FALSE]
  ELSE Exit("EINVAL")

PushUri == IF tal.sync_files THEN [working EXCEPT !.uri = TalUris[tal.uri]] ELSE working

(* The access method is disabled, the server does not answer, or there is no
   local file.                                                              *)
TalUriSkipped ==
  /\ tal' = NextUri
  /\ working' = PushUri
  /\ visited' = {}
  /\ UNCHANGED <<cert, stack, status, workspace, enabled, hist>>

(* The root certificate is there: the errors of the URIs before it are
   forgotten and all RRDP URIs become unvisited.                            *)
TalUriFetched(errs) ==
  /\ tal' = [tal EXCEPT !.pc = "root", !.retry_local = FALSE]
  /\ errors' = IF tal.sync_files /\ working.uri # NULL
               THEN reqs_errors_rem_uri(errs, working.uri) ELSE errs
  /\ working' = [uri |-> NULL, level |-> 0]
  /\ stack' = certstack_create
  /\ status' = [n \in Notifications |->
                  IF status[n] = "NOTFOUND" THEN "NOTFOUND" ELSE "UNVISITED"]
  /\ cert' = [pc |-> "check", cert |-> Root, pp |-> NULL]
  /\ hist' = [hist EXCEPT !.handled = <<>>, !.accepted = {}, !.failed = {}]
  /\ UNCHANGED <<workspace, enabled>>

TalUriRsync ==
  /\ tal.pc = "uri" /\ tal.sync_files /\ uri_is_rsync(TalUris[tal.uri])
  /\ IF "rsync" \notin enabled THEN TalUriSkipped /\ UNCHANGED <<errors, disk>>
     ELSE \E d \in Download(TalUris[tal.uri], TRUE, FALSE, {}) :
            /\ disk' = disk
            /\ IF d.error = "0" THEN TalUriFetched(d.errors) /\ visited' = d.visited
                                ELSE TalUriSkipped /\ errors' = d.errors
  /\ retries' = 0

TalUriHttps ==
  /\ tal.pc = "uri" /\ tal.sync_files /\ ~uri_is_rsync(TalUris[tal.uri])
  /\ \/ TalUriSkipped /\ errors' = errors
     \/ "http" \in enabled /\ TalUriFetched(errors) /\ visited' = {}
  /\ UNCHANGED <<disk, retries>>

TalUriLocal ==
  /\ tal.pc = "uri" /\ ~tal.sync_files
  /\ \/ TalUriSkipped /\ errors' = errors
     \/ TalUriFetched(errors) /\ visited' = {}
  /\ UNCHANGED <<disk, retries>>

(* The loop over the deferred certificates; a separator ends the children of
   the certificate on top of the stack.                                     *)
Defer ==
  /\ tal.pc = "defer" /\ cert = None
  /\ \/ /\ deferstack_is_empty(stack)
        /\ tal' = Exit("0")
        /\ visited' = {}
        /\ UNCHANGED <<cert, stack>>
     \/ /\ AtSeparator(stack)
        /\ IF PopSeparator(stack) = Crit
           THEN tal' = [tal EXCEPT !.pc = "crit"] /\ stack' = stack
           ELSE tal' = tal /\ stack' = PopSeparator(stack)
        /\ UNCHANGED <<cert, visited>>
     \/ /\ ~deferstack_is_empty(stack) /\ ~AtSeparator(stack)
        /\ LET popped == deferstack_pop(stack)
           IN /\ stack' = popped.stack
              /\ cert' = [pc |-> "check"] @@ popped.deferred
        /\ UNCHANGED <<tal, visited>>
  /\ UNCHANGED <<retries, status, workspace, working, errors, disk, enabled, hist>>

--------------------------------------------------------------------------------
(***************************************************************************)
(* certificate_traverse(), up to the access method.                        *)
(***************************************************************************)
Cert == cert.cert

(* It returns error; key is the state of the TAL's public key if this is the
   root.                                                                    *)
Return(error, key) ==
  /\ cert' = None
  /\ tal' = IF Cert # Root THEN tal
            ELSE IF error = "0" THEN [tal EXCEPT !.pc = "defer"]
            ELSE IF key = "INVALID" THEN NextUri
            ELSE Exit("EINVAL")
  /\ working' = IF Cert = Root /\ error # "0" /\ key = "INVALID" THEN PushUri ELSE working

(* Every issuer must be on the stack, or the chain is not valid. *)
ChainIsTrusted == Elements(AncestorsOf(Cert)) \subseteq Elements(stack.x509s)

(* The depth, CRL, file, chain, profile or extensions are not acceptable. *)
Reject ==
  /\ cert.pc = "check" /\ retries = 0
  /\ \E key \in IF Cert = Root THEN {"UNTESTED", "INVALID", "VALID"} ELSE {"VALID"} :
       Return("EINVAL", key)
  /\ hist' = [hist EXCEPT !.handled = Append(@, Cert)]
  /\ UNCHANGED <<stack, visited, retries, status, workspace, errors, disk, enabled>>

Acceptable == cert.pc = "check" /\ Len(stack.x509s) < MaxDepth /\ ChainIsTrusted

AiaDiffers ==
  Cert # Root /\ Len(stack.x509s) # 1 /\ Aia[Cert] # CertUri[Head(stack.metas)]

(* force_aia_validation(): fetch the issuer that the certificate names. *)
ForceAia ==
  /\ Acceptable /\ AiaDiffers
  /\ \E d \in Download(Aia[Cert], FALSE, TRUE, visited) :
       /\ Downloaded(d) /\ errors' = d.errors
       /\ \/ /\ cert' = [cert EXCEPT !.pc = "aia"]
             /\ d.error \in {"0", "EREQFAILED"}
             /\ hist' = Recorded(d)
             /\ UNCHANGED <<tal, working>>
          \/ /\ Return("EINVAL", "VALID")
             /\ hist' = [Recorded(d) EXCEPT !.handled = Append(@, Cert)]
  /\ retries' = 0
  /\ UNCHANGED <<stack, status, workspace, enabled>>

Passed == (Acceptable /\ ~AiaDiffers) \/ cert.pc = "aia"

(* A router certificate: its keys are stored and the stack is cancelled, though
   nothing was pushed for it.                                               *)
RouterCertificate ==
  /\ Passed /\ Cert \in Routers
  /\ stack' = x509stack_cancel(stack)
  /\ Return("0", "VALID")
  /\ hist' = [hist EXCEPT !.handled = Append(@, Cert), !.accepted = @ \cup {Cert},
                          !.displaced = @ \/ Head(stack.defers) # Separator]
  /\ UNCHANGED <<visited, retries, status, workspace, errors, disk, enabled>>

Server(uri) == SubSeq(uri, 1, 2)

(* set_repository_level() *)
RepositoryLevel ==
  /\ Passed /\ Cert \notin Routers
  /\ LET update == Cert # Root /\ Server(CertUri[Cert]) # Server(Repository[Cert])
     IN /\ cert' = [cert EXCEPT !.pc = "access"] @@ [new_level |-> update]
        /\ IF Cert = Root THEN working' = [working EXCEPT !.level = 0]
           ELSE \E level \in x509stack_peek_level(stack, {0, 1}) :
                  working' = [working EXCEPT !.level = IF update THEN level + 1 ELSE level]
  /\ hist' = [hist EXCEPT !.handled = Append(@, Cert)]
  /\ UNCHANGED <<tal, stack, visited, retries, status, workspace, errors, disk, enabled>>

--------------------------------------------------------------------------------
(***************************************************************************)
(* use_access_method(): exec_rsync_method() and exec_rrdp_method() in the  *)
(* order of their priorities.                                              *)
(***************************************************************************)
(* The manifest is in the workspace, which was not requested for it. *)
UseWorkspace ==
  /\ cert' = [cert EXCEPT !.pc = "push"] @@ [retry |-> FALSE, tree |-> "rrdp"]
  /\ UNCHANGED <<tal, stack, visited, retries, status, working, errors, disk, enabled, hist>>

ReuseWorkspace ==
  ~cert.new_level /\ workspace /\ Notify[Cert] = NULL /\ Cert \in disk["rrdp"]

AlreadyVisited == Notify[Cert] # NULL /\ status[Notify[Cert]] = "VISITED"

SameWorkspace ==
  /\ cert.pc = "access" /\ ReuseWorkspace
  /\ UseWorkspace
  /\ UNCHANGED workspace

VisitedNotification ==
  /\ cert.pc = "access" /\ AlreadyVisited
  /\ UseWorkspace
  /\ workspace' = TRUE

primary_rrdp == Notify[Cert] # NULL /\ Cert \in RrdpFirst

Methods ==
  IF Notify[Cert] = NULL THEN <<"rsync">>
  ELSE IF primary_rrdp THEN <<"rrdp", "rsync">>
  ELSE <<"rsync", "rrdp">>

ChooseMethods ==
  /\ cert.pc = "access" /\ ~ReuseWorkspace /\ ~AlreadyVisited
  /\ cert' = [cert EXCEPT !.pc = "fetch"] @@ [methods |-> Methods]
  /\ UNCHANGED <<tal, stack, visited, retries, status, workspace, working, errors, disk, enabled, hist>>

(* __rrdp_load(), reduced to what it leaves: r has the request status, the rsync
   and error tables and the manifests of the workspace.                     *)
rrdp_load(r, force) ==
  LET n == Notify[Cert]
      Files == {(r.held \ Holds[n]) \cup h : h \in Copies(Holds[n])}
      Ok(held, updated) ==
        [r EXCEPT !.error = "0", !.updated = updated, !.status = "VISITED", !.held = held,
                  !.errors = reqs_errors_rem_uri(@, n)]
  IN IF "http" \notin enabled THEN {[r EXCEPT !.error = "0", !.updated = TRUE]}
     ELSE IF ~force /\ r.status = "ERROR" THEN {[r EXCEPT !.error = "EPERM"]}
     ELSE {Ok(held, TRUE) : held \in Files}
          \cup (IF r.status = "UNVISITED" THEN {Ok(r.held, FALSE)} ELSE {})
          \cup {[r EXCEPT !.error = "EREQFAILED", !.status = "ERROR", !.held = held,
                          !.errors = reqs_errors_add_uri(@, n, working.uri)] : held \in Files}
          \cup {[r EXCEPT !.error = "EINVAL", !.status = "ERROR", !.held = held,
                          !.visited = {}] : held \in Files}

(* Without its manifest an updated repository is an error; one that was not
   updated is loaded again from its snapshot.                               *)
exec_rrdp_method ==
  LET now == [error |-> "0", updated |-> FALSE, status |-> status[Notify[Cert]],
              visited |-> visited, errors |-> errors, held |-> disk["rrdp"]]
      loaded == rrdp_load(now, FALSE)
      again == {r \in loaded : r.error = "0" /\ ~r.updated /\ Cert \notin r.held}
      reloaded == UNION {rrdp_load(r, TRUE) : r \in again}
  IN {IF r.error = "0" /\ Cert \notin r.held THEN [r EXCEPT !.error = "ENOENT"] ELSE r :
        r \in (loaded \ again) \cup reloaded}

(* A method ended with error and leaves current_workspace as ws.  The first one
   that works is used; if none does, the files of earlier cycles are, unless the
   error is of another kind than a failed request.                          *)
First == cert.methods = Methods

PrimaryWorked(method, error) ==
  /\ First /\ error = "0"
  /\ cert' = [cert EXCEPT !.pc = "push"] @@ [retry |-> method = "rsync", tree |-> method]
  /\ UNCHANGED <<tal, working>>

TryNext(method, error) ==
  /\ First /\ error # "0" /\ Len(cert.methods) > 1
  /\ cert' = [cert EXCEPT !.methods = Tail(@)]
  /\ working' = [working EXCEPT !.uri = IF method = "rrdp" THEN Notify[Cert] ELSE Repository[Cert]]
  /\ UNCHANGED tal

Popped == IF First THEN working ELSE [uri |-> NULL, level |-> 0]

SecondaryWorked(method, error) ==
  /\ ~First /\ error = "0"
  /\ cert' = [cert EXCEPT !.pc = "push"] @@ [retry |-> primary_rrdp, tree |-> method]
  /\ working' = Popped
  /\ UNCHANGED tal

LocalTree == IF primary_rrdp THEN "rrdp" ELSE "rsync"

LocalFiles(error) ==
  /\ Len(cert.methods) = 1 /\ error \in {"EREQFAILED", "EPERM"}
  /\ Cert \in disk'[LocalTree]
  /\ cert' = [cert EXCEPT !.pc = "push"] @@ [retry |-> FALSE, tree |-> LocalTree]
  /\ working' = Popped
  /\ UNCHANGED tal

NoFiles(error) ==
  /\ Len(cert.methods) = 1 /\ error # "0"
  /\ error \in {"EREQFAILED", "EPERM"} => Cert \notin disk'[LocalTree]
  /\ cert' = None
  /\ tal' = IF Cert = Root THEN Exit("EINVAL") ELSE tal
  /\ working' = Popped

Fetched(method, error, ws) ==
  LET local == error \in {"EREQFAILED", "EPERM"} /\ Len(cert.methods) = 1 /\ primary_rrdp
  IN /\ \/ PrimaryWorked(method, error) \/ TryNext(method, error)
        \/ SecondaryWorked(method, error) \/ LocalFiles(error) \/ NoFiles(error)
     /\ workspace' = (ws \/ local)
     /\ UNCHANGED <<stack, enabled>>

exec_rsync_method ==
  /\ cert.pc = "fetch" /\ Head(cert.methods) = "rsync"
  /\ \E d \in Download(Repository[Cert], FALSE, FALSE, visited) :
       /\ Downloaded(d) /\ errors' = d.errors
       /\ LET error == IF d.error = "0" /\ Cert \notin disk'["rsync"] THEN "EINVAL" ELSE d.error
          IN Fetched("rsync", error, FALSE)
       /\ hist' = Recorded(d)
  /\ retries' = 0
  /\ UNCHANGED status

FetchRrdp ==
  /\ cert.pc = "fetch" /\ Head(cert.methods) = "rrdp"
  /\ \E r \in exec_rrdp_method :
       /\ visited' = r.visited /\ errors' = r.errors
       /\ status' = [status EXCEPT ![Notify[Cert]] = r.status]
       /\ disk' = [disk EXCEPT !["rrdp"] = r.held]
       /\ Fetched("rrdp", r.error, r.error = "0")
  /\ hist' = [hist EXCEPT !.failed = IF visited' = {} THEN {} ELSE @]
  /\ UNCHANGED retries

--------------------------------------------------------------------------------
(***************************************************************************)
(* The loop of certificate_traverse() around the manifest, and             *)
(* rpp_traverse().                                                         *)
(***************************************************************************)
PushCertificate ==
  /\ cert.pc = "push"
  /\ \/ /\ stack' \in x509stack_push(stack, Cert, working.level)
        /\ cert' = [cert EXCEPT !.pc = "manifest"]
        /\ UNCHANGED <<tal, working>>
     \/ stack' = x509stack_push_fails(stack) /\ Return("EINVAL", "VALID")
  /\ UNCHANGED <<visited, retries, status, workspace, errors, disk, enabled, hist>>

(* Mutant of FileTree: the flag is inverted. *)
FileTreeInverted == IF cert.retry THEN "rrdp" ELSE "rsync"

(* uri_create_mft(): the files are where the flag and the workspace say. *)
FileTree == IF ~cert.retry /\ workspace THEN "rrdp" ELSE "rsync"

(* Mutant of Deferred: the first certificate is forgotten. *)
DeferredButFirst ==
  [i \in 1 .. Len(Children[Cert]) - 1 |->
     [type |-> "CERT",
      deferred |-> [cert |-> Children[Cert][i + 1],
                    pp |-> [mft |-> cert.tree, files |-> FileTree]]]]

(* __cert_traverse() defers the certificates so that the first one is on top. *)
Deferred ==
  [i \in DOMAIN Children[Cert] |->
     [type |-> "CERT",
      deferred |-> [cert |-> Children[Cert][i], pp |-> [mft |-> cert.tree, files |-> FileTree]]]]

handle_manifest ==
  /\ cert.pc = "manifest" /\ retries = 0 /\ Cert \in disk[cert.tree]
  /\ stack' = [stack EXCEPT !.defers = Deferred \o @]
  /\ Return("0", "VALID")
  /\ hist' = [hist EXCEPT !.accepted = @ \cup {Cert}]
  /\ UNCHANGED <<visited, retries, status, workspace, errors, disk, enabled>>

ManifestFails ==
  /\ cert.pc = "manifest" /\ ~cert.retry
  /\ stack' = x509stack_cancel(stack)
  /\ Return("EINVAL", "VALID")
  /\ UNCHANGED <<visited, retries, status, workspace, errors, disk, enabled, hist>>

(* Mutant of RetryRepository: it may be retried again. *)
RetryForever ==
  /\ cert.pc = "manifest" /\ cert.retry
  /\ \E d \in Download(Repository[Cert], FALSE, TRUE, visited) :
       /\ Downloaded(d) /\ errors' = d.errors /\ hist' = Recorded(d)
       /\ \/ /\ d.error = "0"
             /\ cert' = [cert EXCEPT !.pc = "push"]
             /\ UNCHANGED <<tal, working>>
          \/ Return("EINVAL", "VALID")
  /\ stack' = x509stack_cancel(stack) /\ retries' = 0
  /\ UNCHANGED <<status, workspace, enabled>>

(* The repository may have been read while it was being updated. *)
RetryRepository ==
  /\ cert.pc = "manifest" /\ cert.retry
  /\ \E d \in Download(Repository[Cert], FALSE, TRUE, visited) :
       /\ Downloaded(d) /\ errors' = d.errors /\ hist' = Recorded(d)
       /\ \/ /\ d.error = "0"
             /\ cert' = [cert EXCEPT !.pc = "push", !.retry = FALSE]
             /\ UNCHANGED <<tal, working>>
          \/ Return("EINVAL", "VALID")
  /\ stack' = x509stack_cancel(stack) /\ retries' = 0
  /\ UNCHANGED <<status, workspace, enabled>>

(* The child of do_rsync() exited with an error: another one is forked after a pause,
   for the request that TalUriRsync, ForceAia, exec_rsync_method or RetryRepository is
   about.                                                                            *)
RetryRsync ==
  LET Asked(uri, is_ta, force, vis) == RequestedUri(uri, is_ta, force, vis, errors) # NULL
  IN /\ "rsync" \in enabled /\ CanRetry(retries)
     /\ \/ /\ tal.pc = "uri" /\ tal.sync_files /\ uri_is_rsync(TalUris[tal.uri])
           /\ Asked(TalUris[tal.uri], TRUE, FALSE, {})
        \/ Acceptable /\ AiaDiffers /\ Asked(Aia[Cert], FALSE, TRUE, visited)
        \/ /\ cert.pc = "fetch" /\ Head(cert.methods) = "rsync"
           /\ Asked(Repository[Cert], FALSE, FALSE, visited)
        \/ cert.pc = "manifest" /\ cert.retry /\ Asked(Repository[Cert], FALSE, TRUE, visited)
     /\ retries' = retries + 1
     /\ UNCHANGED <<tal, cert, stack, visited, status, workspace, working, errors, disk, enabled, hist>>

Work ==
  \/ RetryRsync
  \/ TalUriRsync \/ TalUriHttps \/ TalUriLocal \/ Defer
  \/ Reject \/ ForceAia \/ RouterCertificate \/ RepositoryLevel
  \/ SameWorkspace \/ VisitedNotification \/ ChooseMethods \/ exec_rsync_method \/ FetchRrdp
  \/ PushCertificate \/ handle_manifest \/ ManifestFails \/ RetryRepository

Next == StartCycle \/ Work

(* Requests end: rsync and HTTP have timeouts and a bounded number of retries. *)
Spec == Init /\ [][Next]_vars /\ WF_vars(Work)

--------------------------------------------------------------------------------
(***************************************************************************)
(* Properties.                                                             *)
(***************************************************************************)
(* Every variable keeps the type it has in the code. *)
TypeOK ==
  /\ tal.pc \in {"idle", "uri", "root", "defer", "crit"}
  /\ tal.uri \in 0 .. Len(TalUris) /\ tal.sync_files \in BOOLEAN /\ tal.retry_local \in BOOLEAN
  /\ cert.pc \in {"none", "check", "aia", "access", "fetch", "push", "manifest"}
  /\ cert # None => Cert \in Certs
  /\ Elements(stack.x509s) \cup Elements(stack.metas) \subseteq Certs
  /\ Elements(stack.levels) \subseteq Nat \cup {Freed}
  /\ status \in [Notifications -> {"NOTFOUND", "UNVISITED", "VISITED", "ERROR"}]
  /\ workspace \in BOOLEAN
  /\ working.level \in Nat /\ retries \in 0..RetryCount
  /\ disk \in [Trees -> SUBSET Certs]

(* cert_stack.c and certificate_traverse(): a certificate is validated with
   exactly its own issuers on the stack, whatever failed before it and wherever,
   and itself on top of them while its manifest is processed.               *)
OwnIssuers ==
  cert # None =>
    /\ stack.x509s = IF cert.pc = "manifest" THEN <<Cert>> \o AncestorsOf(Cert)
                                              ELSE AncestorsOf(Cert)
    /\ stack.metas = stack.x509s


(* handle_tal_uri() and rpp_traverse(): when the thread ends well, the
   certificates it handled are the root and those that accepted manifests list,
   each once and after its issuer: "remaining certificates are unrelated, so
   they should not be affected" by one that fails.                          *)
NothingSkipped ==
  (tal.pc = "idle" /\ tal.exit = "0" /\ hist.cycle > 0 /\ ~hist.displaced) =>
    /\ Elements(hist.handled)
         = {Root} \cup UNION {Elements(Children[p]) : p \in hist.accepted}
    /\ Len(hist.handled) = Cardinality(Elements(hist.handled))

(* use_access_method() and uri_create_mft(): the files that a manifest lists are
   looked for in the local tree the manifest was read from, whichever methods
   failed before and whatever the certificates before it used.              *)
SameTree ==
  \A i \in DOMAIN stack.defers :
    stack.defers[i] # Separator =>
      stack.defers[i].deferred.pp.files = stack.defers[i].deferred.pp.mft

(* download_files(): "All attempts failed, avoid future requests": neither a
   failed URI nor one below it is requested again in the validation, forced or
   not, unless an RRDP repository with errors made it forget the URIs.      *)
FailedNotRepeated == ~hist.again

(* do_file_validation(): the thread ends in every cycle, so that the cycle does;
   perform_standalone_validation() joins it.                                *)
ThreadEnds == tal.pc = "uri" ~> tal.pc \in {"idle", "crit"}
================================================================================
