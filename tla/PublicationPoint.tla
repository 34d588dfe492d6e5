--------------------------- MODULE PublicationPoint ----------------------------
(***************************************************************************)
(* One publication point under one CA certificate: the manifest is handled *)
(* (manifest.c), then the ROAs, the Ghostbusters records and, deferred, the*)
(* certificates it lists (rpp.c), each with the cached CRL and with the    *)
(* serials and subjects the issuer's metadata has collected.               *)
(*                                                                         *)
(* The rsync directories are shared by the validation threads of all the   *)
(* TALs, so another thread may replace a file at any moment.  The CA is    *)
(* the trust anchor, which is validated first, or one that was validated   *)
(* before.  It is on top of the stack while its certificates are handled;  *)
(* Traversal models the stack, the descent and the retries.                *)
(***************************************************************************)
EXTENDS Objects

CONSTANTS
  Points,            \* the CA and the files of its publication point
  Configurations,    \* incidences ignored, workspace and format of file names
  NewVersions,       \* pairs of a file and the contents it may be replaced with
  MaxReplacements,   \* bound
  TalKey             \* the key of the TAL

VARIABLES
  ca,           \* the certificate on top of the stack: subject, key, URI, resources,
                \* its manifest and how many certificates the stack has
  conf,         \* configuration
  disk,         \* the files of the publication point
  pc,           \* the step at hand, or how the handling ended
  sobj,         \* the manifest, as it was decoded
  pp,           \* struct rpp: the lists of files still to be handled, the CRL's file
  crls,         \* pp->crl.stack
  meta,         \* serials and subjects seen under the CA
  vrps, keys,   \* handed to the validation handler
  hashed,       \* the files as they were when they were hashed (auxiliary)
  handled,      \* the file each object was read from, and the verdict (auxiliary)
  replaced      \* replacements so far

vars == <<ca, conf, disk, pc, sobj, pp, crls, meta, vrps, keys, hashed, handled, replaced>>

At(f) == FileAt(disk, f)

Uri(f) == [scheme |-> "rsync", path |-> f]

(* Mutant of check_dup_public_key: a signed object is loaded like a certificate. *)
EverythingIsCertificate(f) == {c.key : c \in certificate_load(At(f))}

(* Whether uri_create_rsync_str() finds the file of a stored subject again: the
   metadata has the name as it is printed in the log, and only the rsync directory
   is consulted, where a point that came by RRDP has left nothing.                 *)
LooksUp == conf.format = "global-url" /\ conf.workspace = "rsync"

check_dup_public_key(f) ==
  IF ~LooksUp THEN {}
  ELSE {c.key : c \in IF f.ext = "cer" THEN certificate_load(At(f))
                      ELSE cert_from_signed_object(At(f), conf.ignored)}

(* The certificates that forced downloads of their URIs find, in the same place. *)
force_aia_validation ==
  UNION {{[uri |-> Uri(f), cert |-> c] : c \in certificate_load(At(f))} : f \in DOMAIN disk}

(* A thread's view of the point when it validates file f. *)
Env(f, m) ==
  [parent |-> ca, depth |-> ca.depth, meta |-> m, crls |-> crls, ignored |-> conf.ignored, file |-> f,
   keyAt |-> [g \in DOMAIN disk |-> check_dup_public_key(g)], downloads |-> force_aia_validation]

(* refs_validate_ee() for file f, which has a valid EE certificate. *)
RefsValid(out, crl, f) ==
  refs_validate_ee((CHOOSE x \in out.args : TRUE).refs, Uri(crl), Uri(f))
--------------------------------------------------------------------------------
PublicationPointInit ==
  /\ \E p \in Points : ca = p.ca /\ disk = p.disk
  /\ conf \in Configurations
  /\ pc = (IF ca.depth = 0 THEN "anchor" ELSE "manifest")
  /\ sobj = NULL /\ pp = NULL /\ crls = <<>> /\ meta = NoMetadata
  /\ vrps = {} /\ keys = {} /\ hashed = NULL /\ handled = <<>> /\ replaced = 0

(* Another thread downloads a new version of a file. *)
Replace ==
  /\ pc \in {"anchor", "manifest", "rpp", "crl", "objects"}
  /\ conf.workspace = "rsync" /\ replaced < MaxReplacements
  /\ \E v \in NewVersions : disk' = [disk EXCEPT ![v.file] = v.to] /\ disk' # disk
  /\ replaced' = replaced + 1
  /\ UNCHANGED <<ca, conf, pc, sobj, pp, crls, meta, vrps, keys, hashed, handled>>

(* certificate_traverse() of the trust anchor, at the URI of the TAL: there is no
   issuer, no CRL and no metadata, and the key is that of the TAL; an anchor that
   inherits ends the process, and one without resources is refused.               *)
HandleAnchor ==
  LET certs == certificate_load(At(ca.uri.path))
      cert == CHOOSE c \in certs : TRUE
      fields == certificate_validate_rfc6487(cert, "TA", NULL, TalKey, NULL, NULL, <<>>)
      exts == certificate_validate_extensions(cert, "TA", NULL, NULL)
      refs == CHOOSE r \in exts : TRUE
      valid == /\ certs # {}
               /\ certificate_validate_chain(cert, NULL, crls, conf.ignored).ok
               /\ fields.ok /\ exts # {}
  IN /\ pc = "anchor"
     /\ \E got \in IF valid THEN {certificate_get_resources(cert, NULL, refs.policy, FALSE)}
                            ELSE {[NothingYet EXCEPT !.result = "error"]} :
          IF got.result = "ok" /\ got.res # NoResources
          THEN /\ pc' = "manifest"
               /\ ca' = [ca EXCEPT !.subject = cert.subject, !.key = cert.key, !.depth = 1,
                                   !.res = got.res, !.mft = refs.sia.mft.path]
          ELSE /\ pc' = IF got.result = "crit" THEN "crit" ELSE "rejected"
               /\ UNCHANGED ca
     /\ UNCHANGED <<conf, disk, sobj, pp, crls, meta, vrps, keys, hashed, handled, replaced>>

(* handle_manifest(), in the steps between which the files may change: the manifest
   is decoded, ...                                                                 *)
DecodeManifest ==
  LET decoded == {s \in signed_object_decode(At(ca.mft), conf.ignored) :
                    s.content # NULL /\ s.content.kind = "manifest"}
  IN /\ pc = "manifest"
     /\ \/ decoded = {} /\ pc' = "rejected" /\ UNCHANGED sobj
        \/ sobj' \in decoded /\ pc' = "rpp"
     /\ UNCHANGED <<ca, conf, disk, pp, crls, meta, vrps, keys, hashed, handled, replaced>>

(* ... the files are hashed, ... *)
BuildRpp ==
  /\ pc = "rpp"
  /\ \E built \in {build_rpp(sobj.content, disk, conf.ignored)} :
       \/ built = {} /\ pc' = "rejected" /\ UNCHANGED <<pp, hashed>>
       \/ pp' \in built /\ pc' = "crl" /\ hashed' = disk
  /\ UNCHANGED <<ca, conf, disk, sobj, crls, meta, vrps, keys, handled, replaced>>

(* ... then the CRL is loaded, and the manifest itself validated with it.  A failure
   cancels the CA's stack entry.  Nobody has stored a subject before.               *)
handle_manifest(mft, out) ==
  IF out.result # "ok" THEN out
  ELSE IF ~validate_manifest(mft, conf.ignored) THEN [out EXCEPT !.result = "error"]
  ELSE [out EXCEPT !.result = RefsValid(out, pp.crl, ca.mft)]

HandleManifest ==
  LET Out(crl) ==
        handle_manifest(sobj.content,
          signed_object_validate(sobj, "manifest", FALSE, [Env(ca.mft, meta) EXCEPT !.crls = <<crl>>]))
      crl == crl_load(At(pp.crl), ca)
  IN /\ pc = "crl"
     /\ \E out \in IF crl = {} THEN {Failed(Env(ca.mft, meta))} ELSE {Out(c) : c \in crl} :
          \/ out.result = "ok" /\ pc' = "objects" /\ crls' = out.crls /\ meta' = out.meta
          \/ /\ out.result # "ok"
             /\ pc' = IF out.result = "crit" THEN "crit" ELSE "rejected"
             /\ UNCHANGED <<crls, meta>>
     /\ UNCHANGED <<ca, conf, disk, sobj, pp, vrps, keys, hashed, handled, replaced>>
--------------------------------------------------------------------------------
(* The outcome of a signed object of the point, m being the metadata before. *)
SignedOutcome(file, f, oid, force_inherit, m) ==
  LET decoded == {s \in signed_object_decode(file, conf.ignored) :
                    oid # "ghostbusters" => s.content # NULL /\ s.content.kind = oid}
  IN IF decoded = {} THEN Failed(Env(f, m))
     ELSE signed_object_validate(CHOOSE s \in decoded : TRUE, oid, force_inherit, Env(f, m))

(* The rest of roa_traverse(), out being the outcome of the signed object: the
   references are checked after the addresses were handed over.                 *)
roa_traverse(file, f, out) ==
  IF out.result # "ok" THEN [out |-> out, vrps |-> {}]
  ELSE CHOOSE r \in {[out |-> [out EXCEPT !.result = IF roa.ok THEN RefsValid(out, pp.crl, f) ELSE "error"],
                      vrps |-> roa.vrps] :
                       roa \in {__handle_roa(file.data.content, x.res) : x \in out.args}} : TRUE

ghostbusters_traverse(file, f, out) ==
  IF out.result # "ok" THEN out
  ELSE [out EXCEPT !.result = IF file.data.content.vcard THEN RefsValid(out, pp.crl, f) ELSE "error"]

(* certificate_traverse(), up to the resources that x509stack_push() computes. *)
certificate_traverse(file, f, m) ==
  LET cert == file.data
      type == get_certificate_type(cert, FALSE)
      Pushed(refs) == \/ type = "BGPSEC"
                      \/ certificate_get_resources(cert, ca, refs.policy, FALSE).result = "ok"
      Result(refs, aia) == IF aia = "ok" THEN refs_validate_ca(refs, Uri(pp.crl)) ELSE aia
      Rest(refs, env) ==
        CHOOSE out \in
          {[result |-> IF r = "ok" /\ ~Pushed(refs) THEN "error" ELSE r, args |-> {}] :
             r \in {Result(refs, certificate_validate_aia(refs, cert, ca, ca.depth, env.downloads))}} : TRUE
      Validate(env, exts) ==
        ValidateCertificate(env,
          certificate_validate_chain(cert, ca, crls, conf.ignored),
          certificate_validate_rfc6487(cert, type, ca, NULL, m, f, env.keyAt),
          exts, [refs \in exts |-> Rest(refs, env)])
  IN IF certificate_load(file) = {} THEN Failed(Env(f, m))
     ELSE Validate(Env(f, m), certificate_validate_extensions(cert, type, ca, NULL))

(* What every step of rpp_traverse() does with the outcome. *)
Record(f, out) ==
  /\ crls' = out.crls /\ meta' = out.meta
  /\ handled' = Append(handled, [name |-> f, file |-> At(f), ok |-> out.result = "ok"])
  /\ UNCHANGED <<ca, conf, disk, sobj, hashed, replaced>>

(* The process aborts in free(). *)
Abort(out) ==
  /\ out.moved
  /\ pc' = "aborted"
  /\ UNCHANGED <<ca, conf, disk, sobj, pp, crls, meta, vrps, keys, hashed, handled, replaced>>

TraverseRoa ==
  /\ pc = "objects" /\ pp.roas # <<>>
  /\ \E f \in {Head(pp.roas)} :
       \E r \in {roa_traverse(At(f), f, SignedOutcome(At(f), f, "roa", FALSE, meta))} :
         \/ Abort(r.out)
         \/ /\ vrps' = vrps \cup r.vrps
            /\ Record(f, r.out)
            /\ pc' = IF r.out.result = "crit" THEN "crit" ELSE pc
            /\ pp' = [pp EXCEPT !.roas = Tail(@)]
            /\ UNCHANGED keys

TraverseGhostbusters ==
  /\ pc = "objects" /\ pp.roas = <<>> /\ pp.ghostbusters # <<>>
  /\ \E f \in {Head(pp.ghostbusters)} :
       \E out \in {ghostbusters_traverse(At(f), f, SignedOutcome(At(f), f, "ghostbusters", TRUE, meta))} :
         \/ Abort(out)
         \/ /\ Record(f, out)
            /\ pc' = IF out.result = "crit" THEN "crit" ELSE pc
            /\ pp' = [pp EXCEPT !.ghostbusters = Tail(@)]
            /\ UNCHANGED <<vrps, keys>>

(* A router certificate delivers its key for every AS number of its issuer, and
   then the issuer leaves the stack in its place: what follows is in Traversal. *)
TraverseCertificate ==
  LET Router(out, f) == out.result = "ok" /\ get_certificate_type(At(f).data, FALSE) = "BGPSEC"
  IN /\ pc = "objects" /\ pp.roas = <<>> /\ pp.ghostbusters = <<>> /\ pp.certs # <<>>
     /\ \E f \in {Head(pp.certs)} : \E out \in {certificate_traverse(At(f), f, meta)} :
          \/ Abort(out)
          \/ /\ Record(f, out)
             /\ keys' = IF Router(out, f)
                        THEN keys \cup {[asn |-> n, key |-> At(f).data.key] : n \in ca.res["asn"]}
                        ELSE keys
             /\ pc' = IF out.result = "crit" THEN "crit" ELSE IF Router(out, f) THEN "displaced" ELSE pc
             /\ pp' = [pp EXCEPT !.certs = Tail(@)]
             /\ UNCHANGED vrps

PublicationPointNext ==
  \/ Replace \/ HandleAnchor \/ DecodeManifest \/ BuildRpp \/ HandleManifest
  \/ TraverseRoa \/ TraverseGhostbusters \/ TraverseCertificate

PublicationPointSpec == PublicationPointInit /\ [][PublicationPointNext]_vars
--------------------------------------------------------------------------------
(* Types: the lists name files of the point, what is handed over has the form of
   VRPs and router keys, the stack has one CRL as soon as objects are handled.   *)
TypeOK ==
  /\ pc \in {"anchor", "manifest", "rpp", "crl", "objects", "rejected", "displaced", "crit", "aborted"}
  /\ pp # NULL => \A l \in {pp.roas, pp.ghostbusters, pp.certs} : ToSet(l) \subseteq DOMAIN disk
  /\ pc = "objects" => Len(crls) = 1
  /\ \A v \in vrps : v.asn \in 0..MaxAsn /\ v.family \in {"v4", "v6"}
  /\ \A k \in keys : k.asn \in ca.res["asn"]
  /\ replaced \in 0..MaxReplacements

(* The certificate a handled file carries. *)
CertOf(h) == IF h.file.data.type = "cer" THEN h.file.data ELSE h.file.data.certificates[1]

(* Whatever order, edits and replacements the files have, a VRP that was handed over
   is named by a ROA that was read from the point, whose EE certificate the CA signed,
   claims the prefix (by name, or inheriting), is current and not on the CRL of the
   manifest, and signed this very content; the CA holds the prefix, and has the key of
   the TAL if it is a trust anchor (roa_traverse(),
   handle_sdata_certificate(), certificate_validate_chain()).  Also with a stale CRL
   that the configuration tolerates.  (And the variables have their types.)          *)
VrpsAuthorized ==
  /\ TypeOK
  /\ vrps # {} /\ ca.depth = 1 => spki_cmp(ca.key, TalKey)
  /\ \A v \in vrps : \E i \in DOMAIN handled :
      /\ handled[i].name.ext = "roa" /\ handled[i].file # NULL
      /\ handled[i].file.data.content # NULL
      /\ LET roa == handled[i].file.data
             ee == CertOf(handled[i])
             sinfo == roa.signerInfos[1]
             Names(e) == \E j \in DOMAIN e.val : /\ e.val[j].family = v.family
                                                 /\ \/ e.val[j].claim.inherit
                                                    \/ v.address \in e.val[j].claim.names
         IN /\ \E b \in ToSet(roa.content.ipAddrBlocks) : \E x \in ToSet(b.addresses) :
                 v = Vrp(roa.content, b.family, x)
            /\ v.maxLength \in v.length..MaxLength(v.family)
            /\ v.address \in ca.res[v.family]
            /\ \E e \in ToSet(ee.exts) : e.nid \in {"ir", "ir2"} /\ e.val # NULL /\ Names(e)
            /\ ee.signer = ca.key.id /\ ee.current
            /\ \A j \in DOMAIN crls[1].revoked : crls[1].revoked[j].serial # ee.serial
            /\ sinfo.signature.key = ee.key.id
            /\ \E x \in ToSet(sinfo.signature.over) :
                 x.type = "messageDigest" /\ x.val = sha256(roa.content)

(* The subject of the certificate in a file. *)
SubjectOf(h) == x509_name_decode(CertOf(h).subject)

(* No sibling handled before changes the verdict about an object ("we will accept both
   but report a warning", x509stack_store_serial() and, by reference,
   x509stack_store_subject()), or ends the process, while the files stay the same.  The
   code has these exceptions, and no other: if check_dup_public_key() cannot look a stored
   subject up (log format, RRDP), of those with the same subject only the first is
   accepted; if it can and the stored one is a signed object, the process may abort; and
   a trust anchor that inherits resources ends it.  In particular, whoever passes the
   tables of extensions has the URIs that certificate_validate_aia() and
   certificate_refs.c take for granted.                                                *)
VerdictsIndependent ==
  /\ pc = "crit" =>
       /\ ca.depth = 0
       /\ \E e \in ToSet(At(ca.uri.path).data.exts) :
            \/ e.nid \in {"ir", "ir2"} /\ \E i \in DOMAIN e.val : e.val[i].claim.inherit
            \/ e.nid \in {"ar", "ar2"} /\ e.val.inherit
  /\ pc = "aborted" =>
       LET f == Head(pp.roas \o pp.ghostbusters \o pp.certs)
       IN /\ LooksUp
          /\ \E s \in ToSet(meta.subjects) :
               s.file.ext # "cer" /\ SubjectOf([name |-> f, file |-> At(f)]) = {s.name}
  /\ replaced = 0 => \A i \in DOMAIN handled :
       LET h == handled[i]
           Alone(oid, force_inherit) == SignedOutcome(h.file, h.name, oid, force_inherit, NoMetadata)
           result ==
             CASE h.name.ext = "roa" -> roa_traverse(h.file, h.name, Alone("roa", FALSE)).out.result
               [] h.name.ext = "gbr" -> ghostbusters_traverse(h.file, h.name, Alone("ghostbusters", TRUE)).result
               [] h.name.ext = "cer" -> certificate_traverse(h.file, h.name, NoMetadata).result
           Shadowed == /\ ~LooksUp
                       /\ \E s \in ToSet(meta.subjects) :
                            /\ SubjectOf(h) = {s.name}
                            /\ s.file # h.name \/ \E j \in 1..(i - 1) : handled[j].name = h.name
       IN IF h.ok THEN result = "ok" ELSE result # "ok" \/ Shadowed

(* Two accepted objects whose certificates have the same subject and different keys, or
   the same serial number, never pass without a warning about it: accepting both is only
   right if the operator is told (x509stack_store_subject(), x509stack_store_serial()).   *)
ConflictsReported ==
  replaced = 0 => \A i, j \in DOMAIN handled :
    LET a == CertOf(handled[i])
        b == CertOf(handled[j])
    IN i # j /\ handled[i].ok /\ handled[j].ok =>
         /\ a.subject = b.subject /\ ~spki_cmp(a.key, b.key) =>
              x509_name_decode(a.subject) \subseteq meta.reusedSubjects
         /\ a.serial = b.serial => a.serial \in meta.reusedSerials

(* An object is handled only if the manifest lists it, and every listed file had the hash
   that the manifest has of it when the lists were built; it may have been missing, or
   another one, only where the configuration says so.  What is read afterwards is what was
   hashed, unless another thread replaced the file in between (build_rpp(),
   hash_validate_mft_file()).                                                             *)
ManifestGoverns ==
  hashed # NULL =>
    LET list == sobj.content.fileList
    IN /\ \A k \in DOMAIN list :
            LET file == FileAt(hashed, list[k].file)
            IN IF file = NULL THEN "MFT_FILE_NOT_FOUND" \in conf.ignored
               ELSE \/ list[k].hash.octets = sha256(file.octets)
                    \/ "MFT_FILE_HASH_NOT_MATCH" \in conf.ignored
       /\ \A i \in DOMAIN handled :
            LET h == handled[i]
            IN /\ \E k \in DOMAIN list : list[k].file = h.name
               /\ \/ h.file = FileAt(hashed, h.name)
                  \/ replaced > 0 /\ [file |-> h.name, to |-> h.file] \in NewVersions

(* Every object of the point is judged by one CRL, the contents its file had when the
   manifest was handled: tolerating a stale one (verify_cert_crl_stale()) leaves the stack
   as it was, and no later version of the file gets into it (rpp_crl()).                  *)
CrlKept ==
  [][crls' # crls => crls = <<>> /\ crls' = <<At(pp.crl).data>>]_vars
================================================================================
