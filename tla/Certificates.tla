----------------------------- MODULE Certificates -----------------------------
(***************************************************************************)
(* The checks of one certificate: the fields of RFC 6487, the extensions,  *)
(* the references to other files and the form of the resources, from       *)
(* certificate.c, extension.c, name.c, algorithm.c and certificate_refs.c. *)
(*                                                                         *)
(* A certificate is a record of what the code looks at.  Keys, names and   *)
(* URIs are records of small values; an extension is its NID, its critical *)
(* flag and its decoded value (NULL when it does not decode).  A check is  *)
(* a predicate, true when the function returns 0; one that also delivers   *)
(* something returns a set: empty, or the result.  The serials and subjects*)
(* that the issuer's metadata collects are the only side effect.           *)
(***************************************************************************)
EXTENDS Integers, SequencesExt

CONSTANT NULL

(* The incidences that the configuration does not treat as errors decide. *)
incidence(id, ignored) == id \in ignored
--------------------------------------------------------------------------------
(* name.c: a name is a sequence of attributes, the last of a kind counts. *)
name2string(name, nid) ==
  LET s == SelectSeq(name, LAMBDA a : a.nid = nid)
  IN IF s = <<>> THEN NULL ELSE Last(s).str

x509_name_decode(name) ==
  IF /\ \A i \in DOMAIN name : name[i].nid \in {"commonName", "serialNumber"}
     /\ name2string(name, "commonName") # NULL
  THEN {[commonName |-> name2string(name, "commonName"),
         serialNumber |-> name2string(name, "serialNumber")]}
  ELSE {}

x509_name_equals(a, b) == a.commonName = b.commonName /\ a.serialNumber = b.serialNumber

validate_issuer_name(parent, issuer) ==
  \E p \in x509_name_decode(parent.subject), c \in x509_name_decode(issuer) :
    x509_name_equals(p, c)

validate_issuer(cert, parent) ==
  IF parent = NULL THEN x509_name_decode(cert.issuer) # {}
  ELSE validate_issuer_name(parent, cert.issuer)
--------------------------------------------------------------------------------
(* algorithm.c *)
validate_certificate_signature_algorithm(alg) == alg = "sha256WithRSAEncryption"

validate_certificate_public_key_algorithm(key) == key.alg = "rsaEncryption"

validate_certificate_public_key_algorithm_bgpsec(key) ==
  key.alg = "id-ecPublicKey" /\ key.params = "prime256v1"

validate_cms_hashing_algorithm_oid(oid) == oid = "sha256"

validate_cms_hashing_algorithm(id, ignored) ==
  /\ validate_cms_hashing_algorithm_oid(id.oid)
  /\ id.params = "NULL object" => incidence("HASHALG_HAS_PARAMS", ignored)
  /\ id.params \in {"absent", "NULL object"}

validate_cms_signature_algorithm(id) ==
  /\ id.oid \in {"rsaEncryption", "sha256WithRSAEncryption"}
  /\ id.params \in {"absent", "NULL object"}
--------------------------------------------------------------------------------
(* Keys *)
spki_cmp(a, b) == a.alg = b.alg /\ a.id = b.id

validate_subject_public_key(key) == key.bits = 2048 /\ key.exponent = 65537

(* validate_spki(): the trust anchor has the key of the TAL. *)
validate_spki(key, tal_key) == spki_cmp(tal_key, key)

validate_public_key(cert, type, tal_key) ==
  IF type = "BGPSEC" THEN validate_certificate_public_key_algorithm_bgpsec(cert.key)
  ELSE /\ validate_certificate_public_key_algorithm(cert.key)
       /\ validate_subject_public_key(cert.key)
       /\ type = "TA" => validate_spki(cert.key, tal_key)

(* The key identifier is the SHA-1 of the key. *)
sha1(key) == <<"sha1", key.alg, key.id>>
validate_public_key_hash(key, hash) == hash = sha1(key)
--------------------------------------------------------------------------------
(* The issuer's metadata: serial numbers and subjects of the certificates it
   issued, with the file each was found in, and those warned about (auxiliary). *)
NoMetadata == [serials |-> <<>>, subjects |-> <<>>, reusedSerials |-> {}, reusedSubjects |-> {}]

(* Mutant of x509stack_store_serial: only the last one is remembered. *)
LastSerial(meta, serial, file) ==
  IF meta.serials # <<>> /\ meta.serials[1].number = serial
  THEN [meta EXCEPT !.reusedSerials = @ \cup {serial}]
  ELSE [meta EXCEPT !.serials = <<[number |-> serial, file |-> file]>>]

x509stack_store_serial(meta, serial, file) ==
  IF \E i \in DOMAIN meta.serials : meta.serials[i].number = serial
  THEN [meta EXCEPT !.reusedSerials = @ \cup {serial}]
  ELSE [meta EXCEPT !.serials = Append(@, [number |-> serial, file |-> file])]

(* The first stored subject with this name whose file does not load, or whose key
   differs, decides; keyAt[f] are the keys check_dup_public_key() finds in f: one
   or none.                                                                     *)
x509stack_store_subject(meta, name, file, key, keyAt) ==
  LET Stored(i) == meta.subjects[i]
      Decides(i) == /\ x509_name_equals(Stored(i).name, name)
                    /\ ~ \E k \in keyAt[Stored(i).file] : spki_cmp(key, k)
      deciding == {i \in DOMAIN meta.subjects : Decides(i)}
      first == CHOOSE i \in deciding : \A j \in deciding : i <= j
  IN IF deciding = {}
     THEN {[meta EXCEPT !.subjects = Append(@, [name |-> name, file |-> file])]}
     ELSE IF keyAt[Stored(first).file] = {} THEN {}
     ELSE {[meta EXCEPT !.reusedSubjects = @ \cup {name}]}

(* check_dup_public_key() frees the pointer that d2i_X509() has moved to the end of
   the certificate of a signed object: undefined, the process goes on or aborts.
   Whether x509stack_store_subject() gets to look into a signed object, which is
   the first that has the name, or comes after certificates with the same key.      *)
FreesMoved(meta, name, key, keyAt) ==
  \E i \in DOMAIN meta.subjects :
    /\ x509_name_equals(meta.subjects[i].name, name)
    /\ meta.subjects[i].file.ext # "cer" /\ keyAt[meta.subjects[i].file] # {}
    /\ \A j \in 1..(i - 1) : x509_name_equals(meta.subjects[j].name, name) =>
                               \E k \in keyAt[meta.subjects[j].file] : spki_cmp(key, k)

(* The trust anchor has no issuer on the stack, so nothing is stored (NULL). *)
validate_subject(meta, cert, file, keyAt) ==
  UNION {IF meta = NULL THEN {NULL}
         ELSE x509stack_store_subject(meta, name, file, cert.key, keyAt) :
           name \in x509_name_decode(cert.subject)}

validate_serial_number(meta, cert, file) ==
  IF meta = NULL THEN NULL ELSE x509stack_store_serial(meta, cert.serial, file)

(* The checks in order; what was stored before an error stays stored.  moved:
   whether the process may have aborted.                                      *)
certificate_validate_rfc6487(cert, type, parent, tal_key, meta, file, keyAt) ==
  LET numbered == validate_serial_number(meta, cert, file)
      named == validate_subject(numbered, cert, file, keyAt)
      upToIssuer == /\ validate_certificate_signature_algorithm(cert.sigalg)
                    /\ validate_issuer(cert, parent)
      moved == /\ meta # NULL
               /\ \E name \in x509_name_decode(cert.subject) : FreesMoved(meta, name, cert.key, keyAt)
  IN IF cert.version # 3 THEN [ok |-> FALSE, meta |-> meta, moved |-> FALSE]
     ELSE IF ~upToIssuer THEN [ok |-> FALSE, meta |-> numbered, moved |-> FALSE]
     ELSE IF named = {} THEN [ok |-> FALSE, meta |-> numbered, moved |-> moved]
     ELSE [ok |-> validate_public_key(cert, type, tal_key),
           meta |-> CHOOSE m \in named : TRUE, moved |-> moved]
--------------------------------------------------------------------------------
(* X509_verify_cert() with the stacked certificates and the CRL of the manifest:
   the CRL's time is looked at before everything else.                          *)
X509_verify_cert(cert, parent, crls) ==
  IF crls = <<>> THEN "error"
  ELSE LET crl == Last(crls)
       IN IF crl.expired THEN "CRL_HAS_EXPIRED"
          ELSE IF /\ crl.signer = parent.key.id
                  /\ \A i \in DOMAIN crl.revoked : crl.revoked[i].serial # cert.serial
                  /\ cert.signer = parent.key.id
                  /\ cert.current
          THEN "ok" ELSE "error"

(* The CRL of the stack is replaced by a copy with a later nextUpdate. *)
update_crl_time(crls) == Append(Front(crls), [Last(crls) EXCEPT !.expired = FALSE])

(* Mutant of verify_cert_crl_stale: the copy stays on the stack. *)
CopyStays(cert, parent, crls) ==
  [ok |-> X509_verify_cert(cert, parent, update_crl_time(crls)) = "ok",
   crls |-> update_crl_time(crls)]

verify_cert_crl_stale(cert, parent, crls) ==
  LET original == Last(crls)
      cloned == update_crl_time(crls)
  IN [ok |-> X509_verify_cert(cert, parent, cloned) = "ok",
      crls |-> Append(Front(cloned), original)]

(* Mutant of certificate_validate_chain: a stale CRL is not looked at again. *)
StaleIsEnough(cert, parent, crls, ignored) ==
  [ok |-> \/ X509_verify_cert(cert, parent, crls) = "ok"
          \/ /\ X509_verify_cert(cert, parent, crls) = "CRL_HAS_EXPIRED"
             /\ incidence("CRL_STALE", ignored),
   crls |-> crls]

certificate_validate_chain(cert, parent, crls, ignored) ==
  LET result == X509_verify_cert(cert, parent, crls)
  IN IF parent = NULL THEN [ok |-> TRUE, crls |-> crls]
     ELSE IF result = "CRL_HAS_EXPIRED" /\ incidence("CRL_STALE", ignored)
     THEN verify_cert_crl_stale(cert, parent, crls)
     ELSE [ok |-> result = "ok", crls |-> crls]
--------------------------------------------------------------------------------
(* URIs of access descriptions: the URI, "skip" (of another kind), "error". *)
uri_create_ad(ad, scheme) ==
  IF ad.type # "URI" THEN "skip"
  ELSE IF ad.uri.scheme = "malformed" THEN "error"
  ELSE IF ad.uri.scheme = scheme THEN "created" ELSE "skip"

handle_ad(ads, method, scheme, required) ==
  LET found == SelectSeq(ads, LAMBDA ad : ad.method = method /\ uri_create_ad(ad, scheme) # "skip")
  IN IF found = <<>> THEN IF required THEN {} ELSE {NULL}
     ELSE IF Len(found) = 1 /\ uri_create_ad(found[1], scheme) = "created"
     THEN {found[1].uri} ELSE {}

(* The handlers of the extensions, given the decoded value. *)
handle_bc(v) == v # NULL /\ ~v.pathlen

handle_ski_ca(v, cert) == v # NULL /\ validate_public_key_hash(cert.key, v)

handle_ski_ee(v, cert, sid) == handle_ski_ca(v, cert) /\ v = sid

handle_ski_bgpsec(v, cert) == handle_ski_ca(v, cert)

handle_aki(v, parent) ==
  v # NULL /\ ~v.issuer /\ ~v.serial /\ validate_public_key_hash(parent.key, v.keyid)

ExtensionsOf(cert, nid) == SelectSeq(cert.exts, LAMBDA e : e.nid = nid)

handle_aki_ta(v, cert) ==
  /\ v # NULL /\ v.keyid # NULL
  /\ Len(ExtensionsOf(cert, "ski")) = 1
  /\ ExtensionsOf(cert, "ski")[1].val = v.keyid

(* The first octet of the bit string: 6 is keyCertSign and cRLSign, 128 is
   digitalSignature.                                                       *)
handle_ku(v, byte1) == v # NULL /\ v = byte1

handle_cdp(v) ==
  IF v = NULL \/ Len(v) # 1 \/ v[1].CRLissuer \/ v[1].reasons \/ v[1].type # "fullname"
  THEN {}
  ELSE LET rsync == SelectSeq(v[1].names, LAMBDA u : u.scheme = "rsync")
       IN IF rsync = <<>> THEN {} ELSE {rsync[1]}

handle_aia(v) == IF v = NULL THEN {} ELSE handle_ad(v, "caIssuers", "rsync", TRUE)

handle_sia_ca(v) ==
  IF v = NULL THEN {}
  ELSE {[caRepository |-> r, rpkiNotify |-> n, mft |-> m] :
          r \in handle_ad(v, "caRepository", "rsync", TRUE),
          n \in handle_ad(v, "rpkiNotify", "https", FALSE),
          m \in handle_ad(v, "rpkiManifest", "rsync", TRUE)}

handle_sia_ee(v) == IF v = NULL THEN {} ELSE handle_ad(v, "signedObject", "rsync", TRUE)

handle_cp(v) ==
  IF /\ v # NULL
     /\ Len(v) = 1
     /\ v[1].id \in {"RFC6484", "RFC8360"}
     /\ Len(v[1].qualifiers) <= 1
     /\ \A i \in DOMAIN v[1].qualifiers : v[1].qualifiers[i] = "CPS"
  THEN {v[1].id} ELSE {}

handle_eku(v) == v # NULL /\ "bgpsec-router" \in v
--------------------------------------------------------------------------------
(* extension.c: which extensions are critical. *)
Critical == {"bc", "ku", "cp", "ir", "ar", "ir2", "ar2"}

ResourceExtensions == {"ir", "ar", "ir2", "ar2"}

(* The tables of handlers: extension and whether it is mandatory. *)
extensions_ta ==
  [required |-> {"bc", "ski", "ku", "sia", "cp"}, optional |-> {"aki"} \cup ResourceExtensions]

extensions_ca ==
  [required |-> {"bc", "ski", "aki", "ku", "cdp", "aia", "sia", "cp"},
   optional |-> ResourceExtensions]

extensions_bgpsec ==
  [required |-> {"ski", "aki", "ku", "cdp", "aia", "cp", "eku"}, optional |-> {"ar", "ar2"}]

extensions_ee ==
  [required |-> {"ski", "aki", "ku", "cdp", "aia", "sia", "cp"}, optional |-> ResourceExtensions]

(* Certificates of a publication point that look like no known kind are taken for CAs. *)
Handlers(type) ==
  CASE type = "TA" -> extensions_ta
    [] type \in {"CA", "unexpected"} -> extensions_ca
    [] type = "BGPSEC" -> extensions_bgpsec
    [] type = "EE" -> extensions_ee

get_certificate_type(cert, is_ta) ==
  IF is_ta THEN "TA"
  ELSE IF ExtensionsOf(cert, "bc") # <<>> THEN "CA"
  ELSE IF ExtensionsOf(cert, "eku") # <<>> THEN "BGPSEC" ELSE "unexpected"

(* The callback of an extension. *)
Accepts(type, e, cert, parent, sid) ==
  CASE e.nid = "bc" -> handle_bc(e.val)
    [] e.nid = "ski" -> CASE type = "EE" -> handle_ski_ee(e.val, cert, sid)
                          [] type = "BGPSEC" -> handle_ski_bgpsec(e.val, cert)
                          [] OTHER -> handle_ski_ca(e.val, cert)
    [] e.nid = "aki" -> IF type = "TA" THEN handle_aki_ta(e.val, cert)
                        ELSE handle_aki(e.val, parent)
    [] e.nid = "ku" -> handle_ku(e.val, IF type \in {"EE", "BGPSEC"} THEN 128 ELSE 6)
    [] e.nid = "cdp" -> handle_cdp(e.val) # {}
    [] e.nid = "aia" -> handle_aia(e.val) # {}
    [] e.nid = "sia" -> IF type = "EE" THEN handle_sia_ee(e.val) # {}
                        ELSE handle_sia_ca(e.val) # {}
    [] e.nid = "cp" -> handle_cp(e.val) # {}
    [] e.nid = "eku" -> handle_eku(e.val)
    [] OTHER -> TRUE   \* resources, handled elsewhere; the number of a CRL

(* accepted[i]: what the callback of extension i says. *)
handle_extension(handlers, exts, i, accepted) ==
  LET e == exts[i]
  IN IF e.nid \in handlers.required \cup handlers.optional
     THEN /\ \A j \in 1..(i - 1) : exts[j].nid # e.nid
          /\ e.critical = (e.nid \in Critical)
          /\ accepted[i]
     ELSE ~e.critical

handle_extensions(handlers, exts, accepted) ==
  /\ \A i \in DOMAIN exts : handle_extension(handlers, exts, i, accepted)
  /\ \A nid \in handlers.required : \E i \in DOMAIN exts : exts[i].nid = nid

(* What the handlers of an accepted certificate have recorded; NULL where the
   table has no such handler or the certificate no such extension.           *)
Recorded(cert, nid, results) ==
  IF ExtensionsOf(cert, nid) = <<>> THEN NULL ELSE CHOOSE x \in results : TRUE

certificate_validate_extensions(cert, type, parent, sid) ==
  LET nids == Handlers(type).required \cup Handlers(type).optional
      Val(nid) == ExtensionsOf(cert, nid)[1].val
      Of(types, nid, results) ==
        IF type \in types /\ nid \in nids THEN Recorded(cert, nid, results) ELSE NULL
      cas == {"TA", "CA", "unexpected"}
      all == cas \cup {"BGPSEC", "EE"}
  IN IF handle_extensions(Handlers(type), cert.exts,
          [i \in DOMAIN cert.exts |-> Accepts(type, cert.exts[i], cert, parent, sid)])
     THEN {[crldp |-> Of(all, "cdp", handle_cdp(Val("cdp"))),
            caIssuers |-> Of(all, "aia", handle_aia(Val("aia"))),
            signedObject |-> Of({"EE"}, "sia", handle_sia_ee(Val("sia"))),
            sia |-> Of(cas, "sia", handle_sia_ca(Val("sia"))),
            policy |-> Of(all, "cp", handle_cp(Val("cp")))]}
     ELSE {}
--------------------------------------------------------------------------------
(* certificate_refs.c and certificate_validate_aia(): "crit" where the code ends
   the process.  downloads are the certificates that a forced download finds, with
   their URIs.                                                                   *)
certificate_validate_aia(refs, cert, parent, depth, downloads) ==
  IF refs.caIssuers = NULL THEN "crit"
  ELSE IF \/ refs.caIssuers = parent.uri
          \/ depth = 1
          \/ \E d \in downloads : d.uri = refs.caIssuers /\ validate_issuer_name(d.cert, cert.issuer)
  THEN "ok" ELSE "error"

validate_cdp(refs, crl_uri) ==
  IF refs.crldp = NULL \/ crl_uri = NULL THEN "crit"
  ELSE IF refs.crldp = crl_uri THEN "ok" ELSE "error"

validate_signedObject(refs, uri) ==
  IF refs.signedObject = NULL THEN "crit"
  ELSE IF refs.signedObject = uri THEN "ok" ELSE "error"

refs_validate_ca(refs, crl_uri) ==
  LET cdp == validate_cdp(refs, crl_uri)
  IN IF cdp = "ok" /\ refs.signedObject # NULL THEN "crit" ELSE cdp

refs_validate_ee(refs, crl_uri, uri) ==
  LET cdp == validate_cdp(refs, crl_uri)
  IN IF cdp = "ok" THEN validate_signedObject(refs, uri) ELSE cdp
--------------------------------------------------------------------------------
(* Resources: a set for each family.  A claim inherits or names a set; Resources
   models the arrays behind it.                                                  *)
Families == {"v4", "v6", "asn"}

NoResources == [k \in Families |-> {}]

(* What the extensions have given so far: "ok", "error" or "crit", the resources
   and the extensions found.                                                    *)
NothingYet == [result |-> "ok", res |-> NoResources, found |-> {}]

(* inherit_aors(), inherit_asiors() and what adds named resources; a trust anchor
   has no parent, and ends the process if it inherits.                           *)
AddClaim(got, family, claim, parent, policy, force_inherit) ==
  IF claim.inherit
  THEN IF parent = NULL THEN [got EXCEPT !.result = "crit"]
                        ELSE [got EXCEPT !.res[family] = parent.res[family]]
  ELSE IF force_inherit THEN [got EXCEPT !.result = "error"]
  ELSE IF parent = NULL \/ claim.names \subseteq parent.res[family]
  THEN [got EXCEPT !.res[family] = claim.names]
  ELSE IF policy = "RFC8360" THEN [got EXCEPT !.res[family] = claim.names \cap parent.res[family]]
  ELSE [got EXCEPT !.result = "error"]

(* One block, or those of IPv4 and IPv6 in this order. *)
handle_ip_extension(got, blocks, parent, policy, force_inherit) ==
  LET families == [i \in DOMAIN blocks |-> blocks[i].family]
      Add(g, b) == IF g.result # "ok" THEN g
                   ELSE AddClaim(g, b.family, b.claim, parent, policy, force_inherit)
  IN IF Len(blocks) = 1 \/ families = <<"v4", "v6">>
     THEN FoldLeft(Add, got, blocks) ELSE [got EXCEPT !.result = "error"]

handle_asn_extension(got, claim, parent, policy, force_inherit) ==
  AddClaim(got, "asn", claim, parent, policy, force_inherit)

(* The extensions of the policy, and none of the other's, in their order. *)
certificate_get_resources(cert, parent, policy, force_inherit) ==
  LET ip == IF policy = "RFC6484" THEN "ir" ELSE "ir2"
      asn == IF policy = "RFC6484" THEN "ar" ELSE "ar2"
      Add(got, e) ==
        IF got.result # "ok" \/ e.nid \notin ResourceExtensions THEN got
        ELSE IF e.nid \notin {ip, asn} \ got.found \/ ~e.critical \/ e.val = NULL
        THEN [got EXCEPT !.result = "error"]
        ELSE IF e.nid = ip
        THEN handle_ip_extension([got EXCEPT !.found = @ \cup {ip}], e.val, parent, policy, force_inherit)
        ELSE handle_asn_extension([got EXCEPT !.found = @ \cup {asn}], e.val, parent, policy, force_inherit)
      done == FoldLeft(Add, NothingYet, cert.exts)
  IN IF done.found = {} THEN [done EXCEPT !.result = "error"] ELSE done
================================================================================
