-------------------------------- MODULE Objects --------------------------------
(***************************************************************************)
(* The objects of a publication point: CMS signed objects (signed_data.c,  *)
(* content_info.c, signed_object.c), manifests, ROAs, CRLs, and the hashes *)
(* the manifest has of the files (hash.c).                                 *)
(*                                                                         *)
(* A file is NULL (absent) or [octets, data]; octets stand for its bytes,  *)
(* and a digest is injective.  The data are records of the decoded fields. *)
(***************************************************************************)
EXTENDS Certificates

CONSTANTS Now,      \* time()
          MaxAsn    \* UINT32_MAX, scaled down

sha256(x) == <<"sha256", x>>
Oid(x) == <<"oid", x>>
--------------------------------------------------------------------------------
(* Decoding *)
content_info_load(file, ignored) ==
  /\ file # NULL
  /\ file.data.type = "signed"
  /\ ~file.data.der => incidence("OBJ_NOT_DER", ignored)
  /\ file.data.contentType = "signedData"

(* CMS, or else PKCS#7. *)
signed_data_decode(data) == data.encoding \in {"CMS", "PKCS7"}

signed_object_decode(file, ignored) ==
  IF content_info_load(file, ignored) /\ signed_data_decode(file.data)
  THEN {file.data} ELSE {}

FileAt(disk, f) == IF f \in DOMAIN disk THEN disk[f] ELSE NULL

certificate_load(file) == IF file # NULL /\ file.data.type = "cer" THEN {file.data} ELSE {}

cert_from_signed_object(file, ignored) ==
  {sobj.certificates[1] : sobj \in signed_object_decode(file, ignored)}
--------------------------------------------------------------------------------
(* signed_data.c *)
get_sid(sinfo) == IF sinfo.sid.type = "subjectKeyIdentifier" THEN {sinfo.sid.id} ELSE {}

validate_content_type_attribute(val, sobj) == val = Oid(sobj.eContentType)

validate_message_digest_attribute(val, sobj) ==
  sobj.content # NULL /\ val = sha256(sobj.content)

validate_signed_attrs(sinfo, sobj) ==
  LET attrs == sinfo.signedAttrs
  IN /\ \A i \in DOMAIN attrs :
          /\ attrs[i].count = 1
          /\ attrs[i].type \in {"contentType", "messageDigest", "signingTime", "binarySigningTime"}
          /\ \A j \in 1..(i - 1) : attrs[j].type # attrs[i].type
          /\ attrs[i].type = "contentType" => validate_content_type_attribute(attrs[i].val, sobj)
          /\ attrs[i].type = "messageDigest" => validate_message_digest_attribute(attrs[i].val, sobj)
     /\ \A t \in {"contentType", "messageDigest"} : \E i \in DOMAIN attrs : attrs[i].type = t

certificate_validate_signature(cert, sinfo) ==
  sinfo.signature = [key |-> cert.key.id, over |-> sinfo.signedAttrs]

(* What validate() looks at before the certificate. *)
ValidFields(sobj, ignored) ==
  /\ Len(sobj.signerInfos) = 1
  /\ sobj.version = 3
  /\ Len(sobj.digestAlgorithms) = 1
  /\ validate_cms_hashing_algorithm(sobj.digestAlgorithms[1], ignored)
  /\ sobj.crls = 0
  /\ LET sinfo == sobj.signerInfos[1]
     IN /\ sinfo.version = 3
        /\ get_sid(sinfo) # {}
        /\ validate_cms_hashing_algorithm(sinfo.digestAlgorithm, ignored)
        /\ validate_signed_attrs(sinfo, sobj)
        /\ validate_cms_signature_algorithm(sinfo.signatureAlgorithm)
        /\ sinfo.unsignedAttrs = 0
  /\ Len(sobj.certificates) = 1

(* The first content type attribute, looked up before the fields are checked. *)
get_content_type_attr(sobj) ==
  LET cta == SelectSeq(sobj.signerInfos[1].signedAttrs, LAMBDA a : a.type = "contentType")
  IN IF sobj.signerInfos = <<>> \/ cta = <<>> THEN {} ELSE {cta[1].val}

validate_eContentType(sobj, oid) == sobj.eContentType = oid

validate_content_type(sobj, oid) == Oid(oid) \in get_content_type_attr(sobj)

(* env: what the thread knows: the parent certificate, its depth, its metadata,
   the CRL stack, the incidences, the keys of files and the certificates of URIs.  The outcome
   has the metadata and the stack afterwards, and args, the refs and resources of
   the EE certificate, if it is valid; moved as in certificate_validate_rfc6487().  *)
Failed(env) == [result |-> "error", meta |-> env.meta, crls |-> env.crls, args |-> {}, moved |-> FALSE]

(* The steps that an EE certificate and a CA certificate have in common: a failure
   ends them, and leaves what was recorded before.  rest[refs] follows.          *)
ValidateCertificate(env, chain, fields, exts, rest) ==
  IF ~chain.ok THEN [Failed(env) EXCEPT !.crls = chain.crls]
  ELSE IF ~fields.ok \/ exts = {}
  THEN [Failed(env) EXCEPT !.crls = chain.crls, !.meta = fields.meta, !.moved = fields.moved]
  ELSE CHOOSE out \in {[result |-> r.result, args |-> r.args, crls |-> chain.crls,
                        meta |-> fields.meta, moved |-> fields.moved] :
                         r \in {rest[refs] : refs \in exts}} : TRUE

handle_sdata_certificate(sobj, force_inherit, env) ==
  LET cert == sobj.certificates[1]
      sinfo == sobj.signerInfos[1]
      Args(refs) == {[refs |-> refs, res |-> got.res] :
                       got \in {g \in {certificate_get_resources(cert, env.parent, refs.policy, force_inherit)} :
                                  g.result = "ok"}}
      Rest(refs) ==
        CHOOSE out \in
          {[result |-> IF aia # "ok" THEN aia ELSE IF args = {} THEN "error" ELSE "ok", args |-> args] :
             aia \in {certificate_validate_aia(refs, cert, env.parent, env.depth, env.downloads)},
             args \in {IF certificate_validate_signature(cert, sinfo) THEN Args(refs) ELSE {}}} : TRUE
      exts == certificate_validate_extensions(cert, "EE", env.parent, CHOOSE s \in get_sid(sinfo) : TRUE)
  IN ValidateCertificate(env,
       certificate_validate_chain(cert, env.parent, env.crls, env.ignored),
       certificate_validate_rfc6487(cert, "EE", env.parent, NULL, env.meta, env.file, env.keyAt),
       exts, [refs \in exts |-> Rest(refs)])

signed_object_validate(sobj, oid, force_inherit, env) ==
  IF /\ validate_eContentType(sobj, oid)
     /\ validate_content_type(sobj, oid)
     /\ ValidFields(sobj, env.ignored)
  THEN handle_sdata_certificate(sobj, force_inherit, env)
  ELSE Failed(env)
--------------------------------------------------------------------------------
(* crl.c *)
validate_revoked(crl) ==
  \A i \in DOMAIN crl.revoked :
    crl.revoked[i].serial # NULL /\ crl.revoked[i].date # NULL /\ ~crl.revoked[i].extensions

validate_extensions(crl, parent) ==
  handle_extensions([required |-> {"aki", "crlNumber"}, optional |-> {}], crl.exts,
                    [i \in DOMAIN crl.exts |->
                       crl.exts[i].nid = "aki" => handle_aki(crl.exts[i].val, parent)])

crl_validate(crl, parent) ==
  /\ crl.version = 2
  /\ validate_certificate_signature_algorithm(crl.sigalg)
  /\ validate_issuer_name(parent, crl.issuer)
  /\ validate_revoked(crl)
  /\ validate_extensions(crl, parent)

crl_load(file, parent) ==
  IF file # NULL /\ file.data.type = "crl" /\ crl_validate(file.data, parent)
  THEN {file.data} ELSE {}
--------------------------------------------------------------------------------
(* manifest.c *)
validate_dates(mft, ignored) ==
  /\ mft.thisUpdate <= mft.nextUpdate
  /\ Now >= mft.thisUpdate
  /\ Now > mft.nextUpdate => incidence("MFT_STALE", ignored)

validate_manifest(mft, ignored) ==
  /\ mft.version \in {NULL, 0}
  /\ mft.numberSize <= 20
  /\ validate_dates(mft, ignored)
  /\ validate_cms_hashing_algorithm_oid(mft.fileHashAlg)

(* Mutant of hash_validate_mft_file: it is enough that the file exists. *)
HashIgnored(file, hash, ignored) ==
  IF file # NULL THEN "ok" ELSE IF incidence("MFT_FILE_NOT_FOUND", ignored) THEN "missing" ELSE "error"

(* 0, -EINVAL and ENOENT of hash_validate_mft_file(). *)
hash_validate_mft_file(file, hash, ignored) ==
  IF hash.unused # 0 THEN "error"
  ELSE IF file = NULL THEN IF incidence("MFT_FILE_NOT_FOUND", ignored) THEN "missing" ELSE "error"
  ELSE IF sha256(file.octets) = hash.octets \/ incidence("MFT_FILE_HASH_NOT_MATCH", ignored)
  THEN "ok" ELSE "error"

(* The lists of files by extension, the missing ones left out.
   A name that makes no URI is NULL.                                           *)
build_rpp(mft, disk, ignored) ==
  LET Status(fah) == IF fah.file = NULL THEN "error"
                     ELSE hash_validate_mft_file(FileAt(disk, fah.file), fah.hash, ignored)
      there == SelectSeq(mft.fileList, LAMBDA fah : Status(fah) = "ok")
      Named(ext) == SelectSeq([i \in DOMAIN there |-> there[i].file], LAMBDA f : f.ext = ext)
  IN IF /\ \A i \in DOMAIN mft.fileList : Status(mft.fileList[i]) # "error"
        /\ Len(Named("crl")) = 1
     THEN {[crl |-> Named("crl")[1], roas |-> Named("roa"),
            ghostbusters |-> Named("gbr"), certs |-> Named("cer")]}
     ELSE {}
--------------------------------------------------------------------------------
(* roa.c *)
MaxLength(family) == IF family = "v4" THEN 32 ELSE 128

____handle_roa(res, family, a) ==
  /\ family \in {"v4", "v6"}
  /\ a.maxLength # NULL => a.maxLength \in a.length..MaxLength(family)
  /\ a.address \in res[family]

Vrp(roa, family, a) ==
  [asn |-> roa.asID, family |-> family, address |-> a.address, length |-> a.length,
   maxLength |-> IF a.maxLength = NULL THEN a.length ELSE a.maxLength]

ValidHeader(roa) == roa.version \in {NULL, 0} /\ roa.asID <= MaxAsn

(* Each address is handed over as soon as it was checked; an error ends the loops
   but does not take back what was handed over.  A block of another family counts
   as an address that fails.                                                      *)
__handle_roa(roa, res) ==
  LET Items(b) == IF b.family \in {"v4", "v6"}
                  THEN [i \in DOMAIN b.addresses |-> [family |-> b.family, a |-> b.addresses[i]]]
                  ELSE <<[family |-> b.family, a |-> NULL]>>
      items == FlattenSeq([i \in DOMAIN roa.ipAddrBlocks |-> Items(roa.ipAddrBlocks[i])])
      bad == {i \in DOMAIN items : \/ items[i].a = NULL
                                   \/ ~____handle_roa(res, items[i].family, items[i].a)}
      upTo == {i \in DOMAIN items : \A j \in bad : i < j}
  IN IF ~ValidHeader(roa) THEN [ok |-> FALSE, vrps |-> {}]
     ELSE [ok |-> bad = {}, vrps |-> {Vrp(roa, items[i].family, items[i].a) : i \in upTo}]
================================================================================
