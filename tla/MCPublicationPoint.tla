-------------------------- MODULE MCPublicationPoint ---------------------------
(***************************************************************************)
(* A publication point with a manifest, a CRL, two ROAs, a Ghostbusters    *)
(* record and a certificate, in every form that differs from the good one  *)
(* in a single respect, and in combinations of those that interact.        *)
(***************************************************************************)
EXTENDS PublicationPoint

CONSTANTS Settings,   \* sets of ignored incidences
          Workspaces, Formats

File(n, e) == [name |-> n, ext |-> e]
Crl == File("r", "crl")
RoaA == File("a", "roa")
RoaB == File("b", "roa")
Gbr == File("g", "gbr")
Cer == File("c", "cer")
CaCer == File("ca", "cer")
OldCaCer == File("old", "cer")
mft == File("m", "mft")

Key(id) == [alg |-> "rsaEncryption", params |-> "none", bits |-> 2048, exponent |-> 65537, id |-> id]
Name(n) == <<[nid |-> "commonName", str |-> n]>>
Claim(s) == [inherit |-> FALSE, names |-> s]
Inherit == [inherit |-> TRUE, names |-> {}]
V4(c) == [family |-> "v4", claim |-> c]
V6(c) == [family |-> "v6", claim |-> c]

CA == [subject |-> Name("CA"), key |-> Key("ca"), uri |-> Uri(CaCer), mft |-> mft, depth |-> 2,
       res |-> [v4 |-> {"p", "q"}, v6 |-> {"w"}, asn |-> {1, 2}]]

MCTalKey == CA.key

(* A trust anchor that is still to be validated. *)
Anchor == [CA EXCEPT !.depth = 0, !.subject = NULL, !.key = NULL, !.mft = NULL, !.res = NoResources]
--------------------------------------------------------------------------------
(* Well-formed objects *)
Ext(nid, val) == [nid |-> nid, critical |-> nid \in Critical, val |-> val]
Ad(method, uri) == [method |-> method, type |-> "URI", uri |-> uri]
Dp(names) == [CRLissuer |-> FALSE, reasons |-> FALSE, type |-> "fullname", names |-> names]

CommonExts(key, byte1) ==
  <<Ext("ski", sha1(key)),
    Ext("aki", [keyid |-> sha1(CA.key), issuer |-> FALSE, serial |-> FALSE]),
    Ext("ku", byte1),
    Ext("cdp", <<Dp(<<Uri(Crl)>>)>>),
    Ext("aia", <<Ad("caIssuers", CA.uri)>>),
    Ext("cp", <<[id |-> "RFC6484", qualifiers |-> <<"CPS">>]>>)>>

Cert(name, key, serial, exts) ==
  [type |-> "cer", version |-> 3, serial |-> serial, sigalg |-> "sha256WithRSAEncryption",
   issuer |-> Name("CA"), subject |-> Name(name), key |-> key, exts |-> exts,
   signer |-> "ca", current |-> TRUE]

EE(f, name, key, serial, ip) ==
  Cert(name, key, serial, CommonExts(key, 128) \o
       <<Ext("sia", <<Ad("signedObject", Uri(f))>>), Ext("ir", ip)>>)

ChildCA(name) ==
  Cert(name, Key("c"), 5, CommonExts(Key("c"), 6) \o
       <<Ext("bc", [pathlen |-> FALSE]),
         Ext("sia", <<Ad("caRepository", Uri(File("dir", "dir"))),
                      Ad("rpkiNotify", [scheme |-> "https", path |-> File("n", "xml")]),
                      Ad("rpkiManifest", Uri(File("cm", "mft")))>>),
         Ext("ir", <<V4(Claim({"p"})), V6(Inherit)>>), Ext("ar", Claim({1}))>>)

AnchorCert ==
  [Cert("CA", CA.key, 1,
        <<Ext("bc", [pathlen |-> FALSE]), Ext("ski", sha1(CA.key)),
          Ext("aki", [keyid |-> sha1(CA.key), issuer |-> FALSE, serial |-> FALSE]), Ext("ku", 6),
          Ext("sia", <<Ad("caRepository", Uri(File("dir", "dir"))), Ad("rpkiManifest", Uri(mft))>>),
          Ext("cp", <<[id |-> "RFC6484", qualifiers |-> <<>>]>>),
          Ext("ir", <<V4(Claim(CA.res.v4)), V6(Claim(CA.res.v6))>>), Ext("ar", Claim(CA.res.asn))>>)
     EXCEPT !.signer = CA.key.id]

RouterKey == [Key("e") EXCEPT !.alg = "id-ecPublicKey", !.params = "prime256v1"]

Router ==
  Cert("router", RouterKey, 6, CommonExts(RouterKey, 128) \o
       <<Ext("eku", {"bgpsec-router"}), Ext("ar", Claim({1}))>>)

Alg(oid) == [oid |-> oid, params |-> "absent"]

Sign(cert, oid, content) ==
  LET attrs == <<[type |-> "contentType", count |-> 1, val |-> Oid(oid)],
                 [type |-> "messageDigest", count |-> 1, val |-> sha256(content)]>>
  IN [type |-> "signed", der |-> TRUE, contentType |-> "signedData", encoding |-> "CMS",
      version |-> 3, digestAlgorithms |-> <<Alg("sha256")>>, crls |-> 0, eContentType |-> oid,
      content |-> content, certificates |-> <<cert>>,
      signerInfos |->
        <<[version |-> 3, digestAlgorithm |-> Alg("sha256"), signedAttrs |-> attrs,
           sid |-> [type |-> "subjectKeyIdentifier", id |-> sha1(cert.key)],
           signatureAlgorithm |-> Alg("rsaEncryption"), unsignedAttrs |-> 0,
           signature |-> [key |-> cert.key.id, over |-> attrs]]>>]

Address(a, len, max) == [address |-> a, length |-> len, maxLength |-> max]
Block(f, as) == [family |-> f, addresses |-> as]
Roa(asn, blocks) == [kind |-> "roa", version |-> NULL, asID |-> asn, ipAddrBlocks |-> blocks]

TwoPrefixes == <<Block("v4", <<Address("p", 24, NULL), Address("q", 16, 24)>>)>>

FileHash(f) == [file |-> f, hash |-> [octets |-> sha256("v1"), unused |-> 0]]
Manifest == [kind |-> "manifest", version |-> NULL, numberSize |-> 20, thisUpdate |-> Now,
             nextUpdate |-> Now + 1, fileHashAlg |-> "sha256",
             fileList |-> <<FileHash(Crl), FileHash(RoaA), FileHash(RoaB), FileHash(Gbr), FileHash(Cer)>>]

GoodMft == Sign(EE(mft, "mft", Key("m"), 1, <<V4(Inherit)>>), "manifest", Manifest)
RoaEE(f, name, key, serial) == EE(f, name, key, serial, <<V4(Claim({"p", "q"}))>>)
GoodRoaA == Sign(RoaEE(RoaA, "a", Key("a"), 2), "roa", Roa(1, TwoPrefixes))
GoodRoaB == Sign(RoaEE(RoaB, "b", Key("b"), 3), "roa", Roa(2, TwoPrefixes))
GoodGbr == Sign(EE(Gbr, "g", Key("g"), 4, <<V4(Inherit), V6(Inherit)>>), "ghostbusters", [vcard |-> TRUE])
GoodCrl == [type |-> "crl", version |-> 2, sigalg |-> "sha256WithRSAEncryption",
            issuer |-> Name("CA"), signer |-> "ca", expired |-> FALSE,
            revoked |-> <<[serial |-> 99, date |-> Now, extensions |-> FALSE]>>,
            exts |-> <<Ext("aki", [keyid |-> sha1(CA.key), issuer |-> FALSE, serial |-> FALSE]),
                       Ext("crlNumber", 1)>>]
Revoking(serial) == [GoodCrl EXCEPT !.revoked = @ \o <<[serial |-> serial, date |-> Now, extensions |-> FALSE]>>]
--------------------------------------------------------------------------------
(* Each with one thing changed *)
SeqEdits(s, Other(_)) ==
  {RemoveAt(s, i) : i \in DOMAIN s} \cup {Append(s, s[i]) : i \in DOMAIN s}
    \cup UNION {{ReplaceAt(s, i, x) : x \in Other(s[i])} : i \in DOMAIN s}

OtherUris == {Uri(OldCaCer), [scheme |-> "https", path |-> OldCaCer], [scheme |-> "malformed", path |-> OldCaCer]}

OtherVal(nid, v) ==
  CASE nid = "bc" -> {[pathlen |-> TRUE]}
    [] nid = "ski" -> {sha1(Key("other"))}
    [] nid = "aki" -> {[v EXCEPT !.issuer = TRUE], [v EXCEPT !.serial = TRUE],
                       [v EXCEPT !.keyid = sha1(Key("other"))]}
    [] nid = "ku" -> {v + 1}
    [] nid = "cdp" -> {<<>>, v \o v, <<[v[1] EXCEPT !.CRLissuer = TRUE]>>, <<[v[1] EXCEPT !.reasons = TRUE]>>,
                       <<[v[1] EXCEPT !.type = "relativename"]>>} \cup {<<Dp(<<u>>)>> : u \in OtherUris}
    [] nid \in {"aia", "sia"} ->
         SeqEdits(v, LAMBDA ad : {[ad EXCEPT !.type = "other"]} \cup {[ad EXCEPT !.uri = u] : u \in OtherUris})
    [] nid = "cp" -> {<<>>, v \o v} \cup
         {<<[v[1] EXCEPT !.id = p, !.qualifiers = q]>> :
            p \in {"RFC8360", "other"}, q \in {<<>>, <<"CPS">>, <<"notice">>, <<"CPS", "CPS">>}}
    [] nid = "ir" -> {<<V4(Claim({"p", "x"}))>>, <<V6(Inherit)>>, <<V6(Inherit), V4(Inherit)>>,
                      <<V4(Inherit), V6(Inherit), V6(Inherit)>>, <<V4(Claim({"p"}))>>, <<V4(Inherit)>>}
    [] nid = "ar" -> {Claim({3}), Inherit}
    [] nid = "eku" -> {{}}
    [] OTHER -> {}

ExtEdits(e) ==
  {[e EXCEPT !.critical = ~@]} \cup {[e EXCEPT !.val = v] : v \in OtherVal(e.nid, e.val) \cup {NULL}}

(* The resources of the other policy, with claims that exceed those of the CA. *)
Rfc8360(cert) ==
  [cert EXCEPT !.exts = [i \in DOMAIN @ |->
     CASE @[i].nid = "cp" -> Ext("cp", <<[id |-> "RFC8360", qualifiers |-> <<>>]>>)
       [] @[i].nid = "ir" -> Ext("ir2", <<V4(Claim({"p", "x"}))>>)
       [] @[i].nid = "ar" -> Ext("ar2", Claim({1, 3}))
       [] OTHER -> @[i]]]

CertEdits(c) ==
  {[c EXCEPT !.version = 2], [c EXCEPT !.serial = 99], [c EXCEPT !.sigalg = "other"],
   [c EXCEPT !.issuer = Name("other")], [c EXCEPT !.issuer = <<>>], [c EXCEPT !.signer = "other"],
   [c EXCEPT !.subject = @ \o <<[nid |-> "organization", str |-> "o"]>>],
   [c EXCEPT !.subject = <<[nid |-> "serialNumber", str |-> "s"]>>], [c EXCEPT !.subject = Name("a")],
   [c EXCEPT !.current = FALSE], [c EXCEPT !.key.bits = 1024], [c EXCEPT !.key.exponent = 3],
   [c EXCEPT !.key.alg = "other"], Rfc8360(c)}
    \cup {[c EXCEPT !.exts = es] :
            es \in SeqEdits(c.exts, ExtEdits)
                     \cup {Append(c.exts, [nid |-> "unknown", critical |-> b, val |-> NULL]) : b \in BOOLEAN}}

OtherAlg(a) == {[a EXCEPT !.oid = "other"], [a EXCEPT !.params = "NULL object"], [a EXCEPT !.params = "other"]}

AttrEdits(a) ==
  {[a EXCEPT !.count = 2], [a EXCEPT !.type = "other"], [a EXCEPT !.type = "signingTime"],
   [a EXCEPT !.val = IF a.type = "contentType" THEN Oid("other") ELSE sha256([kind |-> "other"])]}

SignerEdits(s) ==
  {[s EXCEPT !.version = 1], [s EXCEPT !.sid.type = "issuerAndSerialNumber"],
   [s EXCEPT !.sid.id = sha1(Key("other"))], [s EXCEPT !.unsignedAttrs = 1],
   [s EXCEPT !.signature.key = "other"], [s EXCEPT !.signature.over = <<>>]}
    \cup {[s EXCEPT !.digestAlgorithm = a] : a \in OtherAlg(s.digestAlgorithm)}
    \cup {[s EXCEPT !.signatureAlgorithm = a] : a \in OtherAlg(s.signatureAlgorithm)}
    \cup {[s EXCEPT !.signedAttrs = as, !.signature.over = as] : as \in SeqEdits(s.signedAttrs, AttrEdits)}

SobjEdits(s) ==
  {[s EXCEPT !.der = FALSE], [s EXCEPT !.contentType = "other"], [s EXCEPT !.encoding = "PKCS7"],
   [s EXCEPT !.encoding = "neither"], [s EXCEPT !.version = 1], [s EXCEPT !.digestAlgorithms = @ \o @],
   [s EXCEPT !.crls = 1], [s EXCEPT !.eContentType = "other"], [s EXCEPT !.content = NULL],
   [s EXCEPT !.certificates = @ \o @], [s EXCEPT !.signerInfos = @ \o @]}
    \cup {[s EXCEPT !.digestAlgorithms = <<a>>] : a \in OtherAlg(s.digestAlgorithms[1])}
    \cup {[s EXCEPT !.signerInfos = <<i>>] : i \in SignerEdits(s.signerInfos[1])}
    \cup {[s EXCEPT !.certificates = <<c>>] : c \in CertEdits(s.certificates[1])}

MftEdits ==
  {Sign(GoodMft.certificates[1], "manifest", m) : m \in
     {[Manifest EXCEPT !.version = 1], [Manifest EXCEPT !.numberSize = 21], [Manifest EXCEPT !.fileHashAlg = "other"],
      [Manifest EXCEPT !.thisUpdate = Now + 1], [Manifest EXCEPT !.thisUpdate = Now - 2, !.nextUpdate = Now - 1],
      [Manifest EXCEPT !.nextUpdate = Now - 1]}
       \cup {[Manifest EXCEPT !.fileList = l] : l \in
               SeqEdits(Manifest.fileList, LAMBDA fah :
                 {[fah EXCEPT !.hash.unused = 1], [fah EXCEPT !.hash.octets = sha256("v2")],
                  [fah EXCEPT !.file = File("none", fah.file.ext)], [fah EXCEPT !.file.ext = "txt"],
                  [fah EXCEPT !.file = NULL]})}}

RoaEdits ==
  {Sign(GoodRoaA.certificates[1], "roa", r) : r \in
     {[GoodRoaA.content EXCEPT !.version = 1], [GoodRoaA.content EXCEPT !.asID = MaxAsn + 1]} \cup
       {Roa(1, blocks) : blocks \in
          {<<Block("v4", <<Address("p", 24, 23)>>)>>, <<Block("v4", <<Address("p", 24, 33)>>)>>,
           <<Block("v4", <<Address("p", 24, NULL), Address("x", 24, NULL)>>)>>,
           <<Block("v4", <<Address("p", 24, NULL)>>), Block("other", <<>>)>>,
           <<Block("v6", <<Address("w", 48, 129)>>)>>}}}
    \cup {Sign(EE(RoaA, "a", Key("a"), 2, <<V6(Inherit)>>), "roa",
               Roa(1, <<Block("v6", <<Address("w", 48, 128)>>)>>)),
          Sign(RoaEE(RoaB, "a", Key("a"), 2), "roa", Roa(1, TwoPrefixes))}

CrlEdits ==
  {[GoodCrl EXCEPT !.version = 1], [GoodCrl EXCEPT !.sigalg = "other"], [GoodCrl EXCEPT !.issuer = Name("other")],
   [GoodCrl EXCEPT !.signer = "other"], [GoodCrl EXCEPT !.revoked[1].date = NULL],
   [GoodCrl EXCEPT !.revoked[1].extensions = TRUE], [GoodCrl EXCEPT !.expired = TRUE, !.signer = "other"]}
    \cup {[GoodCrl EXCEPT !.exts = es] : es \in SeqEdits(GoodCrl.exts, ExtEdits)}

Edits(f) ==
  CASE f = mft -> SobjEdits(GoodMft) \cup MftEdits
    [] f = Crl -> CrlEdits
    [] f = RoaA -> SobjEdits(GoodRoaA) \cup RoaEdits
    [] f = Gbr -> SobjEdits(GoodGbr) \cup {Sign(GoodGbr.certificates[1], "ghostbusters", [vcard |-> FALSE])}
    [] f = Cer -> CertEdits(ChildCA("c")) \cup CertEdits(Router)
--------------------------------------------------------------------------------
(* Points: one thing changed anywhere, or combinations of what interacts: names and
   keys of siblings, stale and revoking CRLs, files that are missing or differ.     *)
Version(data) == [octets |-> "v1", data |-> data]

Disk(m, r, a, b, g, c) ==
  mft :> Version(m) @@ Crl :> Version(r) @@ RoaA :> a @@ RoaB :> Version(b)
    @@ Gbr :> Version(g) @@ Cer :> Version(c)
    @@ File("a", "txt") :> Version(GoodRoaA) @@ File("r", "txt") :> Version(GoodCrl)
    @@ CaCer :> Version(AnchorCert) @@ OldCaCer :> Version(AnchorCert)

GoodDisk == Disk(GoodMft, GoodCrl, Version(GoodRoaA), GoodRoaB, GoodGbr, ChildCA("c"))

OneEdit == UNION {{[GoodDisk EXCEPT ![f].data = d] : d \in Edits(f)} : f \in {mft, Crl, RoaA, Gbr, Cer}}

Combinations ==
  {Disk(GoodMft, r, a, b, GoodGbr, c) :
     r \in {[x EXCEPT !.expired = e] : x \in {GoodCrl, Revoking(2), Revoking(5)}, e \in BOOLEAN},
     a \in {Version(GoodRoaA), NULL, [Version(GoodRoaA) EXCEPT !.octets = "v0"]},
     b \in {Sign(RoaEE(RoaB, n, Key(k), s), "roa", Roa(2, TwoPrefixes)) :
              n \in {"a", "b"}, k \in {"a", "b"}, s \in {2, 3}},
     c \in {ChildCA("c"), ChildCA("a"), Router}}

(* Among them anchors that inherit and one without resources. *)
AnchorEdits ==
  CertEdits(AnchorCert)
    \cup {[AnchorCert EXCEPT !.key = Key("other")],
          [AnchorCert EXCEPT !.exts = SelectSeq(@, LAMBDA e : e.nid \notin {"ir", "ar"}) \o
                                        <<Ext("ir", <<V4(Claim({}))>>)>>]}

MCPoints ==
  {[ca |-> CA, disk |-> d] : d \in {GoodDisk} \cup OneEdit \cup Combinations}
    \cup {[ca |-> Anchor, disk |-> [GoodDisk EXCEPT ![CaCer].data = c]] : c \in {AnchorCert} \cup AnchorEdits}

(* The other workspace and the other format with the default incidences only. *)
MCConfigurations ==
  [ignored : Settings, workspace : {"rsync"}, format : {"global-url"}]
    \cup {[ignored |-> {}, workspace |-> w, format |-> f] : w \in Workspaces, f \in Formats}

(* A ROA that is issued anew under the same name with another key, one that is
   withdrawn, a CRL that revokes the first.                                    *)
MCNewVersions ==
  {[file |-> RoaA, to |-> [octets |-> "v2", data |-> Sign(RoaEE(RoaA, "a", Key("n"), 7), "roa", Roa(2, TwoPrefixes))]],
   [file |-> RoaA, to |-> NULL],
   [file |-> Crl, to |-> [octets |-> "v2", data |-> Revoking(2)]]}
================================================================================
