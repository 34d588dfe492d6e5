------------------------------ MODULE Asn1Types ------------------------------
(***************************************************************************)
(* The type descriptors that asn1c generated for the objects of the RPKI:  *)
(* one definition per generated file, bottom-up.  Types do not refer to    *)
(* themselves, so a descriptor is a nested record; a type that the tables  *)
(* implement with another one is that other one.                           *)
(*                                                                         *)
(* A member has the fields of asn_TYPE_member_t that the BER and DER code  *)
(* reads.  tag_mode is 1 (explicit), -1 (implicit) or 0; a tag of          *)
(* Ambiguous stands for (ber_tlv_tag_t)-1.  tag2el lists <<tag, position   *)
(* of the element>>; positions begin at 1.  dflt says that the member has  *)
(* a default value, which is zero in all of them.                          *)
(***************************************************************************)
EXTENDS Integers, Sequences

(* BER_TAG: the class in the two lowest bits. *)
U(n) == 4 * n
Context(n) == 4 * n + 2
Ambiguous == -1

Member(name, type, tag) ==
  [name |-> name, type |-> type, tag |-> tag, tag_mode |-> 0, optional |-> 0,
   pointer |-> FALSE, any |-> FALSE, dflt |-> FALSE, check |-> "type"]

Explicit(m) == [m EXCEPT !.tag_mode = 1]
Implicit(m) == [m EXCEPT !.tag_mode = -1]
Optional(n, m) == [m EXCEPT !.optional = n, !.pointer = TRUE]
Default(m) == [m EXCEPT !.dflt = TRUE]
AnyType(m) == [m EXCEPT !.any = TRUE]
Constrained(check, m) == [m EXCEPT !.check = check]

(* asn_TYPE_descriptor_t *)
Descriptor(op, tags, all_tags, elements, tag2el, check) ==
  [op |-> op, tags |-> tags, all_tags |-> all_tags, elements |-> elements,
   tag2el |-> tag2el, check |-> check]

Basic(op, n, check) == Descriptor(op, <<U(n)>>, <<U(n)>>, <<>>, <<>>, check)
Sequence(elements, tag2el) ==
  Descriptor("SEQUENCE", <<U(16)>>, <<U(16)>>, elements, tag2el, "SEQUENCE")
SequenceOf(type, tag) ==
  Descriptor("SEQUENCE_OF", <<U(16)>>, <<U(16)>>, <<Member("", type, tag)>>, <<>>, "SET_OF")
SetOf(member) ==
  Descriptor("SET_OF", <<U(17)>>, <<U(17)>>, <<member>>, <<>>, "SET_OF")
Choice(elements, tag2el) ==
  Descriptor("CHOICE", <<>>, <<>>, elements, tag2el, "CHOICE")

-----------------------------------------------------------------------------
(* The types of the runtime. *)
ANY == Descriptor("ANY", <<>>, <<>>, <<>>, <<>>, "none")
BOOLEAN_ == Basic("BOOLEAN", 1, "none")
INTEGER == Basic("INTEGER", 2, "none")
BIT_STRING == Basic("BIT_STRING", 3, "BIT_STRING")
OCTET_STRING == Basic("OCTET_STRING", 4, "none")
NULL_ == Basic("NULL", 5, "none")
OBJECT_IDENTIFIER == Basic("OBJECT_IDENTIFIER", 6, "OBJECT_IDENTIFIER")
IA5String == Descriptor("OCTET_STRING", <<U(22)>>, <<U(22), U(4)>>, <<>>, <<>>, "IA5String")
UTCTime == Descriptor("OCTET_STRING", <<U(23)>>, <<U(23), U(26), U(4)>>, <<>>, <<>>, "UTCTime")
GeneralizedTime ==
  Descriptor("GeneralizedTime", <<U(24)>>, <<U(24), U(26), U(4)>>, <<>>, <<>>, "GeneralizedTime")

-----------------------------------------------------------------------------
(* RFC 3779: the resources of a certificate. *)
ASId == INTEGER

ASRange ==
  Sequence(<<Member("min", ASId, U(2)), Member("max", ASId, U(2))>>,
           <<<<U(2), 1>>, <<U(2), 2>>>>)

ASIdOrRange ==
  Choice(<<Member("id", ASId, U(2)), Member("range", ASRange, U(16))>>,
         <<<<U(2), 1>>, <<U(16), 2>>>>)

ASIdentifierChoice ==
  Choice(<<Member("inherit", NULL_, U(5)),
           Member("asIdsOrRanges", SequenceOf(ASIdOrRange, Ambiguous), U(16))>>,
         <<<<U(5), 1>>, <<U(16), 2>>>>)

ASIdentifiers ==
  Sequence(<<Optional(2, Explicit(Member("asnum", ASIdentifierChoice, Context(0)))),
             Optional(1, Explicit(Member("rdi", ASIdentifierChoice, Context(1))))>>,
           <<<<Context(0), 1>>, <<Context(1), 2>>>>)

IPAddress == BIT_STRING

IPAddressRange ==
  Sequence(<<Member("min", IPAddress, U(3)), Member("max", IPAddress, U(3))>>,
           <<<<U(3), 1>>, <<U(3), 2>>>>)

IPAddressOrRange ==
  Choice(<<Member("addressPrefix", IPAddress, U(3)), Member("addressRange", IPAddressRange, U(16))>>,
         <<<<U(3), 1>>, <<U(16), 2>>>>)

IPAddressChoice ==
  Choice(<<Member("inherit", NULL_, U(5)),
           Member("addressesOrRanges", SequenceOf(IPAddressOrRange, Ambiguous), U(16))>>,
         <<<<U(5), 1>>, <<U(16), 2>>>>)

IPAddressFamily ==
  Sequence(<<Constrained("size 2..3", Member("addressFamily", OCTET_STRING, U(4))),
             Member("ipAddressChoice", IPAddressChoice, Ambiguous)>>,
           <<<<U(4), 1>>, <<U(5), 2>>, <<U(16), 2>>>>)

IPAddrBlocks == SequenceOf(IPAddressFamily, U(16))

-----------------------------------------------------------------------------
(* RFC 6482: ROAs. *)
ASID == INTEGER

ROAIPAddress ==
  Sequence(<<Member("address", IPAddress, U(3)), Optional(1, Member("maxLength", INTEGER, U(2)))>>,
           <<<<U(2), 2>>, <<U(3), 1>>>>)

ROAIPAddressFamily ==
  Sequence(<<Constrained("size 2..3", Member("addressFamily", OCTET_STRING, U(4))),
             Constrained("not empty", Member("addresses", SequenceOf(ROAIPAddress, U(16)), U(16)))>>,
           <<<<U(4), 1>>, <<U(16), 2>>>>)

RouteOriginAttestation ==
  Sequence(<<Default(Optional(1, Explicit(Member("version", INTEGER, Context(0))))),
             Member("asID", ASID, U(2)),
             Constrained("not empty",
                         Member("ipAddrBlocks", SequenceOf(ROAIPAddressFamily, U(16)), U(16)))>>,
           <<<<U(2), 2>>, <<U(16), 3>>, <<Context(0), 1>>>>)

(* RFC 6486: manifests. *)
FileAndHash ==
  Sequence(<<Member("file", IA5String, U(22)), Member("hash", BIT_STRING, U(3))>>,
           <<<<U(3), 2>>, <<U(22), 1>>>>)

Manifest ==
  Sequence(<<Default(Optional(1, Explicit(Member("version", INTEGER, Context(0))))),
             Constrained("not negative", Member("manifestNumber", INTEGER, U(2))),
             Member("thisUpdate", GeneralizedTime, U(24)),
             Member("nextUpdate", GeneralizedTime, U(24)),
             Member("fileHashAlg", OBJECT_IDENTIFIER, U(6)),
             Constrained("elements", Member("fileList", SequenceOf(FileAndHash, U(16)), U(16)))>>,
           <<<<U(2), 2>>, <<U(6), 5>>, <<U(16), 6>>, <<U(24), 3>>, <<U(24), 4>>, <<Context(0), 1>>>>)
-----------------------------------------------------------------------------
(* RFC 5280: what CMS takes from X.509. *)
AttributeType == OBJECT_IDENTIFIER
AttributeValue == ANY
CertificateSerialNumber == INTEGER
Version == INTEGER

AlgorithmIdentifier ==
  Sequence(<<Member("algorithm", OBJECT_IDENTIFIER, U(6)),
             AnyType(Optional(1, Member("parameters", ANY, Ambiguous)))>>,
           <<<<U(6), 1>>>>)

AttributeTypeAndValue ==
  Sequence(<<Member("type", AttributeType, U(6)), AnyType(Member("value", AttributeValue, Ambiguous))>>,
           <<<<U(6), 1>>>>)

RelativeDistinguishedName == SetOf(Member("", AttributeTypeAndValue, U(16)))
RDNSequence == SequenceOf(RelativeDistinguishedName, U(17))
Name == Choice(<<Member("rdnSequence", RDNSequence, U(16))>>, <<<<U(16), 1>>>>)

Extension ==
  Sequence(<<Member("extnID", OBJECT_IDENTIFIER, U(6)),
             Default([Member("critical", BOOLEAN_, U(1)) EXCEPT !.optional = 1]),
             Member("extnValue", OCTET_STRING, U(4))>>,
           <<<<U(1), 2>>, <<U(4), 3>>, <<U(6), 1>>>>)

Extensions == SequenceOf(Extension, U(16))

Time ==
  Choice(<<Member("utcTime", UTCTime, U(23)), Member("generalTime", GeneralizedTime, U(24))>>,
         <<<<U(23), 1>>, <<U(24), 2>>>>)

RevokedCertificate ==
  Sequence(<<Member("userCertificate", CertificateSerialNumber, U(2)),
             Member("revocationDate", Time, Ambiguous),
             Optional(1, Member("crlEntryExtensions", Extensions, U(16)))>>,
           <<<<U(2), 1>>, <<U(16), 3>>, <<U(23), 2>>, <<U(24), 2>>>>)

TBSCertList ==
  Sequence(<<Optional(1, Member("version", Version, U(2))),
             Member("signature", AlgorithmIdentifier, U(16)),
             Member("issuer", Name, Ambiguous),
             Member("thisUpdate", Time, Ambiguous),
             Optional(3, Member("nextUpdate", Time, Ambiguous)),
             Optional(2, Member("revokedCertificates", SequenceOf(RevokedCertificate, U(16)), U(16))),
             Optional(1, Explicit(Member("crlExtensions", Extensions, Context(0))))>>,
           <<<<U(2), 1>>, <<U(16), 2>>, <<U(16), 3>>, <<U(16), 6>>, <<U(23), 4>>, <<U(23), 5>>,
             <<U(24), 4>>, <<U(24), 5>>, <<Context(0), 7>>>>)

CertificateList ==
  Sequence(<<Member("tbsCertList", TBSCertList, U(16)),
             Member("signatureAlgorithm", AlgorithmIdentifier, U(16)),
             Member("signature", BIT_STRING, U(3))>>,
           <<<<U(3), 3>>, <<U(16), 1>>, <<U(16), 2>>>>)

-----------------------------------------------------------------------------
(* RFC 5652: signed data, as RFC 6488 uses it. *)
CMSVersion == INTEGER
CMSAttributeValue == ANY
CMSSubjectKeyIdentifier == OCTET_STRING
ContentType == OBJECT_IDENTIFIER
ContentTypePKCS7 == OCTET_STRING
MessageDigest == OCTET_STRING
SignatureValue == OCTET_STRING
DigestAlgorithmIdentifier == AlgorithmIdentifier
SignatureAlgorithmIdentifier == AlgorithmIdentifier
DigestAlgorithmIdentifiers == SetOf(Member("", DigestAlgorithmIdentifier, U(16)))

ContentInfo ==
  Sequence(<<Member("contentType", ContentType, U(6)),
             Explicit(Member("content", ANY, Context(0)))>>,
           <<<<U(6), 1>>, <<Context(0), 2>>>>)

CMSAttribute ==
  Sequence(<<Member("attrType", OBJECT_IDENTIFIER, U(6)),
             Member("attrValues", SetOf(AnyType(Member("", CMSAttributeValue, Ambiguous))), U(17))>>,
           <<<<U(6), 1>>, <<U(17), 2>>>>)

SignedAttributes == SetOf(Member("", CMSAttribute, U(16)))
UnsignedAttributes == SetOf(Member("", CMSAttribute, U(16)))

IssuerAndSerialNumber ==
  Sequence(<<Member("issuer", Name, Ambiguous),
             Member("serialNumber", CertificateSerialNumber, U(2))>>,
           <<<<U(2), 2>>, <<U(16), 1>>>>)

SignerIdentifier ==
  Choice(<<Member("issuerAndSerialNumber", IssuerAndSerialNumber, U(16)),
           Implicit(Member("subjectKeyIdentifier", CMSSubjectKeyIdentifier, Context(0)))>>,
         <<<<U(16), 1>>, <<Context(0), 2>>>>)

SignerInfo ==
  Sequence(<<Member("version", CMSVersion, U(2)),
             Member("sid", SignerIdentifier, Ambiguous),
             Member("digestAlgorithm", DigestAlgorithmIdentifier, U(16)),
             Optional(1, Implicit(Member("signedAttrs", SignedAttributes, Context(0)))),
             Member("signatureAlgorithm", SignatureAlgorithmIdentifier, U(16)),
             Member("signature", SignatureValue, U(4)),
             Optional(1, Implicit(Member("unsignedAttrs", UnsignedAttributes, Context(1))))>>,
           <<<<U(2), 1>>, <<U(4), 6>>, <<U(16), 2>>, <<U(16), 3>>, <<U(16), 5>>,
             <<Context(0), 2>>, <<Context(0), 4>>, <<Context(1), 7>>>>)

SignerInfos == SetOf(Member("", SignerInfo, U(16)))

OtherRevocationInfoFormat ==
  Sequence(<<Member("otherRevInfoFormat", OBJECT_IDENTIFIER, U(6)),
             AnyType(Member("otherRevInfo", ANY, Ambiguous))>>,
           <<<<U(6), 1>>>>)

RevocationInfoChoice ==
  Choice(<<Member("crl", CertificateList, U(16)),
           Implicit(Member("other", OtherRevocationInfoFormat, Context(1)))>>,
         <<<<U(16), 1>>, <<Context(1), 2>>>>)

RevocationInfoChoices == SetOf(Member("", RevocationInfoChoice, Ambiguous))
CertificateSet == SetOf(AnyType(Member("", ANY, Ambiguous)))

EncapsulatedContentInfo ==
  Sequence(<<Member("eContentType", ContentType, U(6)),
             Optional(1, Explicit(Member("eContent", OCTET_STRING, Context(0))))>>,
           <<<<U(6), 1>>, <<Context(0), 2>>>>)

EncapsulatedContentInfoPKCS7 ==
  Sequence(<<Member("eContentType", ContentType, U(6)),
             Optional(1, Explicit(Member("eContent", ANY, Context(0))))>>,
           <<<<U(6), 1>>, <<Context(0), 2>>>>)

SignedDataOf(content) ==
  Sequence(<<Member("version", CMSVersion, U(2)),
             Member("digestAlgorithms", DigestAlgorithmIdentifiers, U(17)),
             Member("encapContentInfo", content, U(16)),
             Optional(2, Implicit(Member("certificates", CertificateSet, Context(0)))),
             Optional(1, Implicit(Member("crls", RevocationInfoChoices, Context(1)))),
             Member("signerInfos", SignerInfos, U(17))>>,
           <<<<U(2), 1>>, <<U(16), 3>>, <<U(17), 2>>, <<U(17), 6>>, <<Context(0), 4>>, <<Context(1), 5>>>>)

SignedData == SignedDataOf(EncapsulatedContentInfo)
SignedDataPKCS7 == SignedDataOf(EncapsulatedContentInfoPKCS7)
=============================================================================
