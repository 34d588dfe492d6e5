--------------------------------- MODULE Der ---------------------------------
(***************************************************************************)
(* The DER encoder of the asn1c runtime, its constraint checks, and        *)
(* asn1_decode() (decode.c), which uses both after the BER decoder.  What  *)
(* may fail returns a set: empty, or the result.                           *)
(***************************************************************************)
EXTENDS Ber, Times, SequencesExt

Only(S) == CHOOSE x \in S : TRUE

(* The parts one after the other, if none of them failed. *)
Joined(parts) ==
  IF \E i \in DOMAIN parts : parts[i] = {} THEN {}
  ELSE {FlattenSeq([i \in DOMAIN parts |-> Only(parts[i])])}

-----------------------------------------------------------------------------
(* Base-2^k digits of n, the most significant one first, at least one. *)
Base(n, k) ==
  LET width == CHOOSE w \in 1..8 : n < 2^(k * w) /\ (w > 1 => n >= 2^(k * (w - 1)))
  IN  [i \in 1..width |-> (n \div 2^(k * (width - i))) % 2^k]

ber_tlv_tag_serialize(tag) ==
  LET class == tag % 4
      val == tag \div 4
      d == Base(val, 7)
  IN  IF val <= 30 THEN <<64 * class + val>>
      ELSE <<64 * class + 31>> \o [i \in DOMAIN d |-> IF i < Len(d) THEN 128 + d[i] ELSE d[i]]

der_tlv_length_serialize(len) ==
  IF len <= 127 THEN <<len>> ELSE <<128 + Len(Base(len, 8))>> \o Base(len, 8)

der_write_TL(tag, len, constr) ==
  LET t == ber_tlv_tag_serialize(tag)
  IN  [t EXCEPT ![1] = IF constr THEN @ + 32 ELSE @] \o der_tlv_length_serialize(len)

(* The tags of a type around its contents, from right to left. *)
der_write_tags(td, contents, tag_mode, constr, tag) ==
  LET own == IF tag_mode = -1 /\ td.tags # <<>> THEN Tail(td.tags) ELSE td.tags
      tags == IF tag_mode = 0 THEN td.tags ELSE <<tag>> \o own
      wrap(i, inner) == der_write_TL(tags[i], Len(inner), constr \/ i < Len(tags)) \o inner
  IN  FoldRight(wrap, [i \in DOMAIN tags |-> i], contents)

-----------------------------------------------------------------------------
(* INTEGER_encode_der(): without superfluous leading octets. *)
CanonicalInteger(buf) ==
  LET superfluous(i) == \/ buf[i] = 0 /\ buf[i + 1] < 128
                        \/ buf[i] = 255 /\ buf[i + 1] >= 128
      keep == {i \in DOMAIN buf : i = Len(buf) \/ ~superfluous(i)}
  IN  IF buf = <<>> THEN buf ELSE From(buf, CHOOSE i \in keep : \A j \in keep : i <= j)

(* OCTET_STRING_encode_der(): what follows the tags. *)
StringContents(td, v) ==
  LET n == Len(v.buf)
      clear == IF n = 0 THEN v.buf ELSE [v.buf EXCEPT ![n] = @ - (@ % 2^v.unused)]
  IN  IF td.op = "BIT_STRING" THEN <<v.unused % 8>> \o clear ELSE v.buf

OCTET_STRING_encode_der(td, v, tag_mode, tag) ==
  IF td.op = "ANY" /\ tag_mode # 1 THEN v.buf
  ELSE der_write_tags(td, StringContents(td, v), tag_mode, td.op = "ANY", tag)

(* default_value_cmp(): zero, of an INTEGER or a BOOLEAN. *)
IsDefault(m, v) ==
  m.dflt /\ IF m.type.op = "BOOLEAN" THEN v.octet = 0 ELSE \A i \in DOMAIN v.buf : v.buf[i] = 0

(* _el_buf_cmp() *)
Before(a, b) ==
  \E k \in 0..Len(a) :
    /\ k <= Len(b) /\ \A i \in 1..k : a[i] = b[i]
    /\ IF k = Len(a) THEN k < Len(b) ELSE k < Len(b) /\ a[k + 1] < b[k + 1]

RECURSIVE der_encode(_, _, _, _)

INTEGER_encode_der(td, v, tag_mode, tag) ==
  der_write_tags(td, CanonicalInteger(v.buf), tag_mode, FALSE, tag)
der_encode_primitive(td, v, tag_mode, tag) == der_write_tags(td, v.buf, tag_mode, FALSE, tag)
BOOLEAN_encode_der(td, v, tag_mode, tag) ==
  der_write_tags(td, <<IF v.octet = 0 THEN 0 ELSE 255>>, tag_mode, FALSE, tag)
NULL_encode_der(td, tag_mode, tag) == der_write_tags(td, <<>>, tag_mode, FALSE, tag)
GeneralizedTime_encode_der(td, v, tag_mode, tag) ==
  {der_write_tags(td, b, tag_mode, FALSE, tag) : b \in Canonical(v.buf)}

SEQUENCE_encode_der(td, v, tag_mode, tag) ==
  LET written == SelectSeq(td.elements, LAMBDA m : m.name \in DOMAIN v /\ ~IsDefault(m, v[m.name]))
      parts == [i \in DOMAIN written |->
                  der_encode(written[i].type, v[written[i].name], written[i].tag_mode, written[i].tag)]
  IN  {der_write_tags(td, c, tag_mode, TRUE, tag) : c \in Joined(parts)}

(* The encoded elements; those of a SET OF are sorted (SET_OF__encode_sorted()). *)
EncodedElements(td, v) ==
  LET elm == td.elements[1]
      parts == [i \in DOMAIN v.list |-> der_encode(elm.type, v.list[i], 0, elm.tag)]
      flat == [i \in DOMAIN parts |-> Only(parts[i])]
  IN  IF \E i \in DOMAIN parts : parts[i] = {} THEN {}
      ELSE IF td.op = "SET_OF" THEN {SortSeq(flat, Before)} ELSE {flat}

SET_OF_encode_der(td, v, tag_mode, tag) ==
  {der_write_tags(td, FlattenSeq(c), tag_mode, TRUE, tag) : c \in EncodedElements(td, v)}

CHOICE_encode_der(td, v, tag_mode, tag) ==
  LET elm == td.elements[v.present]
  IN  {IF tag_mode = 1 THEN der_write_tags(td, c, tag_mode, TRUE, tag) ELSE c :
         c \in der_encode(elm.type, v.value, elm.tag_mode, elm.tag)}

der_encode(td, v, tag_mode, tag) ==
  CASE td.op = "INTEGER" -> {INTEGER_encode_der(td, v, tag_mode, tag)}
    [] td.op = "OBJECT_IDENTIFIER" -> {der_encode_primitive(td, v, tag_mode, tag)}
    [] td.op = "BOOLEAN" -> {BOOLEAN_encode_der(td, v, tag_mode, tag)}
    [] td.op = "NULL" -> {NULL_encode_der(td, tag_mode, tag)}
    [] td.op \in {"ANY", "BIT_STRING", "OCTET_STRING"} ->
         {OCTET_STRING_encode_der(td, v, tag_mode, tag)}
    [] td.op = "GeneralizedTime" -> GeneralizedTime_encode_der(td, v, tag_mode, tag)
    [] td.op = "SEQUENCE" -> SEQUENCE_encode_der(td, v, tag_mode, tag)
    [] td.op \in {"SEQUENCE_OF", "SET_OF"} -> SET_OF_encode_der(td, v, tag_mode, tag)
    [] td.op = "CHOICE" -> CHOICE_encode_der(td, v, tag_mode, tag)

-----------------------------------------------------------------------------
(* general_constraints: of a type, or of a member in its place.            *)
RECURSIVE Satisfies(_, _)

(* Constraints that generated files state of members. *)
memb_manifestNumber_constraint(v) == v.buf = <<>> \/ v.buf[1] < 128

memb_addressFamily_constraint(v) == Len(v.buf) \in 2..3
memb_ipAddrBlocks_constraint(type, v) == v.list # <<>> /\ Satisfies(type, v)
memb_fileList_constraint(type, v) == Satisfies(type, v)

MemberSatisfies(m, v) ==
  CASE m.check = "type" -> Satisfies(m.type, v)
    [] m.check = "not negative" -> memb_manifestNumber_constraint(v)
    [] m.check = "size 2..3" -> memb_addressFamily_constraint(v)
    [] m.check = "not empty" -> memb_ipAddrBlocks_constraint(m.type, v)
    [] m.check = "elements" -> memb_fileList_constraint(m.type, v)

(* The members SEQUENCE_constraint() looks at: it returns what the check   *)
(* of the first one without a constraint of its own returns.               *)
LookedAt(td, v) ==
  LET there == {i \in DOMAIN td.elements : td.elements[i].name \in DOMAIN v}
      plain == {i \in there : td.elements[i].check = "type"}
  IN  {i \in there : \A j \in plain : i <= j}

SEQUENCE_constraint(td, v) ==
  \A i \in LookedAt(td, v) : MemberSatisfies(td.elements[i], v[td.elements[i].name])
SET_OF_constraint(td, v) == \A i \in DOMAIN v.list : MemberSatisfies(td.elements[1], v.list[i])
CHOICE_constraint(td, v) == MemberSatisfies(td.elements[v.present], v.value)
BIT_STRING_constraint(v) == v.given /\ v.unused <= 7 /\ (v.buf = <<>> => v.unused = 0)
OBJECT_IDENTIFIER_constraint(v) == v.buf # <<>>
IA5String_constraint(v) == v.given /\ \A i \in DOMAIN v.buf : v.buf[i] <= 127
UTCTime_constraint(v) == asn_UT2time(v.buf) # {}
GeneralizedTime_constraint(v) == asn_GT2time_frac(v.buf) # {}

(* asn_check_constraints() *)
Satisfies(td, v) ==
  CASE td.check = "none" -> TRUE
    [] td.check = "BIT_STRING" -> BIT_STRING_constraint(v)
    [] td.check = "OBJECT_IDENTIFIER" -> OBJECT_IDENTIFIER_constraint(v)
    [] td.check = "IA5String" -> IA5String_constraint(v)
    [] td.check = "UTCTime" -> UTCTime_constraint(v)
    [] td.check = "GeneralizedTime" -> GeneralizedTime_constraint(v)
    [] td.check = "SEQUENCE" -> SEQUENCE_constraint(td, v)
    [] td.check = "SET_OF" -> SET_OF_constraint(td, v)
    [] td.check = "CHOICE" -> CHOICE_constraint(td, v)

-----------------------------------------------------------------------------
(* decode.c *)

(* validate_der(): encoding the value yields the octets it came from. *)
validate_der(td, b, r) == der_encode(td, r.value, 0, 0) = {SubSeq(b, 1, r.consumed)}

(* action: what the configuration says of INID_OBJ_NOT_DER.  Octets after  *)
(* the object are not looked at.                                           *)
asn1_decode(td, b, dec_as_der, action) ==
  {r \in ber_decode(td, b, 0) : Ends(r) =>
     /\ dec_as_der /\ action = "error" => validate_der(td, b, r)
     /\ Satisfies(td, r.value)}
=============================================================================
