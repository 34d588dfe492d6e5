------------------------------- MODULE Encodings -------------------------------
(***************************************************************************)
(* The decoder on encodings of the types it is used for: those of DER,     *)
(* the other forms BER allows, and damaged ones.  An input is chosen, and  *)
(* the invariants compare what the code makes of it with a grammar of BER. *)
(***************************************************************************)
EXTENDS AsnValues

VARIABLES
  area,    \* what this behaviour is about
  input

--------------------------------------------------------------------------------
(* Encodings as trees, with the identifier octet of each node. *)
L(id, contents) == [id |-> id, contents |-> contents, kids |-> <<>>]
N(id, kids) == [id |-> id, contents |-> <<>>, kids |-> kids]
Raw(octets) == L(256, octets)     \* the octets of a whole node
Seq_(kids) == N(48, kids)
Set_(kids) == N(49, kids)

Oid == L(6, <<42, 3>>)
Num(n) == L(2, <<n>>)
Oct(b) == L(4, b)
Bits(b) == L(3, b)
Year2020 == <<50, 48, 50, 48, 48, 49, 48, 49, 48, 48, 48, 48, 48, 48, 90>>
Alg == Seq_(<<Oid, Raw(<<5, 0>>)>>)
RootName == Seq_(<<Set_(<<Seq_(<<Oid, Raw(<<19, 1, 65>>)>>)>>)>>)

Roa == Seq_(<<Num(1), Seq_(<<Seq_(<<Oct(<<0, 1>>),
                                     Seq_(<<Seq_(<<Bits(<<0, 10>>), Num(9)>>)>>)>>)>>)>>)
Mft == Seq_(<<Num(1), L(24, Year2020), L(24, Year2020), Oid,
              Seq_(<<Seq_(<<L(22, <<97>>), Bits(<<0, 7>>)>>)>>)>>)
AsIds == Seq_(<<N(160, <<Seq_(<<Num(1), Seq_(<<Num(3), Num(4)>>)>>)>>), N(161, <<L(5, <<>>)>>)>>)
Blocks == Seq_(<<Seq_(<<Oct(<<0, 1>>), Seq_(<<Bits(<<0, 10>>),
                                                Seq_(<<Bits(<<0, 9>>), Bits(<<1, 2>>)>>)>>)>>),
                 Seq_(<<Oct(<<0, 2>>), L(5, <<>>)>>)>>)
Content == Seq_(<<Oid, N(160, <<Raw(<<48, 3, 2, 1, 1>>)>>)>>)
Signer == Seq_(<<Num(3), L(128, <<9>>), Alg,
                 N(160, <<Seq_(<<Oid, Set_(<<Raw(<<4, 1, 8>>)>>)>>)>>), Alg, Oct(<<7>>)>>)
Signer2 == Seq_(<<Num(1), Seq_(<<RootName, Num(5)>>), Alg, Alg, Oct(<<7>>),
                  N(161, <<Seq_(<<Oid, Set_(<<Raw(<<2, 1, 1>>), Raw(<<36, 128, 4, 0, 0, 0>>)>>)>>)>>)>>)
Signed_(content) ==
            Seq_(<<Num(3), Set_(<<Alg>>), Seq_(<<Oid, N(160, <<content>>)>>),
                  N(160, <<Raw(<<48, 0>>)>>), Set_(<<>>)>>)
Crl == Seq_(<<Num(1), Alg, RootName, L(23, From(Year2020, 3)), L(24, Year2020),
              Seq_(<<Seq_(<<Num(4), L(23, From(Year2020, 3))>>)>>),
              N(160, <<Seq_(<<Seq_(<<Oid, L(1, <<255>>), Oct(<<1>>)>>), Seq_(<<Oid, Oct(<<>>)>>)>>)>>)>>)

(* A type and the trees of some of its values. *)
Samples ==
  <<[td |-> RouteOriginAttestation, tree |-> Roa],
    [td |-> RouteOriginAttestation, tree |-> [Roa EXCEPT !.kids = <<N(160, <<Num(1)>>)>> \o @]],
    [td |-> Manifest, tree |-> Mft],
    [td |-> ASIdentifiers, tree |-> AsIds],
    [td |-> IPAddrBlocks, tree |-> Blocks],
    [td |-> ContentInfo, tree |-> Content],
    [td |-> SignerInfo, tree |-> Signer],
    [td |-> SignerInfo, tree |-> Signer2],
    [td |-> SignedData, tree |-> Signed_(Oct(<<1, 2>>))],
    [td |-> SignedDataPKCS7, tree |-> Signed_(Raw(<<4, 2, 1, 2>>))],
    [td |-> TBSCertList, tree |-> Crl]>>

--------------------------------------------------------------------------------
(* Forms of a node, given the octets of its contents. *)
Length(n) == der_tlv_length_serialize(n)
Tlv(id, c) == IF id = 256 THEN c ELSE <<id>> \o Length(Len(c)) \o c
LongTlv(id, c) == <<id, 130, 0, Len(c)>> \o c
Indefinite(id, c) == <<id, 128>> \o c \o <<0, 0>>
StringId(id) == id \in {3, 4, 22, 23, 24, 128}
Segmented(id, c) ==
  LET seg == IF id = 128 THEN 4 ELSE id
  IN  <<id + 32>> \o Length(Len(c) + 4) \o <<seg, 0>> \o Tlv(seg, c)

RECURSIVE DerOf(_)
DerOf(t) ==
  IF t.kids = <<>> THEN Tlv(t.id, t.contents)
  ELSE Tlv(t.id, FlattenSeq([i \in DOMAIN t.kids |-> DerOf(t.kids[i])]))

(* All nodes of indefinite length. *)
RECURSIVE OpenEnded(_)
OpenEnded(t) ==
  IF t.id \in {48, 49, 160, 161}
  THEN Indefinite(t.id, FlattenSeq([i \in DOMAIN t.kids |-> OpenEnded(t.kids[i])]))
  ELSE Tlv(t.id, t.contents)

(* Other spellings of a node that mean the same. *)
Spellings(t, kids, c) ==
  (IF t.id = 256 THEN {} ELSE {LongTlv(t.id, c)})
    \cup (IF t.id \in {48, 49, 160, 161} THEN {Indefinite(t.id, c)} ELSE {})
    \cup (IF StringId(t.id) THEN {Segmented(t.id, c), Indefinite(t.id + 32, Tlv(t.id, c))} ELSE {})
    \cup (IF t.id = 2 THEN {Tlv(2, <<IF c[1] < 128 THEN 0 ELSE 255>> \o c)} ELSE {})
    \cup (IF t.id = 49 THEN {Tlv(49, FlattenSeq(Reverse(kids)))} ELSE {})

(* Spellings that mean something else, or nothing. *)
Misspellings(t, kids, c) ==
  IF t.id = 1 THEN {Tlv(1, <<1>>), Tlv(1, <<0>>), Tlv(1, <<0, 5>>)}
  ELSE IF t.id = 2 THEN {Tlv(2, <<>>), Tlv(2, <<255>> \o c)}
  ELSE IF t.id = 3 THEN {Tlv(3, <<>>), Tlv(3, [c EXCEPT ![1] = 3]), Tlv(3, [c EXCEPT ![1] = 8])}
  ELSE IF t.id = 4 THEN {Tlv(4, <<>>), Tlv(4, c \o c)}
  ELSE IF t.id = 48 THEN {Tlv(48, FlattenSeq(Reverse(kids))), Tlv(48, <<>>)}
  ELSE {}

(* Encodings in which one node departs from DER. *)
RECURSIVE OneNode(_, _)
OneNode(t, same) ==
  LET kids == [i \in DOMAIN t.kids |-> DerOf(t.kids[i])]
      c == IF t.kids = <<>> THEN t.contents ELSE FlattenSeq(kids)
  IN  (IF same THEN Spellings(t, kids, c) ELSE Misspellings(t, kids, c))
        \cup UNION {{Tlv(t.id, FlattenSeq([kids EXCEPT ![i] = d])) : d \in OneNode(t.kids[i], same)} :
                      i \in DOMAIN t.kids}

(* A valid encoding with one octet changed, or cut short. *)
Damaged(b) ==
  {SubSeq(b, 1, n) : n \in 0..(Len(b) - 1)}
    \cup {[b EXCEPT ![i] = x] : i \in DOMAIN b, x \in {0, 2, 48, 128}}
    \cup {[b EXCEPT ![i] = (@ + x) % 256] : i \in DOMAIN b, x \in {1, 32, 224, 255}}
    \cup {b \o <<0>>}

--------------------------------------------------------------------------------
(***************************************************************************)
(* A grammar of BER and DER, to compare with: an encoding is parsed into a *)
(* tree without regard to its type; then the tree is matched with a type.  *)
(***************************************************************************)
RefTag(b) ==
  LET ends == {i \in 2..Len(b) : b[i] < 128}
      end == CHOOSE i \in ends : \A j \in ends : i <= j
      n == IF b[1] % 32 = 31 THEN end ELSE 1
      value == IF n = 1 THEN b[1] % 32
               ELSE FoldLeft(LAMBDA v, o : 128 * v + (o % 128), 0, SubSeq(b, 2, n))
  IN  IF b = <<>> \/ (b[1] % 32 = 31 /\ ends = {}) \/ value >= 2^(TagBits - 2) THEN {}
      ELSE {[n |-> n, tag |-> 4 * value + (b[1] \div 64)]}

RefLength(constr, b) ==
  LET k == b[1] - 128
      high == IF k > 3 THEN k - 3 ELSE 0    \* octets too far left to count
      value == IF k < 0 THEN b[1] ELSE Unsigned(SubSeq(b, high + 2, k + 1))
  IN  IF b = <<>> THEN {}
      ELSE IF k = 0 /\ constr THEN {[n |-> 1, len |-> -1]}
      ELSE IF k = 127 \/ k >= Len(b) \/ (\E i \in 1..high : b[i + 1] > 0) \/ value > RSSIZE_MAX THEN {}
      ELSE {[n |-> IF k < 0 THEN 1 ELSE k + 1, len |-> value]}

Shortest(b, len) == b[1] = IF len < 128 THEN len ELSE IF len < 256 THEN 129 ELSE 130

(* A node: tag, form, contents, the nodes of constructed contents, octets. *)
RECURSIVE Parse(_), Nodes(_, _)
Parse(b) ==
  UNION {UNION {LET hdr == t.n + l.n
                    rest == From(b, hdr + 1)
                    node(form, c, kids, eoc) ==
                      [tag |-> t.tag, form |-> form, c |-> c, kids |-> kids,
                       octets |-> SubSeq(b, 1, hdr + Len(c) + eoc),
                       shortest |-> form # "indef" /\ Shortest(From(b, t.n + 1), Len(c))]
                    c == SubSeq(rest, 1, l.len)
                IN  IF l.len = -1
                    THEN {node("indef", SubSeq(rest, 1, k.n), k.kids, 2) : k \in Nodes(rest, TRUE)}
                    ELSE IF l.len > Len(rest) THEN {}
                    ELSE IF ~Constructed(b) THEN {node("prim", c, <<>>, 0)}
                    ELSE {node("def", c, k.kids, 0) : k \in Nodes(c, FALSE)} :
                  l \in RefLength(Constructed(b), From(b, t.n + 1))} : t \in RefTag(b)}

(* The nodes up to the end of b, or up to end-of-contents octets. *)
Nodes(b, indefinite) ==
  IF ~indefinite /\ b = <<>> THEN {[n |-> 0, kids |-> <<>>]}
  ELSE IF indefinite /\ Len(b) >= 2 /\ b[1] = 0 /\ b[2] = 0 THEN {[n |-> 0, kids |-> <<>>]}
  ELSE UNION {{[n |-> Len(k.octets) + r.n, kids |-> <<k>> \o r.kids] :
                 r \in Nodes(From(b, Len(k.octets) + 1), indefinite)} : k \in Parse(b)}

(* The primitive nodes of a constructed string; their tags are those that  *)
(* the type lists for that depth.                                          *)
RECURSIVE Leaves(_, _, _)
Leaves(td, n, depth) ==
  LET tag == td.all_tags[IF depth < Len(td.all_tags) THEN depth ELSE Len(td.all_tags)]
      parts == [i \in DOMAIN n.kids |-> IF n.kids[i].form = "prim" THEN {<<n.kids[i].c>>}
                                        ELSE Leaves(td, n.kids[i], depth + 1)]
  IN  IF \E i \in DOMAIN n.kids : n.kids[i].tag # tag THEN {} ELSE Joined(parts)

RefString(td, n) ==
  LET result(leaves) ==
        LET full == SelectSeq(leaves, LAMBDA c : c # <<>>)
            isBits == td.op = "BIT_STRING"
            buf == FlattenSeq(IF isBits THEN [i \in DOMAIN full |-> Tail(full[i])] ELSE full)
            unused == IF isBits /\ full # <<>> THEN Last(full)[1] ELSE 0
            cleared == [i \in DOMAIN buf |-> IF i = Len(buf) THEN (buf[i] \div 2^unused) * 2^unused
                                             ELSE buf[i]]
        IN  IF unused > 7 \/ (buf = <<>> /\ unused > 0) THEN {}
            ELSE {[v |-> [buf |-> cleared, unused |-> unused, given |-> n.form = "prim" \/ full # <<>>],
                   der |-> n.form = "prim" /\ n.shortest /\ cleared = buf /\ (isBits => full # <<>>)]}
  IN  IF n.form = "prim" THEN result(<<n.c>>) ELSE UNION {result(l) : l \in Leaves(td, n, 1)}

NoMoreThanNeeded(c) == Len(c) >= 2 => ~(c[1] = 0 /\ c[2] < 128) /\ ~(c[1] = 255 /\ c[2] >= 128)

(* A date of the calendar with seconds, and no fraction that ends in zero. *)
PlainTime(c) ==
  LET n == Run(c, 1)
      f == SubSeq(c, 16, Len(c) - 1)
      y == Decimal(c, 1, 4)
      m == Decimal(c, 5, 6)
      days == IF m = 2 THEN (IF Leap(y) THEN 29 ELSE 28) ELSE IF m \in {4, 6, 9, 11} THEN 30 ELSE 31
  IN  /\ n = 14 /\ Len(c) > 14 /\ c[Len(c)] = Zed
      /\ m \in 1..12 /\ Decimal(c, 7, 8) \in 1..days
      /\ Decimal(c, 9, 10) < 24 /\ Decimal(c, 11, 12) < 60 /\ Decimal(c, 13, 14) < 60
      /\ Len(c) > 15 => /\ c[15] = 46 /\ Len(f) \in 1..9
                        /\ \A i \in DOMAIN f : f[i] \in Digits
                        /\ Last(f) # 48

(* What a node means as a value of a type, and whether it is in DER. *)
RECURSIVE Match(_, _, _), MatchMembers(_, _, _)

MatchPrimitive(td, n) ==
  LET set == SelectSeq(n.c, LAMBDA o : o # 0)
  IN  IF n.form # "prim" THEN {}
      ELSE IF td.op \in {"BOOLEAN", "NULL"}
      THEN {[v |-> [octet |-> IF set = <<>> THEN 0 ELSE set[1]],
             der |-> n.shortest /\ n.c \in (IF td.op = "NULL" THEN {<<>>} ELSE {<<0>>, <<255>>})]}
      ELSE {[v |-> [buf |-> n.c], der |-> n.shortest /\ (td.op = "INTEGER" => NoMoreThanNeeded(n.c))]}

(* The members of a SEQUENCE in order; those that are optional may lack. *)
MatchMembers(elements, kids, v) ==
  IF elements = <<>> THEN IF kids = <<>> THEN {[v |-> v, der |-> TRUE]} ELSE {}
  ELSE LET e == elements[1]
           taken == IF kids = <<>> \/ e.tag \notin {Ambiguous, kids[1].tag} THEN {}
                    ELSE UNION {{[v |-> r.v, der |-> r.der /\ m.der /\ ~IsDefault(e, m.v)] :
                                   r \in MatchMembers(Tail(elements), Tail(kids), (e.name :> m.v) @@ v)} :
                                  m \in Match(e.type, kids[1], e.tag_mode)}
       IN  IF taken = {} /\ e.optional > 0 THEN MatchMembers(Tail(elements), kids, v) ELSE taken

MatchList(td, n) ==
  LET parts == [i \in DOMAIN n.kids |-> Match(td.elements[1].type, n.kids[i], 0)]
      one == [i \in DOMAIN parts |-> Only(parts[i])]
      sorted == \A i \in 1..(Len(n.kids) - 1) : ~Before(n.kids[i + 1].octets, n.kids[i].octets)
  IN  IF n.form = "prim" \/ \E i \in DOMAIN parts : parts[i] = {} THEN {}
      ELSE {[v |-> [list |-> [i \in DOMAIN one |-> one[i].v]],
             der |-> n.shortest /\ (td.op = "SET_OF" => sorted) /\ \A i \in DOMAIN one : one[i].der]}

MatchChoice(td, n) ==
  UNION {{[v |-> [present |-> i, value |-> m.v], der |-> m.der] :
            m \in Match(td.elements[i].type, n, td.elements[i].tag_mode)} :
           i \in {j \in DOMAIN td.elements : td.elements[j].tag = n.tag}}

(* A tag around a value.  The lengths of the tag and of the value are both *)
(* definite or both indefinite, except around a CHOICE.                    *)
MatchExplicit(td, n) ==
  IF td.op = "ANY"
  THEN {[v |-> [buf |-> n.c, unused |-> 0, given |-> n.form = "prim" \/ n.c # <<>>],
         der |-> n.form = "def" /\ n.shortest]}
  ELSE UNION {IF \/ Len(k.kids) # 1
                 \/ td.op # "CHOICE" /\ (n.form = "prim" \/ (n.form = "indef") # (k.kids[1].form = "indef"))
              THEN {}
              ELSE {[m EXCEPT !.der = @ /\ n.form = "def" /\ n.shortest] : m \in Match(td, k.kids[1], 0)} :
                k \in IF n.form = "prim" THEN Nodes(n.c, FALSE) ELSE {[kids |-> n.kids]}}

Match(td, n, mode) ==
  IF mode = 1 THEN MatchExplicit(td, n)
  ELSE IF td.op = "CHOICE" THEN MatchChoice(td, n)
  ELSE IF td.op = "ANY" THEN {[v |-> [buf |-> n.octets, unused |-> 0, given |-> TRUE], der |-> TRUE]}
  ELSE IF mode = 0 /\ n.tag # td.tags[1] THEN {}
  ELSE IF td.op \in {"BIT_STRING", "OCTET_STRING"} THEN RefString(td, n)
  ELSE IF td.op = "GeneralizedTime"
  THEN {[m EXCEPT !.der = @ /\ PlainTime(m.v.buf)] : m \in RefString(td, n)}
  ELSE IF td.op \in {"SEQUENCE_OF", "SET_OF"} THEN MatchList(td, n)
  ELSE IF td.op = "SEQUENCE"
  THEN IF n.form = "prim" THEN {}
       ELSE {[m EXCEPT !.der = @ /\ n.shortest] : m \in MatchMembers(td.elements, n.kids, Zeroed(td))}
  ELSE MatchPrimitive(td, n)

(* All that a grammar says of octets: a value, its octets, and whether they are DER. *)
Meaning(td, b) ==
  UNION {{[value |-> m.v, consumed |-> Len(n.octets), der |-> m.der] : m \in Match(td, n, 0)} :
           n \in Parse(b)}

--------------------------------------------------------------------------------
(* Inputs of the other functions. *)
Octets == {0, 1, 39, 40, 79, 80, 127, 128, 129, 255}
Headers ==
  {<<b>> \o s : b \in {5, 31, 63, 255}, s \in UNION {[1..n -> {0, 1, 31, 127, 128, 129, 255}] : n \in 0..4}}
    \cup {<<b>> \o s : b \in {0, 127, 128, 129, 130, 131, 133, 255},
                       s \in UNION {[1..n -> {0, 1, 63, 64, 127, 128, 255}] : n \in 0..3}}
    \cup {<<b, 0, 0>> \o s : b \in {132, 133, 134}, s \in [1..3 -> {0, 1, 63, 64}]}
IntegerInputs == UNION {[1..n -> {0, 1, 127, 128, 255}] : n \in 0..3}
Oids == UNION {[1..n -> Octets] : n \in 0..4}
Lengths == {0, 1, 126, 127, 128, 255, 256, 4096, RSSIZE_MAX}

(* Dates, hours with minutes and seconds, and what may follow them. *)
TimeTexts ==
  {d \o t \o z : d \in {<<50, 48, 50, 48>> \o m : m \in {<<48, 50>> \o Two(29), <<48, 50>> \o Two(30),
                                                        <<48, 48>> \o Two(1), <<49, 50>> \o Two(31),
                                                        <<49, 51>> \o Two(1), <<49, 49>> \o Two(31)}}
                         \cup {<<49, 57, 54, 57>> \o Two(12) \o Two(31), <<50, 49, 48, 48>> \o Two(2) \o Two(29),
                               <<48, 48, 48, 48>> \o Two(1) \o Two(1), <<57, 57, 57, 57>> \o Two(12) \o Two(31)},
                 t \in {Two(0), Two(23) \o Two(59) \o Two(59), Two(23) \o Two(60) \o Two(60), Two(24),
                        Two(7) \o Two(5), Two(7) \o Two(5) \o Two(61), Two(7) \o <<48>>},
                 z \in {<<>>, <<90>>, <<43>> \o Two(1), <<45>> \o Two(1) \o Two(30), <<46, 53, 48, 90>>,
                        <<46, 48, 90>>, <<44, 49, 90>>, <<46, 90>>, <<43, 49>>}}

(* All descriptors, with those of their members. *)
RECURSIVE WithMembers(_)
WithMembers(td) ==
  {td} \cup UNION {WithMembers(td.elements[i].type) : i \in DOMAIN td.elements}
Types ==
  UNION {WithMembers(td) : td \in {SignedData, SignedDataPKCS7, ContentInfo, Manifest, ASIdentifiers,
                                   RouteOriginAttestation, IPAddrBlocks}}

--------------------------------------------------------------------------------
(* An object whose encoding is a form of one in DER; a damaged one. *)
ChooseForm ==
  /\ area = "functions" /\ area' = "form"
  /\ \E i \in DOMAIN Samples :
       \E b \in {DerOf(Samples[i].tree), OpenEnded(Samples[i].tree)} \cup OneNode(Samples[i].tree, TRUE) :
         input' = [sample |-> i, octets |-> b]

ChooseObject ==
  /\ area = "functions" /\ area' = "object"
  /\ \E i \in DOMAIN Samples :
       \E b \in OneNode(Samples[i].tree, FALSE) \cup Damaged(DerOf(Samples[i].tree))
                  \cup Damaged(OpenEnded(Samples[i].tree)) :
         input' = [sample |-> i, octets |-> b]

ChooseInput(name, inputs) ==
  area = "functions" /\ area' = name /\ input' \in inputs

ChooseType == ChooseInput("type", Types)
ChooseHeader == ChooseInput("header", Headers)
ChooseLength == ChooseInput("length", Lengths)
ChooseNumber == ChooseInput("number", IntegerInputs)
ChooseOid == ChooseInput("oid", Oids)
ChooseTime == ChooseInput("time", TimeTexts)

EncodingNext ==
  \/ ChooseForm \/ ChooseObject \/ ChooseType \/ ChooseHeader
  \/ ChooseLength \/ ChooseNumber \/ ChooseOid \/ ChooseTime

--------------------------------------------------------------------------------
(* A CHOICE in an explicit tag of indefinite length (as only ASIdentifiers  *)
(* has), where one zero octet instead of two ends the tag: with the other   *)
(* one, the members up to there would be an object.                         *)
Unclosed(td, b) ==
  /\ td = ASIdentifiers /\ RefTag(b) = {[n |-> 1, tag |-> td.tags[1]]} /\ Constructed(b)
  /\ \E l \in RefLength(TRUE, Tail(b)) :
       LET end == IF l.len = -1 \/ 1 + l.n + l.len > Len(b) THEN Len(b) ELSE 1 + l.n + l.len
       IN  \E i \in (2 + l.n)..(end - 1) :
             /\ b[i] = 0 /\ b[i + 1] # 0
             /\ \E n \in Parse(Tlv(48, SubSeq(b, 2 + l.n, i) \o <<0>>)) :
                  n.kids # <<>> /\ Last(n.kids).form = "indef" /\ Match(td, n, 0) # {}

(* ber_decode() finds a value in exactly the octets that the grammar gives  *)
(* a meaning, the same value, and consumes as many octets, whatever octet   *)
(* of an object is damaged and wherever it is cut.  It always returns,      *)
(* except for that form, which means nothing.                               *)
GrammarExact ==
  area \in {"form", "object"} =>
    LET td == Samples[input.sample].td
        found == ber_decode(td, input.octets, 0)
        meant == {[value |-> m.value, consumed |-> m.consumed] : m \in Meaning(td, input.octets)}
    IN  IF Unclosed(td, input.octets) THEN meant = {} /\ found = {Endless}
        ELSE {[value |-> r.value, consumed |-> r.consumed] : r \in found} = meant

(* asn1_decode() refuses an object that is not in DER exactly when the      *)
(* configuration makes that an error: re-encoding recognises DER.           *)
PolicyExact ==
  area \in {"form", "object"} =>
    LET td == Samples[input.sample].td
    IN  \A action \in {"error", "warn", "ignore"} :
          (\E r \in asn1_decode(td, input.octets, TRUE, action) : Ends(r))
            <=> \E m \in Meaning(td, input.octets) :
                  (action = "error" => m.der) /\ Satisfies(td, m.value)

(* However an object is spelled in BER, if asn1_decode() accepts it its     *)
(* value is the one of its DER encoding.                                    *)
MeaningKept ==
  area = "form" =>
    LET td == Samples[input.sample].td
    IN  \A r \in asn1_decode(td, input.octets, TRUE, "warn") : Ends(r) /\
          der_encode(td, r.value, 0, 0) = {DerOf(Samples[input.sample].tree)}

(* The address families of resource extensions have two or three octets, as *)
(* the constraint in IPAddressFamily.c says, although SEQUENCE_constraint() *)
(* does not look at every member: a type that is decoded on its own has the *)
(* family first.  (In a ROA the constraint is not reached; both             *)
(* get_addr_family() and __handle_roa() take families of two octets only.)  *)
FamiliesChecked ==
  area \in {"form", "object"} /\ Samples[input.sample].td = IPAddrBlocks =>
    \A r \in asn1_decode(IPAddrBlocks, input.octets, TRUE, "warn") : Ends(r) /\
      \A i \in DOMAIN r.value.list : Len(r.value.list[i].addressFamily.buf) \in 2..3

(* The tables of the generated types: the tag of every alternative leads to *)
(* its element and to no other one, in the order that bsearch() needs, and  *)
(* "optional" counts the members that may lack up to the next mandatory one.*)
RECURSIVE OutmostTags(_)
OutmostTags(m) ==
  IF m.tag # Ambiguous THEN {m.tag}
  ELSE IF m.type.op = "CHOICE"
  THEN UNION {OutmostTags(m.type.elements[i]) : i \in DOMAIN m.type.elements}
  ELSE {}

TablesConsistent ==
  area = "type" /\ input.op \in {"SEQUENCE", "CHOICE"} =>
    LET t == input.tag2el
        e == input.elements
        class(tag) == tag % 4
    IN  /\ ToSet(t) = UNION {{<<tag, i>> : tag \in OutmostTags(e[i])} : i \in DOMAIN e}
        /\ \A i \in 1..(Len(t) - 1) :
             \/ class(t[i][1]) < class(t[i + 1][1])
             \/ class(t[i][1]) = class(t[i + 1][1]) /\ t[i][1] < t[i + 1][1]
             \/ t[i][1] = t[i + 1][1] /\ t[i][2] < t[i + 1][2]
        /\ \A i \in DOMAIN e : e[i].optional > 0 =>
             /\ i + e[i].optional - 1 <= Len(e)
             /\ \A j \in i..(i + e[i].optional - 1) : e[j].optional = e[i].optional - (j - i)

(* ber_fetch_tag() and ber_fetch_length() accept exactly the tags and the   *)
(* lengths that fit, whatever the number of octets they are written with.   *)
HeadersExact ==
  area = "header" =>
    /\ ber_fetch_tag(input) = RefTag(input)
    /\ \A constr \in BOOLEAN : ber_fetch_length(constr, input) = RefLength(constr, input)

(* der_tlv_length_serialize() writes lengths that are read back, in as few  *)
(* octets as possible.                                                      *)
LengthsShortest ==
  area = "length" =>
    LET b == der_tlv_length_serialize(input)
    IN  /\ RefLength(FALSE, b) = {[n |-> Len(b), len |-> input]}
        /\ Shortest(b, input)

(* The conversions of INTEGERs are exact when the number fits the type, and *)
(* fail otherwise; but the unsigned one takes a negative number that is not *)
(* too long for the large one with the same octets.                         *)
NumbersExact ==
  area = "number" =>
    LET size == 256^Len(input)
        n == IF input # <<>> /\ input[1] >= 128 THEN Unsigned(input) - size ELSE Unsigned(input)
        max == 256^IntOctets
    IN  /\ asn_INTEGER2umax(input)
             = IF n >= 0 THEN {n} \cap 0..(max - 1) ELSE IF size <= max THEN {n + size} ELSE {}
        /\ asn_INTEGER2imax(input) = {n} \cap -(max \div 2)..(max \div 2 - 1)
        /\ \A i \in asn_INTEGER2imax(input) :
             input # <<>> => asn_imax2INTEGER(i) = CanonicalInteger(input)

(* oid2arcs() fails exactly when the last arc lacks its end.  OIDs whose    *)
(* arcs fit the type and are written with no octet too many can be told     *)
(* apart by their arcs, which is how arcs_equal() compares (oid_equal()     *)
(* compares the octets).                                                    *)
OidsExact ==
  area = "oid" /\ input # <<>> =>
    LET starts == {i \in DOMAIN input : i = 1 \/ input[i - 1] < 128}
        high(i) == FoldLeft(LAMBDA v, o : 128 * v + (o % 128), 0,
                            SubSeq(input, i, CHOOSE j \in i..Len(input) :
                                               input[j] < 128 /\ \A k \in i..(j - 1) : input[k] >= 128))
        digits(n) == LET d == Base(n, 7)
                     IN  [i \in DOMAIN d |-> IF i < Len(d) THEN 128 + d[i] ELSE d[i]]
        written(arcs) == digits(40 * arcs[1] + arcs[2])
                           \o FlattenSeq([i \in 1..(Len(arcs) - 2) |-> digits(arcs[i + 2])])
    IN  /\ (oid2arcs(input) = {}) <=> Last(input) >= 128
        /\ \A arcs \in oid2arcs(input) :
             (\A i \in starts : input[i] # 128 /\ high(i) < 2^ArcBits) =>
               arcs[1] \in 0..2 /\ (arcs[1] < 2 => arcs[2] < 40) /\ written(arcs) = input

(* Every time of the calendar in the form of DER is accepted and stays as   *)
(* it is (but for the second before 1970, whose time_t is the error -1); a  *)
(* time in another form becomes one in that form which denotes the same     *)
(* moment; no month or day that no calendar has is accepted; and times      *)
(* compare like their texts.                                                *)
TimesExact ==
  area = "time" =>
    /\ PlainTime(input) => Canonical(input) = {input} \/ asn_GT2time_frac(input) = {}
    /\ PlainTime(input) /\ asn_GT2time_frac(input) = {} => Decimal(input, 1, 4) = 1969
    /\ \A c \in Canonical(input) :
         /\ PlainTime(c)
         /\ Decimal(input, 5, 6) \in 1..12 /\ Decimal(input, 7, 8) \in 1..31
         /\ {r.time : r \in asn_GT2time_frac(c)} = {r.time : r \in asn_GT2time_frac(input)}
         /\ \A t \in {u \in TimeTexts : Len(u) = 15 /\ PlainTime(u)} :
              \A x \in asn_GT2time_frac(c), y \in asn_GT2time_frac(t) :
                Before(SubSeq(c, 1, 14), SubSeq(t, 1, 14))
                  <=> x.time.day < y.time.day \/ (x.time.day = y.time.day /\ x.time.sec < y.time.sec)
================================================================================
