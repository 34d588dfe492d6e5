------------------------------- MODULE AsnValues -------------------------------
(***************************************************************************)
(* Numbers and object identifiers out of decoded values: INTEGER.c,        *)
(* OBJECT_IDENTIFIER.c and oid.c.  What may fail returns a set.            *)
(***************************************************************************)
EXTENDS Der

CONSTANTS
  IntOctets,  \* sizeof(intmax_t)
  ArcBits     \* 8 * sizeof(asn_oid_arc_t)

(* Octets as an unsigned number. *)
Unsigned(b) == FoldLeft(LAMBDA n, o : 256 * n + o, 0, b)

(* asn__integer_convert() *)
Signed(b) ==
  IF b # <<>> /\ b[1] >= 128 THEN Unsigned(b) - 256^Len(b) ELSE Unsigned(b)

(* Mutant of asn_INTEGER2umax: octets that do not fit are dropped. *)
UmaxDrops(b) ==
  {Unsigned(From(b, IF Len(b) > IntOctets THEN Len(b) - IntOctets + 1 ELSE 1))}

(* Leading zeros are ignored; negative numbers become large ones. *)
asn_INTEGER2umax(b) ==
  LET extra == IF Len(b) > IntOctets THEN Len(b) - IntOctets ELSE 0
  IN  IF \E i \in 1..extra : b[i] # 0 THEN {} ELSE {Unsigned(From(b, extra + 1))}

asn_INTEGER2imax(b) ==
  LET c == IF Len(b) > IntOctets THEN CanonicalInteger(b) ELSE b
  IN  IF Len(c) > IntOctets THEN {} ELSE {Signed(c)}

asn_imax2INTEGER(n) ==
  LET u == n % 256^IntOctets
  IN  CanonicalInteger([i \in 1..IntOctets |-> (u \div 256^(IntOctets - i)) % 256])

-----------------------------------------------------------------------------
(* OBJECT_IDENTIFIER_get_single_arc(): the accumulator may overflow. *)
SingleArc(b) ==
  LET ends == {i \in DOMAIN b : b[i] < 128}
      end == CHOOSE i \in ends : \A j \in ends : i <= j
  IN  IF ends = {} THEN {}
      ELSE {[n |-> end, arc |-> FoldLeft(LAMBDA a, o : (128 * a + (o % 128)) % 2^ArcBits, 0,
                                         SubSeq(b, 1, end))]}

(* OBJECT_IDENTIFIER_get_first_arcs() *)
FirstArcs(value) ==
  IF value >= 80 THEN <<2, value - 80>>
  ELSE IF value >= 40 THEN <<1, value - 40>>
  ELSE <<0, value>>

RECURSIVE OtherArcs(_)
OtherArcs(b) ==
  IF b = <<>> THEN {<<>>}
  ELSE UNION {{<<a.arc>> \o rest : rest \in OtherArcs(From(b, a.n + 1))} : a \in SingleArc(b)}

OBJECT_IDENTIFIER_get_arcs(b) ==
  UNION {{FirstArcs(a.arc) \o rest : rest \in OtherArcs(From(b, a.n + 1))} : a \in SingleArc(b)}

(* oid2arcs(): all the arcs, however many; arcs_equal() compares sequences. *)
oid2arcs(b) == OBJECT_IDENTIFIER_get_arcs(b)
=============================================================================
