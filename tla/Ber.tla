--------------------------------- MODULE Ber ---------------------------------
(***************************************************************************)
(* The BER decoder of the asn1c runtime, on octets.                        *)
(*                                                                         *)
(* The program hands over whole objects and treats RC_WMORE as an error    *)
(* (decode.c), so what decodes returns a set: empty, or the one result,    *)
(* with the octets it consumed, or Endless.  Allocations succeed, and the  *)
(* depth of the recursion stays below the configured stack size.  No type  *)
(* of the tables is extensible: the branches for extensions are            *)
(* unreachable.                                                            *)
(*                                                                         *)
(* Values: [buf] for primitive types, [buf, unused, given] for strings     *)
(* (given: buf is not NULL), [octet] for BOOLEAN and NULL, [list] for SET  *)
(* OF and SEQUENCE OF, [present, value] for CHOICE, and a function from    *)
(* the names of the members that are there for SEQUENCE.                   *)
(***************************************************************************)
EXTENDS Asn1Types, FiniteSets, TLC

CONSTANTS
  TagBits,  \* 8 * sizeof(ber_tlv_tag_t)
  LenBits   \* 8 * sizeof(ber_tlv_len_t)

From(b, n) == SubSeq(b, n, Len(b))
Constructed(b) == (b[1] \div 32) % 2 = 1

-----------------------------------------------------------------------------
(* ber_tlv_tag.c and ber_tlv_length.c *)

RECURSIVE FetchLongTag(_, _, _, _)

FetchLongTag(b, n, val, class) ==
  IF n > Len(b) THEN {}
  ELSE IF b[n] < 128 THEN {[n |-> n, tag |-> 4 * (val * 128 + b[n]) + class]}
  ELSE LET next == val * 128 + (b[n] % 128)
       IN  IF next >= 2^(TagBits - 9) THEN {} ELSE FetchLongTag(b, n + 1, next, class)

ber_fetch_tag(b) ==
  IF b = <<>> THEN {}
  ELSE IF b[1] % 32 # 31 THEN {[n |-> 1, tag |-> 4 * (b[1] % 32) + (b[1] \div 64)]}
  ELSE FetchLongTag(b, 2, 0, b[1] \div 64)

RSSIZE_MAX == 2^(LenBits - 2) - 1

RECURSIVE FetchLongLength(_, _, _)
FetchLongLength(b, oct, len) ==
  IF oct = 0 THEN IF len > RSSIZE_MAX THEN {} ELSE {len}
  ELSE IF b = <<>> \/ len >= 2^(LenBits - 9) THEN {}
  ELSE FetchLongLength(Tail(b), oct - 1, 256 * len + b[1])

(* len is -1 for the indefinite form. *)
ber_fetch_length(constr, b) ==
  IF b = <<>> THEN {}
  ELSE IF b[1] < 128 THEN {[n |-> 1, len |-> b[1]]}
  ELSE IF constr /\ b[1] = 128 THEN {[n |-> 1, len |-> -1]}
  ELSE IF b[1] = 255 THEN {}
  ELSE {[n |-> 1 + (b[1] % 128), len |-> l] : l \in FetchLongLength(Tail(b), b[1] % 128, 0)}

(* A tag with its length, and the octets both take. *)
FetchTL(b) ==
  UNION {{[n |-> t.n + l.n, tag |-> t.tag, len |-> l.len] :
          l \in ber_fetch_length(Constructed(b), From(b, t.n + 1))} : t \in ber_fetch_tag(b)}

-----------------------------------------------------------------------------
(* ber_check_tags(): the tags of a type.  form is the last_tag_form.       *)

RECURSIVE CheckTagsFrom(_, _, _, _)
CheckTagsFrom(td, tag_mode, form, s) ==
  IF s.tagno >= Len(td.tags)
  THEN {[consumed |-> s.consumed, constr |-> s.constr,
         length |-> IF s.nulls > 0 THEN -s.nulls ELSE s.len]}
  ELSE UNION
    {LET constr == Constructed(s.buf)
         rest == From(s.buf, tl.n + 1)
     IN  IF /\ tag_mode = 0 \/ s.step > 0 => tl.tag = td.tags[s.tagno + 1]
            /\ IF s.tagno < Len(td.tags) - 1 THEN constr ELSE form \in {-1, IF constr THEN 1 ELSE 0}
            /\ IF tl.len = -1 THEN s.limit = -1
               ELSE s.nulls = 0 /\ s.limit \in {-1, tl.len + tl.n}
         THEN CheckTagsFrom(td, tag_mode, form,
                [buf |-> IF tl.len # -1 /\ tl.len < Len(rest) THEN SubSeq(rest, 1, tl.len) ELSE rest,
                 consumed |-> s.consumed + tl.n, tagno |-> s.tagno + 1, step |-> s.step + 1,
                 constr |-> constr, len |-> tl.len, limit |-> tl.len,
                 nulls |-> IF tl.len = -1 THEN s.nulls + 1 ELSE s.nulls])
         ELSE {} : tl \in FetchTL(s.buf)}

(* An untagged ANY has any tag.  length is -k after k indefinite lengths. *)
ber_check_tags(td, b, tag_mode, form) ==
  IF tag_mode = 0 /\ td.tags = <<>>
  THEN {[consumed |-> tl.n, constr |-> Constructed(b), length |-> tl.len] : tl \in FetchTL(b)}
  ELSE CheckTagsFrom(td, tag_mode, form,
         [buf |-> b, consumed |-> 0, tagno |-> IF tag_mode = 1 THEN -1 ELSE 0, step |-> 0,
          constr |-> FALSE, len |-> -1, limit |-> -1, nulls |-> 0])

-----------------------------------------------------------------------------
(* The part of a structure that is still to be read: left counts the       *)
(* octets of a definite length, or is -k for k end-of-contents octets.     *)
Frame(b, c) ==
  [buf |-> From(b, c.consumed + 1), left |-> c.length, consumed |-> c.consumed]

LEFT(f) == IF f.left >= 0 /\ f.left < Len(f.buf) THEN SubSeq(f.buf, 1, f.left) ELSE f.buf

ADVANCE(f, n) ==
  [f EXCEPT !.buf = From(f.buf, n + 1), !.consumed = @ + n,
            !.left = IF @ >= 0 THEN @ - n ELSE @]

AtEOC(f) == Len(LEFT(f)) >= 2 /\ f.buf[1] = 0 /\ f.buf[2] = 0

(* The end-of-contents octets, the last phase of SEQUENCE and SET OF: the  *)
(* frame after them.                                                       *)
RECURSIVE Terminators(_)
Terminators(f) ==
  IF f.left = 0 THEN {f}
  ELSE IF f.left < 0 /\ AtEOC(f) THEN Terminators([ADVANCE(f, 2) EXCEPT !.left = @ + 1])
  ELSE {}

Decoded(f, v) == [consumed |-> f.consumed, value |-> v]

(* The decoder does not return. *)
Endless == [consumed |-> -1, value |-> <<>>]
Ends(r) == r.consumed >= 0

(* ber_decode_primitive() *)
ber_decode_primitive(td, b, tag_mode) ==
  {Decoded(ADVANCE(f, f.left), [buf |-> SubSeq(f.buf, 1, f.left)]) :
     f \in {g \in {Frame(b, c) : c \in ber_check_tags(td, b, tag_mode, 0)} : g.left <= Len(g.buf)}}

(* BOOLEAN_decode_ber(), of NULL too: the first octet that is not zero. *)
BOOLEAN_decode_ber(td, b, tag_mode) ==
  {LET set == {i \in 1..Len(r.value.buf) : r.value.buf[i] # 0}
   IN  [r EXCEPT !.value = [octet |-> IF set = {} THEN 0
                                      ELSE r.value.buf[CHOOSE i \in set : \A j \in set : i <= j]]] :
     r \in ber_decode_primitive(td, b, tag_mode)}

-----------------------------------------------------------------------------
(* OCTET_STRING_decode_ber().  The constructed form keeps a stack of       *)
(* expectations; sel->cont_level is the position in the stack.             *)

NoString == [buf |-> <<>>, unused |-> 0, given |-> FALSE]
APPEND(v, octets) == [v EXCEPT !.buf = @ \o octets, !.given = TRUE]

(* ANY keeps tags and lengths, except for those of an explicit tag. *)
AppendTL(td, tag_mode, level, v, octets) ==
  IF td.op = "ANY" /\ (tag_mode # 1 \/ level > 0) THEN APPEND(v, octets) ELSE v

(* Contents of a primitive encoding; a BIT STRING begins with the number of unused bits. *)
AppendContents(td, v, octets) ==
  IF td.op = "BIT_STRING" /\ octets # <<>>
  THEN [APPEND(v, Tail(octets)) EXCEPT !.unused = octets[1]]
  ELSE APPEND(v, octets)

(* Finishing a BIT STRING: the unused bits are cleared. *)
Finish(td, v) ==
  IF td.op # "BIT_STRING" THEN {v}
  ELSE IF v.buf = <<>> THEN IF v.unused = 0 THEN {v} ELSE {}
  ELSE IF v.unused > 7 THEN {}
  ELSE {[v EXCEPT !.buf[Len(v.buf)] = @ - (@ % 2^v.unused)]}

Expected(td, level, tag) ==
  IF td.op = "ANY" \/ level = 0 THEN tag
  ELSE IF level <= Len(td.all_tags) THEN td.all_tags[level]
  ELSE td.all_tags[Len(td.all_tags)]

(* Phase 1, up to the next contents to be read, and phase 2, which reads   *)
(* them.  s: what is left of the buffer, octets consumed, stack, string.   *)
RECURSIVE Segments(_, _, _)

(* The innermost expectation is met. *)
Pop(s) ==
  LET n == Len(s.stack)
      sel == s.stack[n]
      prev == s.stack[n - 1]
  IN  IF n = 1 THEN {[s EXCEPT !.stack = <<>>]}
      ELSE IF prev.left # -1 /\ prev.left < sel.got THEN {}
      ELSE {[s EXCEPT !.stack =
               Append(SubSeq(s.stack, 1, n - 2),
                      [prev EXCEPT !.left = IF @ = -1 THEN @ ELSE @ - sel.got,
                                   !.got = @ + sel.got])]}

EndOfContents(td, tag_mode, s) ==
  LET n == Len(s.stack)
  IN  [s EXCEPT !.buf = From(@, 3), !.consumed = @ + 2,
                !.v = AppendTL(td, tag_mode, n - 1, @, <<0, 0>>),
                !.stack[n] = [@ EXCEPT !.got = @ + 2, !.left = 0, !.want_nulls = FALSE]]

(* A nested encoding; a primitive one with its contents. *)
Push(td, tag_mode, s, tl) ==
  LET n == Len(s.stack)
      outer == IF n = 0 THEN -1 ELSE s.stack[n].left
      primitive == ~Constructed(s.buf)
      rest == From(s.buf, tl.n + 1)
      left == IF tl.len = -1 /\ outer # -1 THEN outer - tl.n ELSE tl.len
      sel == [left |-> left, got |-> tl.n, want_nulls |-> tl.len = -1]
      v == AppendTL(td, tag_mode, n, s.v, SubSeq(s.buf, 1, tl.n))
  IN  IF \/ tl.tag # Expected(td, n, tl.tag)
         \/ outer # -1 /\ outer < tl.n + (IF tl.len = -1 THEN 0 ELSE tl.len)
         \/ primitive /\ left > Len(rest)
      THEN {}
      ELSE IF ~primitive
      THEN {[buf |-> rest, consumed |-> s.consumed + tl.n, stack |-> Append(s.stack, sel), v |-> v]}
      ELSE {[buf |-> From(rest, left + 1), consumed |-> s.consumed + tl.n + left,
             stack |-> Append(s.stack, [sel EXCEPT !.left = 0, !.got = @ + left]),
             v |-> IF left = 0 THEN v ELSE AppendContents(td, v, SubSeq(rest, 1, left))]}

Segments(td, tag_mode, s) ==
  LET n == Len(s.stack)
      sel == s.stack[n]
      frame == IF n = 0 \/ sel.left = -1 \/ sel.left > Len(s.buf) THEN s.buf
               ELSE SubSeq(s.buf, 1, sel.left)
  IN  IF n > 0 /\ sel.left <= 0 /\ ~sel.want_nulls
      THEN UNION {IF next.stack = <<>> THEN {next} ELSE Segments(td, tag_mode, next) : next \in Pop(s)}
      ELSE UNION {UNION {Segments(td, tag_mode, next) :
                           next \in IF n > 0 /\ sel.want_nulls /\ s.buf[1] = 0 /\ s.buf[2] = 0
                                    THEN {EndOfContents(td, tag_mode, s)}
                                    ELSE Push(td, tag_mode, s, tl)} : tl \in FetchTL(frame)}

OCTET_STRING_decode_ber(td, b, tag_mode) ==
  UNION {LET f == Frame(b, c)
             v == IF td.op = "ANY" /\ tag_mode # 1 THEN APPEND(NoString, SubSeq(b, 1, c.consumed))
                  ELSE NoString
             results ==
               IF c.constr
               THEN {[consumed |-> s.consumed, value |-> s.v] :
                       s \in Segments(td, tag_mode,
                                      [buf |-> b, consumed |-> 0, stack |-> <<>>, v |-> NoString])}
               ELSE IF f.left > Len(f.buf) THEN {}
               ELSE {Decoded(ADVANCE(f, f.left), AppendContents(td, v, SubSeq(f.buf, 1, f.left)))}
         IN  UNION {{[r EXCEPT !.value = w] : w \in Finish(td, r.value)} : r \in results} :
           c \in ber_check_tags(td, b, tag_mode, -1)}

-----------------------------------------------------------------------------
(* SEQUENCE_decode_ber(), SET_OF_decode_ber() and CHOICE_decode_ber()      *)

RECURSIVE ber_decode(_, _, _)

Entries(td, tag) == {td.tag2el[i][2] : i \in {j \in DOMAIN td.tag2el : td.tag2el[j][1] = tag}}

(* Mutant of FindElement: the search begins with the members already read. *)
FindBefore(td, edx, tag) ==
  LET scope == 1..(edx + td.elements[edx].optional)
      hits == {i \in scope \cap DOMAIN td.elements :
                 LET e == td.elements[i] IN e.tag = tag \/ e.any \/ e.tag = Ambiguous}
      first == CHOOSE i \in hits : \A j \in hits : i <= j
      best == Entries(td, tag) \cap scope
  IN  IF hits = {} THEN {}
      ELSE IF td.elements[first].tag = tag \/ td.elements[first].any THEN {first}
      ELSE {i \in best : \A j \in best : j <= i}

(* The member a tag belongs to: the next mandatory member or one of the    *)
(* optional ones before it; by the sorted table once a CHOICE is met.      *)
FindElement(td, edx, tag) ==
  LET scope == edx..(edx + td.elements[edx].optional)
      hits == {i \in scope \cap DOMAIN td.elements :
                 LET e == td.elements[i] IN e.tag = tag \/ e.any \/ e.tag = Ambiguous}
      first == CHOOSE i \in hits : \A j \in hits : i <= j
      best == Entries(td, tag) \cap scope
  IN  IF hits = {} THEN {}
      ELSE IF td.elements[first].tag = tag \/ td.elements[first].any THEN {first}
      ELSE {i \in best : \A j \in best : j <= i}

(* All members from this one on are optional. *)
MayEnd(td, edx) == edx - 1 + td.elements[edx].optional = Len(td.elements)

RECURSIVE Members(_, _, _, _)
Members(td, f, edx, v) ==
  IF edx > Len(td.elements) \/ (f.left < 0 /\ AtEOC(f) /\ MayEnd(td, edx))
  THEN {Decoded(g, v) : g \in Terminators(f)}
  ELSE IF f.left = 0 /\ MayEnd(td, edx) THEN {Decoded(f, v)}
  ELSE IF f.left < 0 /\ Len(f.buf) = 1 /\ f.buf[1] = 0 THEN {}
  ELSE UNION {UNION {UNION {IF ~Ends(r) THEN {r}
                            ELSE Members(td, ADVANCE(f, r.consumed), i + 1,
                                         (td.elements[i].name :> r.value) @@ v) :
                       r \in ber_decode(td.elements[i].type, LEFT(f), td.elements[i].tag_mode)} :
                i \in FindElement(td, edx, t.tag)} :
         t \in ber_fetch_tag(LEFT(f))}

(* Members that are neither pointers nor mandatory: zero until read. *)
Zeroed(td) ==
  [name \in {td.elements[i].name : i \in {j \in DOMAIN td.elements :
               ~td.elements[j].pointer /\ td.elements[j].optional > 0}} |-> [octet |-> 0]]

SEQUENCE_decode_ber(td, b, tag_mode) ==
  UNION {Members(td, Frame(b, c), 1, Zeroed(td)) : c \in ber_check_tags(td, b, tag_mode, 1)}

RECURSIVE List(_, _, _)
List(elm, f, l) ==
  IF f.left = 0 THEN {Decoded(f, [list |-> l])}
  ELSE IF f.left < 0 /\ AtEOC(f) THEN {Decoded(g, [list |-> l]) : g \in Terminators(f)}
  ELSE IF f.left < 0 /\ Len(f.buf) = 1 /\ f.buf[1] = 0 THEN {}
  ELSE UNION {IF elm.tag \notin {Ambiguous, t.tag} THEN {}
              ELSE UNION {IF ~Ends(r) THEN {r} ELSE List(elm, ADVANCE(f, r.consumed), Append(l, r.value)) :
                            r \in ber_decode(elm.type, LEFT(f), 0)} :
                t \in ber_fetch_tag(LEFT(f))}

SET_OF_decode_ber(td, b, tag_mode) ==
  UNION {List(td.elements[1], Frame(b, c), <<>>) : c \in ber_check_tags(td, b, tag_mode, 1)}

(* The frame of a CHOICE; the member is all an untagged one consists of. *)
ChoiceFrame(td, b, tag_mode) ==
  IF tag_mode # 0 THEN {Frame(b, c) : c \in ber_check_tags(td, b, tag_mode, -1)}
  ELSE {[buf |-> b, left |-> -1, consumed |-> 0]}

(* The member whose tag comes next, with its value. *)
ChoiceMember(td, f) ==
  UNION {{[i |-> i, r |-> r] :
            r \in ber_decode(td.elements[i].type, LEFT(f), td.elements[i].tag_mode)} :
           i \in UNION {Entries(td, t.tag) : t \in ber_fetch_tag(LEFT(f))}}

(* The last phase, with the value v: a zero octet that another one follows *)
(* is neither consumed nor refused, and the loop looks at it again.        *)
RECURSIVE ChoiceEnd(_, _)
ChoiceEnd(f, v) ==
  IF f.left = 0 THEN {Decoded(f, v)}
  ELSE IF f.left > 0 \/ Len(LEFT(f)) < 2 \/ f.buf[1] # 0 THEN {}
  ELSE IF f.buf[2] # 0 THEN {Endless}
  ELSE ChoiceEnd([ADVANCE(f, 2) EXCEPT !.left = @ + 1], v)

CHOICE_decode_ber(td, b, tag_mode) ==
  LET end(f, v) == IF tag_mode # 0 THEN ChoiceEnd(f, v) ELSE {Decoded(f, v)}
  IN  UNION {UNION {IF ~Ends(m.r) THEN {m.r}
                    ELSE end(ADVANCE(f, m.r.consumed), [present |-> m.i, value |-> m.r.value]) :
                      m \in ChoiceMember(td, f)} :
               f \in ChoiceFrame(td, b, tag_mode)}

ber_decode(td, b, tag_mode) ==
  CASE td.op \in {"INTEGER", "OBJECT_IDENTIFIER"} -> ber_decode_primitive(td, b, tag_mode)
    [] td.op \in {"BOOLEAN", "NULL"} -> BOOLEAN_decode_ber(td, b, tag_mode)
    [] td.op \in {"ANY", "BIT_STRING", "OCTET_STRING", "GeneralizedTime"} ->
         OCTET_STRING_decode_ber(td, b, tag_mode)
    [] td.op = "SEQUENCE" -> SEQUENCE_decode_ber(td, b, tag_mode)
    [] td.op \in {"SEQUENCE_OF", "SET_OF"} -> SET_OF_decode_ber(td, b, tag_mode)
    [] td.op = "CHOICE" -> CHOICE_decode_ber(td, b, tag_mode)
=============================================================================
