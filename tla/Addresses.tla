------------------------------- MODULE Addresses -------------------------------
(***************************************************************************)
(* IP addresses, prefixes and ranges: address.c and the successors of      *)
(* resource/ip6.c.                                                         *)
(*                                                                         *)
(* An IPv4 address is a number in host order.  An IPv6 address is the      *)
(* sequence of its octets, and the code works on its four quadrants.  What *)
(* may fail returns a set: empty, or the result.                           *)
(***************************************************************************)
EXTENDS Integers, Sequences, SequencesExt, Bitwise

CONSTANTS
  OctetBits,       \* 8
  QuadrantOctets   \* 4: octets of an IPv4 address, and of a quadrant

Quadrants == 4
QuadrantBits == OctetBits * QuadrantOctets
QuadrantMax == 2^QuadrantBits - 1
V6Octets == Quadrants * QuadrantOctets
V6Bits == Quadrants * QuadrantBits

Octet == 0..(2^OctetBits - 1)

(* Big endian. *)
Number(octets) == FoldLeft(LAMBDA n, o : n * 2^OctetBits + o, 0, octets)
NthOctet(value, k) == (value \div 2^(OctetBits * (QuadrantOctets - 1 - k))) % 2^OctetBits

u32_suffix_mask(prefix_len) ==
  IF prefix_len < QuadrantBits THEN 2^(QuadrantBits - prefix_len) - 1 ELSE 0

addr6_get_quadrant(addr, q) ==
  Number(SubSeq(addr, q * QuadrantOctets + 1, (q + 1) * QuadrantOctets))

InQuadrant(i, q) == (i - 1) \div QuadrantOctets = q

addr6_set_quadrant(addr, q, value) ==
  [i \in DOMAIN addr |->
     IF InQuadrant(i, q) THEN NthOctet(value, (i - 1) % QuadrantOctets) ELSE addr[i]]

addr6_or_quadrant(addr, q, value) ==
  [i \in DOMAIN addr |->
     IF InQuadrant(i, q) THEN addr[i] | NthOctet(value, (i - 1) % QuadrantOctets)
                         ELSE addr[i]]

addr6_bitwise_and(a1, a2) == \E i \in DOMAIN a1 : a1[i] & a2[i] # 0

(* The quadrant that holds the end of the prefix gets the mask, those at its
   right are filled.                                                        *)
ipv6_suffix_mask(prefix_len, result) ==
  LET last == IF prefix_len < V6Bits THEN prefix_len \div QuadrantBits ELSE Quadrants - 1
      masked == addr6_or_quadrant(result, last,
                                  u32_suffix_mask(prefix_len - last * QuadrantBits))
  IN FoldLeft(LAMBDA a, q : IF q > last THEN addr6_set_quadrant(a, q, QuadrantMax) ELSE a,
              masked, <<0, 1, 2, 3>>)

Padded(octets, n) == [i \in 1..n |-> IF i <= Len(octets) THEN octets[i] ELSE 0]
Zeroes6 == Padded(<<>>, V6Octets)

(* The checks the two decoders share; str is a BIT STRING, which may say that
   it has more unused bits than bits.                                        *)
PrefixLength(str, octets) ==
  LET len == OctetBits * Len(str.buf) - str.bits_unused
  IN IF \/ Len(str.buf) > octets
        \/ str.bits_unused \notin 0..(OctetBits - 1)
        \/ len < 0
     THEN {} ELSE {len}

prefix4_decode(str) ==
  {p \in {[addr |-> Number(Padded(str.buf, QuadrantOctets)), len |-> l] :
            l \in PrefixLength(str, QuadrantOctets)} :
     p.addr & u32_suffix_mask(p.len) = 0}

prefix6_decode(str) ==
  {p \in {[addr |-> Padded(str.buf, V6Octets), len |-> l] :
            l \in PrefixLength(str, V6Octets)} :
     ~addr6_bitwise_and(p.addr, ipv6_suffix_mask(p.len, Zeroes6))}

check_order4(range) == range.min <= range.max

check_order6(range) ==
  LET Lo(q) == addr6_get_quadrant(range.min, q)
      Hi(q) == addr6_get_quadrant(range.max, q)
      differing == {q \in 0..3 : Lo(q) # Hi(q)}
  IN \A q \in differing : (\A r \in differing : q <= r) => Lo(q) < Hi(q)

(* Bit number k of a quadrant, from the left. *)
Bit(value, k) == (value \div 2^(QuadrantBits - 1 - k)) % 2

(* Two numbers of several quadrants, as bits: is there, from the first bit in
   which they differ on, one that is not 0 below and 1 above?  Otherwise the
   range should have been a prefix.                                         *)
MustBeRange(lo, hi, bits) ==
  \E k \in bits :
    /\ \E j \in bits : j <= k /\ lo[j] # hi[j]
    /\ lo[k] # 0 \/ hi[k] = 0

check_encoding4(range) ==
  MustBeRange([k \in 0..(QuadrantBits - 1) |-> Bit(range.min, k)],
              [k \in 0..(QuadrantBits - 1) |-> Bit(range.max, k)],
              0..(QuadrantBits - 1))

Bits6(addr) ==
  [k \in 0..(V6Bits - 1) |-> Bit(addr6_get_quadrant(addr, k \div QuadrantBits), k % QuadrantBits)]

check_encoding6(range) == MustBeRange(Bits6(range.min), Bits6(range.max), 0..(V6Bits - 1))

range4_decode(input) ==
  {r \in {[min |-> lo.addr, max |-> hi.addr | u32_suffix_mask(hi.len)] :
            lo \in prefix4_decode(input.min), hi \in prefix4_decode(input.max)} :
     check_order4(r) /\ check_encoding4(r)}

range6_decode(input) ==
  {r \in {[min |-> lo.addr, max |-> ipv6_suffix_mask(hi.len, hi.addr)] :
            lo \in prefix6_decode(input.min), hi \in prefix6_decode(input.max)} :
     check_order6(r) /\ check_encoding6(r)}

(* The text of a number: whether a minus sign is in front of its digits, the
   number they spell, 0 if there are none, and whether the text is nothing but
   digits.  strtoul() does not look at what surrounds them, and the negative of
   a number wraps around an unsigned long of LongBits bits.                    *)
LongBits == 16
strtoul(text) == IF text.negative THEN (2^LongBits - text.digits) % 2^LongBits ELSE text.digits

(* prefix_length_parse(): strtoul() reports what does not fit an unsigned long. *)
prefix_length_parse(text, max_value) ==
  IF text.digits >= 2^LongBits \/ strtoul(text) > max_value THEN {} ELSE {strtoul(text)}

ipv4_prefix_validate(prefix) == prefix.addr & u32_suffix_mask(prefix.len) = 0

ipv6_prefix_validate(prefix) ==
  ~addr6_bitwise_and(prefix.addr, ipv6_suffix_mask(prefix.len, Zeroes6))

ipv4_covered(f_addr, f_len, son_addr) ==
  son_addr & (QuadrantMax - u32_suffix_mask(f_len)) = f_addr

ipv6_covered(f_addr, f_len, son_addr) ==
  LET suffix == ipv6_suffix_mask(f_len, Zeroes6)
  IN \A i \in DOMAIN son_addr : son_addr[i] & (2^OctetBits - 1 - suffix[i]) = f_addr[i]

(* addr_is_successor(): the carry runs from the last octet. *)
addr_is_successor(a, b) ==
  \E i \in DOMAIN a :
    /\ a[i] # 2^OctetBits - 1
    /\ \A j \in DOMAIN a : j > i => a[j] = 2^OctetBits - 1
    /\ b = [j \in DOMAIN a |-> IF j < i THEN a[j] ELSE IF j = i THEN a[i] + 1 ELSE 0]


(* r6_cmp(): memcmp() orders addresses by their first octet that differs. *)
addr_lt(a, b) == \E i \in DOMAIN a : a[i] < b[i] /\ \A j \in DOMAIN a : j < i => a[j] = b[j]
addr_le(a, b) == a = b \/ addr_lt(a, b)

r6_cmp(n1, n2) ==
  IF n1 = n2 THEN "EQUAL"
  ELSE IF addr_le(n1.min, n2.min) /\ addr_le(n2.max, n1.max) THEN "CHILD"
  ELSE IF addr_le(n2.min, n1.min) /\ addr_le(n1.max, n2.max) THEN "PARENT"
  ELSE IF addr_is_successor(n1.max, n2.min) THEN "ADJACENT_RIGHT"
  ELSE IF addr_lt(n1.max, n2.min) THEN "RIGHT"
  ELSE IF addr_is_successor(n2.max, n1.min) THEN "ADJACENT_LEFT"
  ELSE IF addr_lt(n2.max, n1.min) THEN "LEFT"
  ELSE "INTERSECTION"

(* Unsigned subtraction. *)
Below(n) == (n - 1) % 2^QuadrantBits

r4_cmp(n1, n2) ==
  IF n1 = n2 THEN "EQUAL"
  ELSE IF n1.min <= n2.min /\ n2.max <= n1.max THEN "CHILD"
  ELSE IF n2.min <= n1.min /\ n1.max <= n2.max THEN "PARENT"
  ELSE IF n2.min # 0 /\ n1.max = Below(n2.min) THEN "ADJACENT_RIGHT"
  ELSE IF n1.max < n2.min THEN "RIGHT"
  ELSE IF n1.min # 0 /\ n2.max = Below(n1.min) THEN "ADJACENT_LEFT"
  ELSE IF n2.max < n1.min THEN "LEFT"
  ELSE "INTERSECTION"

(* asn_cmp() is r4_cmp() on the wider unsigned long. *)
asn_cmp(n1, n2) == r4_cmp(n1, n2)

--------------------------------------------------------------------------------
(***************************************************************************)
(* What the operators should compute: intervals of whole numbers.          *)
(***************************************************************************)

\* The addresses that begin with the bits of a BIT STRING, for a family of
\* addresses of the given number of octets; empty when it is malformed.
Denoted(str, octets) ==
  LET bits == OctetBits * octets
      len == OctetBits * Len(str.buf) - str.bits_unused
      lo == Number(Padded(str.buf, octets))
  IN IF \/ Len(str.buf) > octets
        \/ str.bits_unused \notin 0..(OctetBits - 1)
        \/ len < 0
        \/ lo % 2^(bits - len) # 0
     THEN {} ELSE {[min |-> lo, max |-> lo + 2^(bits - len) - 1]}

IsBlock(r, bits) ==
  \E k \in 0..bits : r.max - r.min + 1 = 2^k /\ r.min % 2^k = 0

DenotedRange(input, octets) ==
  {r \in {[min |-> lo.min, max |-> hi.max] :
            lo \in Denoted(input.min, octets), hi \in Denoted(input.max, octets)} :
     r.min <= r.max /\ ~IsBlock(r, OctetBits * octets)}

AsNumbers(ranges) == {[min |-> Number(r.min), max |-> Number(r.max)] : r \in ranges}
================================================================================
