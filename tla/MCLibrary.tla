------------------------------- MODULE MCLibrary -------------------------------
(***************************************************************************)
(* The sequential parts of the program on small instances.  A behaviour    *)
(* deals with one area: either one of the machines (sorted arrays,         *)
(* resources, update notifications) takes its steps, or an input of a      *)
(* function is chosen and the invariants compare its result with the       *)
(* definition of what it should be.                                        *)
(***************************************************************************)
EXTENDS SortedArray, Resources, Slurm, RrdpNotification, Encodings

vars == <<sarray_vars, resource_vars, notification_vars, area, input>>

--------------------------------------------------------------------------------
(***************************************************************************)
(* Inputs.                                                                 *)
(***************************************************************************)

(* Claims over four numbers: everything, nested, overlapping, split, unsorted,
   adjacent, malformed and empty; inverted and too large for AS numbers.     *)
FewElements ==
  LET r(a, b) == [min |-> a, max |-> b]
  IN [k \in Kinds |->
        IF k = "asns" THEN {<<r(0, 3)>>, <<r(1, 1)>>, <<r(2, 1)>>, <<r(0, MaxValue + 1)>>}
        ELSE {<<r(0, 3)>>, <<r(0, 1)>>, <<r(1, 2)>>, <<r(0, 1), r(3, 3)>>,
              <<r(3, 3), r(0, 0)>>, <<r(0, 0), r(1, 1)>>, <<r(0, 0), Bad>>, <<>>}]

BitString(buf, unused) == [buf |-> buf, bits_unused |-> unused]

(* All BIT STRINGs of up to one octet more than an IPv4 address. *)
BitStrings4 ==
  {BitString(b, u) : b \in UNION {[1..n -> Octet] : n \in 0..QuadrantOctets + 1},
                     u \in -1..OctetBits}

(* Prefixes of a few IPv6 addresses, of every length, some with bits to spare. *)
BitStrings6 ==
  LET patterns == {[i \in 1..V6Octets |-> 0], [i \in 1..V6Octets |-> 2^OctetBits - 1],
                   [i \in 1..V6Octets |-> IF i = 3 THEN 2 ELSE 0],
                   [i \in 1..V6Octets |-> IF i > V6Octets - 3 THEN 3 ELSE 1]}
  IN {BitString(SubSeq(p, 1, n), u) : p \in patterns, n \in 0..V6Octets, u \in 0..OctetBits - 1}
       \cup {BitString([i \in 1..V6Octets + 1 |-> 0], 0)}

Addrs6 == {[i \in 1..V6Octets |-> IF i < n THEN 0 ELSE IF i = n THEN o ELSE 2^OctetBits - 1] :
             n \in 1..V6Octets + 1, o \in Octet}

Nothing == [kind |-> "nothing"]
Other == [kind |-> "other"]
AddressText(fam, addr) == [kind |-> "address", fam |-> fam, addr |-> addr]
Plain(n) == [kind |-> "number", negative |-> FALSE, digits |-> n, plain |-> TRUE]
Around(n) == [Plain(n) EXCEPT !.plain = FALSE]
Negative(n) == [Around(n) EXCEPT !.negative = TRUE]
SomeAddr6 == [i \in 1..V6Octets |-> IF i = 1 THEN 2 ELSE 0]
JsonStr(v) == [text |-> v]
JsonInt(v) == [int |-> v]

(* Objects with any choice of members, from sets of values per member. *)
Objects(values) ==
  FoldSet(LAMBDA m, objects : objects \cup {o @@ (m :> v) : o \in objects, v \in values[m]},
          {<<>>}, DOMAIN values)

(* Well formed texts, texts that only look like one, and texts without tokens. *)
PrefixTexts ==
  LET four == AddressText("v4", 4)
      zero == AddressText("v4", 0)
      six == AddressText("v6", SomeAddr6)
  IN {<<four, Plain(l)>> : l \in {1, 2, QuadrantBits, QuadrantBits + 1, 2^LongBits + 2}}
       \cup {<<six, Plain(l)>> : l \in {0, 1, V6Bits}}
       \cup {<<zero, Plain(0)>>, <<Other, Plain(0)>>, <<zero>>}
       \cup {<<zero, Around(0)>>, <<four, Around(2)>>, <<zero, Negative(1)>>, <<four, Negative(2^LongBits - 2)>>}
       \cup {<<Nothing, four, Plain(2)>>, <<four, Nothing, Plain(2)>>, <<four, Plain(2), Plain(9)>>}
       \cup {<<Nothing>>, <<Nothing, Nothing>>}

PrefixValues ==
  [asn |-> {JsonInt(-1), JsonInt(0), JsonInt(AsnMax), JsonInt(AsnMax + 1), JsonStr("x")},
   prefix |-> {JsonInt(1)} \cup {JsonStr(t) : t \in PrefixTexts},
   maxPrefixLength |-> {JsonInt(0), JsonInt(1), JsonInt(QuadrantBits), JsonInt(V6Bits), JsonInt(V6Bits + 1)},
   comment |-> {JsonStr("c"), JsonInt(1)},
   unknown |-> {JsonInt(1)}]

Base64(padded, decodes, octets, spki) ==
  JsonStr([padded |-> padded, decodes |-> decodes, octets |-> octets, spki |-> spki,
           data |-> <<octets, spki>>])

BgpsecValues ==
  [asn |-> {JsonInt(0), JsonInt(AsnMax), JsonInt(AsnMax + 1)},
   SKI |-> {JsonInt(1), Base64(TRUE, TRUE, SkiOctets, FALSE), Base64(FALSE, FALSE, 0, FALSE),
            Base64(FALSE, TRUE, SkiOctets - 1, FALSE), Base64(FALSE, TRUE, SkiOctets, FALSE)},
   routerPublicKey |-> {JsonInt(1), Base64(FALSE, FALSE, 0, FALSE),
                        Base64(FALSE, TRUE, 1, FALSE), Base64(FALSE, TRUE, 1, TRUE)},
   comment |-> {JsonStr("c"), JsonInt(1)},
   unknown |-> {JsonInt(1)}]

(* Rules over the IPv4 prefixes of up to two bits and one IPv6 prefix. *)
Prefix4(len, k) == [fam |-> "v4", addr |-> k * 2^(QuadrantBits - len), len |-> len]
FewPrefixes == {Prefix4(0, 0), Prefix4(1, 0), Prefix4(1, 1), Prefix4(2, 1),
                [fam |-> "v6", addr |-> SomeAddr6, len |-> 1]}
PfxFilters == [asn : {NoAsn, 1, 2}, prefix : FewPrefixes, max : {NoMax}]
                \cup [asn : {1}, prefix : {NoPrefix}, max : {NoMax}]
PfxAssertions == [asn : {1}, prefix : FewPrefixes, max : {NoMax}]
Vrps4 == [asn : {1, 2}, prefix : FewPrefixes, max : {2}]
Keys == [asn : {1, 2}, ski : {{"s"}, {"t"}}, key : {{"k"}}]
BgpsFilters == [asn : {NoAsn, 1}, ski : {{"s"}}, key : {{}}] \cup [asn : {1}, ski : {{}}, key : {{}}]

(* Files of one or two rules, in sequences of up to three files. *)
FewFiles ==
  LET file(pf, pa, bf, ba) == [pfx_filters |-> pf, pfx_assertions |-> pa,
                               bgps_filters |-> bf, bgps_assertions |-> ba]
      rule(p) == [asn |-> NoAsn, prefix |-> p, max |-> NoMax]
      key(a) == [asn |-> a, ski |-> {"s"}, key |-> {}]
  IN {file(<<rule(p)>>, <<>>, <<>>, <<>>) : p \in FewPrefixes \cup {NoPrefix}}
       \cup {file(<<>>, <<rule(Prefix4(2, 3))>>, <<>>, <<>>),
             file(<<rule(Prefix4(2, 0))>>, <<rule(Prefix4(2, 0))>>, <<key(1)>>, <<>>),
             file(<<>>, <<>>, <<>>, <<key(1)>>), file(<<>>, <<>>, <<key(NoAsn)>>, <<key(2)>>)}
--------------------------------------------------------------------------------
(***************************************************************************)
(* Steps.                                                                  *)
(***************************************************************************)
Idle == UNCHANGED <<sarray_vars, resource_vars, notification_vars>>

(* The values of the notification's variables where it is not dealt with. *)
NoNotification ==
  /\ max_serial = 0 /\ from_serial = 1 /\ parsed = <<>> /\ list = EmptyList(0)
  /\ next = 1 /\ outcome = "parsing" /\ called = <<>>

Init ==
  /\ SarrayInit
  /\ ResourcesInit
  /\ \/ area = "notification" /\ NotificationInit
     \/ area \in {"array", "resources", "functions"} /\ NoNotification
  /\ input = <<>>

ArrayStep == area = "array" /\ SarrayNext /\ UNCHANGED <<resource_vars, notification_vars, area, input>>

ResourcesStep == area = "resources" /\ ResourcesNext /\ UNCHANGED <<sarray_vars, notification_vars, area, input>>

NotificationStep ==
  area = "notification" /\ NotificationNext /\ UNCHANGED <<sarray_vars, resource_vars, area, input>>

EncodingStep == EncodingNext /\ Idle

Choose(name, inputs) == ChooseInput(name, inputs) /\ Idle

ChoosePrefix == Choose("prefix4", BitStrings4) \/ Choose("prefix6", BitStrings6)

ChooseRange ==
  LET short == {s \in BitStrings4 : Len(s.buf) <= QuadrantOctets /\ s.bits_unused \in 0..1}
  IN \/ Choose("range4", [min : short, max : short])
     \/ Choose("range6", [min : BitStrings6, max : BitStrings6])

ChooseCover ==
  \/ Choose("cover4", [p : UNION {prefix4_decode(s) : s \in BitStrings4}, addr : 0..QuadrantMax])
  \/ Choose("cover6", [p : UNION {prefix6_decode(s) : s \in BitStrings6}, addr : Addrs6])

ChooseSuccessor == Choose("successor", Addrs6 \X Addrs6)

ChooseRanges ==
  LET ends4 == {0, 1, 2, 3, QuadrantMax - 1, QuadrantMax}
      ends6 == {a \in Addrs6 : Number(a) \in {0, 1, 3, 4, 2^V6Bits - 2, 2^V6Bits - 1}}
  IN \/ Choose("cmp4", {[n1 |-> n, n2 |-> o] : n, o \in {r \in [min : ends4, max : ends4] : r.min <= r.max}})
     \/ Choose("cmp6", {[n1 |-> n, n2 |-> o] : n, o \in {r \in [min : ends6, max : ends6] : Number(r.min) <= Number(r.max)}})

ChooseSlurmRule ==
  \/ Choose("slurm_prefix", [object : Objects(PrefixValues), is_assertion : BOOLEAN])
  \/ Choose("slurm_bgpsec", [object : Objects(BgpsecValues), is_assertion : BOOLEAN, taken : {{}, {0}}])

ChooseSlurmFiles == Choose("slurm_files", UNION {[1..n -> FewFiles] : n \in 1..3})

ChooseSlurm ==
  Choose("slurm", [filter : PfxFilters, assertion : PfxAssertions, vrp : Vrps4,
                   bgpsec : BgpsFilters, key : Keys])

Next ==
  \/ ArrayStep
  \/ ResourcesStep
  \/ NotificationStep
  \/ EncodingStep
  \/ ChoosePrefix
  \/ ChooseRange
  \/ ChooseCover
  \/ ChooseSuccessor
  \/ ChooseRanges
  \/ ChooseSlurmRule
  \/ ChooseSlurmFiles
  \/ ChooseSlurm

Spec == Init /\ [][Next]_vars
--------------------------------------------------------------------------------
(***************************************************************************)
(* What the functions compute.                                             *)
(***************************************************************************)

\* prefix4_decode(), prefix6_decode(), range4_decode() and range6_decode() accept
\* exactly the BIT STRINGs that RFC 3779 allows, and turn them into the interval
\* of addresses they denote: the masks by octets and quadrants agree with
\* arithmetic on whole addresses, and no range is accepted that is a prefix.
AddressesDecoded ==
  /\ area = "prefix4" =>
       {[min |-> p.addr, max |-> p.addr | u32_suffix_mask(p.len)] : p \in prefix4_decode(input)}
         = Denoted(input, QuadrantOctets)
  /\ area = "prefix6" =>
       AsNumbers({[min |-> p.addr, max |-> ipv6_suffix_mask(p.len, p.addr)] : p \in prefix6_decode(input)})
         = Denoted(input, V6Octets)
  /\ area = "range4" => range4_decode(input) = DenotedRange(input, QuadrantOctets)
  /\ area = "range6" => AsNumbers(range6_decode(input)) = DenotedRange(input, V6Octets)

\* ipv4_covered(), ipv6_covered() and addr_is_successor() agree with intervals and
\* with addition on whole addresses, carries included.
CoverageExact ==
  /\ area = "cover4" =>
       (ipv4_covered(input.p.addr, input.p.len, input.addr)
          <=> input.addr \in input.p.addr..(input.p.addr + 2^(QuadrantBits - input.p.len) - 1))
  /\ area = "cover6" =>
       LET lo == Number(input.p.addr)
       IN ipv6_covered(input.p.addr, input.p.len, input.addr)
            <=> Number(input.addr) \in lo..(lo + 2^(V6Bits - input.p.len) - 1)
  /\ area = "successor" =>
       (addr_is_successor(input[1], input[2]) <=> Number(input[1]) + 1 = Number(input[2]))

\* r4_cmp(), asn_cmp() and r6_cmp() see two ranges as they lie on the line of
\* whole numbers, also at its ends, where unsigned arithmetic would wrap.
ComparisonsExact ==
  LET Numbers(r) == [min |-> Number(r.min), max |-> Number(r.max)]
  IN /\ area = "cmp4" => /\ r4_cmp(input.n1, input.n2) = sarray_cmp(input.n1, input.n2)
                         /\ asn_cmp(input.n1, input.n2) = sarray_cmp(input.n1, input.n2)
     /\ area = "cmp6" => r6_cmp(input.n1, input.n2) = sarray_cmp(Numbers(input.n1), Numbers(input.n2))

\* load_single_prefix() reads every prefix filter and assertion of RFC 8416 as what
\* it says, except that a maximum length of 0 is refused.  What it accepts
\* otherwise is an object whose prefix is not an address, a slash and digits:
\* other text around the length, or more slashes, are passed over, and the rule is
\* the one that the prefix it found there, correctly written, makes of the object.
\* A prefix without any text but slashes ends the process.
SlurmPrefixExact ==
  area = "slurm_prefix" =>
    LET object == input.object
        rules == load_single_prefix(object, input.is_assertion)
        written(p) == <<AddressText(p.fam, p.addr), Plain(p.len)>>
        spelt == Has(object, "prefix") /\ IsString(object["prefix"])
        slashes == spelt /\ \A part \in ToSet(object["prefix"].text) : part = Nothing
        zero == Has(object, "maxPrefixLength") /\ object["maxPrefixLength"] = JsonInt(0)
    IN IF IsPrefixRule(object, input.is_assertion)
       THEN rules = IF zero THEN {} ELSE {Meant(object)}
       ELSE IF slashes
       THEN rules = {Crash : asn \in set_asn(object, input.is_assertion)}
       ELSE \A r \in rules :
              /\ spelt
              /\ LET correct == [object EXCEPT !["prefix"] = JsonStr(written(r.prefix))]
                 IN IsPrefixRule(correct, input.is_assertion) /\ r = Meant(correct)

\* load_single_bgpsec() frees each buffer it allocated exactly once, or hands it
\* to the list, on every path out of it.
SlurmBuffersOnce ==
  area = "slurm_bgpsec" =>
    LET done == load_single_bgpsec(input.object, input.is_assertion, input.taken)
        ski == set_ski(input.object, input.is_assertion)
        key == set_router_pub_key(input.object, input.is_assertion)
        asn == set_asn(input.object, input.is_assertion)
    IN IF done.rules # {} THEN done.frees = [ski |-> 0, key |-> 0]
       ELSE /\ asn # {} /\ (ski.buffer # {} \/ ski.frees > 0) => done.frees.ski = 1
            /\ asn # {} /\ ~ski.error /\ (key.buffer # {} \/ key.frees > 0) => done.frees.key = 1
            /\ asn = {} => done.frees = [ski |-> 0, key |-> 0]

\* Files are refused together exactly when two of them speak of the same address
\* or ASN, whichever is read first, although each is only compared with the
\* files read before it.
SlurmConflictsExact ==
  area = "slurm_files" => (load_slurm_files(input) = {} <=> Conflict(input))

\* slurm_apply() drops exactly the records that a filter matches and adds the
\* assertions, which no filter touches.
SlurmApplied ==
  area = "slurm" =>
    LET lists == [NoLists EXCEPT !.pfx_filters = <<input.filter>>,
                                 !.pfx_assertions = <<input.assertion>>,
                                 !.bgps_filters = <<input.bgpsec>>]
        done == slurm_apply([vrps |-> {input.vrp}, keys |-> {input.key}], lists)
        asserted == AssertedVrp(input.assertion)
    IN /\ asserted \in done.vrps
       /\ input.vrp # asserted => (input.vrp \in done.vrps <=> ~Matches(input.filter, input.vrp))
       /\ input.key \in done.keys
            <=> ~(/\ input.bgpsec.asn \in {NoAsn, input.key.asn}
                  /\ input.bgpsec.ski \in {{}, input.key.ski})

\* Resources: no certificate of a path, and no signed object under it, holds an
\* address or an AS number its issuer lacks; arrays hold exactly what was named
\* (resource.c) and are freed when the last holder leaves; and the addresses,
\* masks and comparisons they rest on (address.c, resource/ip4.c, resource/ip6.c,
\* resource/asn.c) agree with RFC 3779 and with arithmetic on whole numbers.
ResourcesExact ==
  /\ ResourcesTypeOK
  /\ NeverOverclaims
  /\ HoldsWhatItNames
  /\ RefsAreHolders
  /\ AddressesDecoded
  /\ CoverageExact
  /\ ComparisonsExact

\* SLURM: the rules of RFC 8416 are read as what they say, and what else is read is
\* known (SlurmPrefixExact); files are accepted exactly when no two conflict, every buffer is freed once on every error path, and
\* filters never touch assertions (slurm_parser.c, db_slurm.c, slurm_loader.c).
SlurmExact ==
  /\ SlurmPrefixExact
  /\ SlurmBuffersOnce
  /\ SlurmConflictsExact
  /\ SlurmApplied

\* Update notifications: exactly the contiguous lists of deltas are accepted, in
\* whatever order they are parsed, and if the list reaches back to the local
\* copy exactly the missing deltas are processed, oldest first (rrdp_objects.c).
NotificationsExact ==
  /\ AcceptsExactlyContiguous
  /\ ArrayAscends
  /\ CoveredGapIsProcessed

\* asn1_decode(): the decoder and the tables of the generated types find in any
\* octets exactly what the grammar of BER says they mean, encoding the value
\* again recognises DER, and every spelling of an object has the same value.
DecodingExact ==
  /\ GrammarExact
  /\ PolicyExact
  /\ MeaningKept
  /\ FamiliesChecked

\* The conversions under the decoder: headers, lengths, numbers, OIDs and times are
\* converted exactly within the width of their C types and refused beyond it.
ConversionsExact ==
  /\ TablesConsistent
  /\ HeadersExact
  /\ LengthsShortest
  /\ NumbersExact
  /\ OidsExact
  /\ TimesExact
================================================================================
