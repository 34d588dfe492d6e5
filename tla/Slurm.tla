--------------------------------- MODULE Slurm ---------------------------------
(***************************************************************************)
(* SLURM files: slurm_parser.c with json_parser.c, the rules they fill     *)
(* (db_slurm.c) and how these are applied to a table (slurm_loader.c).     *)
(*                                                                         *)
(* A JSON object is a function from the names of its members to their      *)
(* values, and a value is a record whose field is its type.  The text of a *)
(* prefix is the sequence of the parts between its slashes: nothing, an    *)
(* address as inet_pton() sees it, or the text of a number.  What may fail *)
(* returns a set: empty, or the result.                                    *)
(***************************************************************************)
EXTENDS Addresses

CONSTANTS
  AsnMax,        \* UINT32_MAX
  SkiOctets      \* RK_SKI_LEN

Has(object, name) == name \in DOMAIN object
IsInt(value) == "int" \in DOMAIN value
IsString(value) == "text" \in DOMAIN value
Value(value) == value[IF IsInt(value) THEN "int" ELSE "text"]

(* json_valid_members_count() *)
json_valid_members_count(object, loaded) == DOMAIN object = loaded

(* An optional member of the right type: the set of its values, with a member
   that is not there standing for the default.  {} is an error.              *)
OptionalMember(object, name, valid, default) ==
  IF ~Has(object, name) THEN {default} ELSE IF valid THEN {Value(object[name])} ELSE {}

NoAsn == -1
NoMax == -1
NoPrefix == [fam |-> "none", addr |-> 0, len |-> 0]

(* set_asn(): required by assertions. *)
set_asn(object, is_assertion) ==
  IF is_assertion /\ ~Has(object, "asn") THEN {}
  ELSE OptionalMember(object, "asn", IsInt(object["asn"]) /\ Value(object["asn"]) \in 0..AsnMax, NoAsn)

Width(fam) == IF fam = "v4" THEN QuadrantBits ELSE V6Bits

(* strtok() skips the parts in which there is nothing. *)
strtok(text) == SelectSeq(text, LAMBDA part : part.kind # "nothing")

(* The first token is the address and the second the length, which may be
   missing; what follows is not looked at.                                *)
ParsePrefix(tokens) ==
  IF tokens[1].kind # "address" \/ Len(tokens) = 1 THEN {}
  ELSE {p \in {[fam |-> tokens[1].fam, addr |-> tokens[1].addr, len |-> l] :
                 l \in prefix_length_parse(tokens[2], Width(tokens[1].fam))} :
          IF p.fam = "v4" THEN ipv4_prefix_validate(p) ELSE ipv6_prefix_validate(p)}

(* A text without tokens: strchr() is given the NULL that strtok() returned, and
   the process ends.                                                            *)
Crash == [NoPrefix EXCEPT !.fam = "crash"]

(* set_prefix(): required by assertions. *)
set_prefix(object, is_assertion) ==
  IF ~Has(object, "prefix") THEN IF is_assertion THEN {} ELSE {NoPrefix}
  ELSE IF ~IsString(object["prefix"]) THEN {}
  ELSE LET tokens == strtok(object["prefix"].text)
       IN IF tokens = <<>> THEN {Crash} ELSE ParsePrefix(tokens)

(* set_max_prefix_length(): unsupported by filters. *)
set_max_prefix_length(object, is_assertion, fam) ==
  IF ~is_assertion /\ Has(object, "maxPrefixLength") THEN {}
  ELSE LET max == object["maxPrefixLength"]
       IN OptionalMember(object, "maxPrefixLength",
            IsInt(max) /\ Value(max) \in 1..Width(fam), NoMax)

set_comment(object) == OptionalMember(object, "comment", IsString(object["comment"]), "none")

Loaded(object, names) == DOMAIN object \cap names

PrefixMembers == {"asn", "prefix", "maxPrefixLength", "comment"}

(* load_single_prefix() up to db_slurm_add_prefix_filter() or _assertion(). *)
load_single_prefix(object, is_assertion) ==
  IF Crash \in set_prefix(object, is_assertion) THEN {Crash : asn \in set_asn(object, is_assertion)}
  ELSE
  {r \in UNION {[asn : set_asn(object, is_assertion), prefix : {p},
                 max : set_max_prefix_length(object, is_assertion, p.fam)] :
                  p \in set_prefix(object, is_assertion)} :
     /\ set_comment(object) # {}
     /\ ~is_assertion => r.asn # NoAsn \/ r.prefix.fam # "none"
     /\ is_assertion /\ r.max # NoMax => r.prefix.len <= r.max
     /\ json_valid_members_count(object, Loaded(object, PrefixMembers))}

(* set_ski() and set_router_pub_key(): a base64 text without padding that
   decodes to the right length, or to a key of the right algorithm.  They tell
   which buffer they leave allocated and how often they freed it.            *)
Base64Result(error, buffer, frees) == [error |-> error, buffer |-> buffer, frees |-> frees]

DecodeBase64(value, fits) ==
  IF ~IsString(value) \/ value.text.padded \/ ~value.text.decodes THEN Base64Result(TRUE, {}, 0)
  ELSE IF ~fits THEN Base64Result(TRUE, {}, 1)
  ELSE Base64Result(FALSE, {value.text.data}, 0)

set_ski(object, is_assertion) ==
  IF ~Has(object, "SKI") THEN Base64Result(is_assertion, {}, 0)
  ELSE DecodeBase64(object["SKI"], object["SKI"].text.octets = SkiOctets)

set_router_pub_key(object, is_assertion) ==
  IF ~Has(object, "routerPublicKey") THEN Base64Result(is_assertion, {}, 0)
  ELSE IF ~is_assertion THEN Base64Result(TRUE, {}, 0)
  ELSE DecodeBase64(object["routerPublicKey"], object["routerPublicKey"].text.spki)

BgpsecMembers == {"asn", "SKI", "routerPublicKey", "comment"}

(* The checks of load_single_bgpsec() after the members were read. *)
BgpsecFits(object, is_assertion, asn, ski) ==
  /\ set_comment(object) # {}
  /\ ~is_assertion => asn # NoAsn \/ ski.buffer # {}
  /\ json_valid_members_count(object, Loaded(object, BgpsecMembers))

(* load_single_bgpsec(); taken are the ASNs of the files loaded before, which
   db_slurm_add_bgpsec_filter() and _assertion() refuse.  Freeing NULL counts
   as well.                                                                 *)
load_single_bgpsec(object, is_assertion, taken) ==
  LET ski == set_ski(object, is_assertion)
      key == set_router_pub_key(object, is_assertion)
      asns == set_asn(object, is_assertion)
      rules == {[asn |-> asn, ski |-> ski.buffer, key |-> key.buffer] : asn \in asns}
  IN IF asns = {} THEN [rules |-> {}, frees |-> [ski |-> 0, key |-> 0]]
     ELSE IF ski.error THEN [rules |-> {}, frees |-> [ski |-> ski.frees, key |-> 0]]
     ELSE IF key.error THEN [rules |-> {}, frees |-> [ski |-> 1, key |-> key.frees]]
     ELSE IF \E r \in rules : BgpsecFits(object, is_assertion, r.asn, ski) /\ r.asn \notin taken
          THEN [rules |-> rules, frees |-> [ski |-> 0, key |-> 0]]
     ELSE [rules |-> {}, frees |-> [ski |-> 1, key |-> 1]]
--------------------------------------------------------------------------------
(***************************************************************************)
(* The lists of a database, and the cache that collects one file.          *)
(***************************************************************************)
NoLists == [pfx_filters |-> <<>>, pfx_assertions |-> <<>>,
            bgps_filters |-> <<>>, bgps_assertions |-> <<>>]

PfxRules(lists) == ToSet(lists.pfx_filters \o lists.pfx_assertions)
BgpsRules(lists) == ToSet(lists.bgps_filters \o lists.bgps_assertions)

(* VRP_PREFIX_COV(): a equals or covers b. *)
VRP_PREFIX_COV(a, b) ==
  /\ a.fam = b.fam
  /\ a.len <= b.len
  /\ \/ a.fam = "v4" /\ ipv4_covered(a.addr, a.len, b.addr)
     \/ a.fam = "v6" /\ ipv6_covered(a.addr, a.len, b.addr)

(* Mutant of prefix_contained: only equal prefixes conflict. *)
OnlyEqualConflict(left, right) ==
  left.prefix.fam # "none" /\ left.prefix.fam = right.prefix.fam
    /\ left.prefix.addr = right.prefix.addr /\ left.prefix.len = right.prefix.len

prefix_contained(left, right) ==
  left.prefix.fam # "none" /\ right.prefix.fam # "none" /\ VRP_PREFIX_COV(left.prefix, right.prefix)

(* prefix_exists() and bgpsec_exists() look at the files loaded before, not at
   the cache of the file at hand.                                            *)
prefix_exists(lists, elem) ==
  \E r \in PfxRules(lists) : prefix_contained(r, elem) \/ prefix_contained(elem, r)

bgpsec_exists(lists, elem) ==
  \E r \in BgpsRules(lists) : r.asn # NoAsn /\ r.asn = elem.asn

(* db_slurm_flush_cache(): what the cache collected goes to the lists. *)
db_slurm_flush_cache(lists, cache) == [l \in DOMAIN lists |-> lists[l] \o cache[l]]

(* handle_json() for a file whose elements are well formed: they are all in the
   cache, or the first that exists already ends the load.                      *)
handle_json(lists, file) ==
  IF \/ \E r \in PfxRules(file) : prefix_exists(lists, r)
     \/ \E r \in BgpsRules(file) : bgpsec_exists(lists, r)
  THEN {} ELSE {db_slurm_flush_cache(lists, file)}

(* load_slurm_files(): process_file_or_dir() stops at the first error. *)
load_slurm_files(files) ==
  LET Upto[i \in 0..Len(files)] ==
        IF i = 0 THEN {NoLists}
        ELSE UNION {handle_json(l, files[i]) : l \in Upto[i - 1]}
  IN Upto[Len(files)]

(* prefix_filtered_by(): a VRP has all members, a filter has an ASN, a prefix or
   both.                                                                      *)
prefix_filtered_by(filter, vrp) ==
  IF filter.asn # NoAsn /\ filter.prefix.fam # "none"
  THEN filter.asn = vrp.asn /\ VRP_PREFIX_COV(filter.prefix, vrp.prefix)
  ELSE IF filter.asn # NoAsn THEN filter.asn = vrp.asn
  ELSE VRP_PREFIX_COV(filter.prefix, vrp.prefix)

(* bgpsec_filtered_by(): likewise with the SKI. *)
bgpsec_filtered_by(filter, key) ==
  IF filter.asn # NoAsn /\ filter.ski # {}
  THEN filter.asn = key.asn /\ filter.ski = key.ski
  ELSE IF filter.asn # NoAsn THEN filter.asn = key.asn
  ELSE filter.ski = key.ski

(* slurm_pfx_assertions_add() *)
AssertedVrp(rule) ==
  [asn |-> rule.asn, prefix |-> rule.prefix,
   max |-> IF rule.max = NoMax THEN rule.prefix.len ELSE rule.max]

(* slurm_apply(): the filters, then the assertions. *)
slurm_apply(table, lists) ==
  [vrps |-> {v \in table.vrps : \A f \in ToSet(lists.pfx_filters) : ~prefix_filtered_by(f, v)}
              \cup {AssertedVrp(r) : r \in ToSet(lists.pfx_assertions)},
   keys |-> {k \in table.keys : \A f \in ToSet(lists.bgps_filters) : ~bgpsec_filtered_by(f, k)}
              \cup ToSet(lists.bgps_assertions)]
--------------------------------------------------------------------------------
(***************************************************************************)
(* What RFC 8416 says of them.                                             *)
(***************************************************************************)
\* An address, a slash and the digits of a length within which the address fits.
IsPrefixText(text) ==
  /\ Len(text) = 2
  /\ text[1].kind = "address"
  /\ text[2].kind = "number" /\ text[2].plain
  /\ text[2].digits <= Width(text[1].fam)
  /\ LET n == IF text[1].fam = "v4" THEN text[1].addr ELSE Number(text[1].addr)
     IN n % 2^(Width(text[1].fam) - text[2].digits) = 0

\* Sections 3.3.1 and 3.4.1: what a prefix filter or assertion is.
IsPrefixRule(object, is_assertion) ==
  /\ DOMAIN object \subseteq {"asn", "prefix", "comment"} \cup (IF is_assertion THEN {"maxPrefixLength"} ELSE {})
  /\ IF is_assertion THEN {"asn", "prefix"} \subseteq DOMAIN object
                     ELSE {"asn", "prefix"} \cap DOMAIN object # {}
  /\ Has(object, "asn") => IsInt(object["asn"]) /\ object["asn"].int \in 0..AsnMax
  /\ Has(object, "prefix") => IsString(object["prefix"]) /\ IsPrefixText(object["prefix"].text)
  /\ Has(object, "comment") => IsString(object["comment"])
  /\ Has(object, "maxPrefixLength") =>
       /\ IsInt(object["maxPrefixLength"])
       /\ LET text == object["prefix"].text
          IN object["maxPrefixLength"].int \in text[2].digits..Width(text[1].fam)

\* What such an object says.
Meant(object) ==
  [asn |-> IF Has(object, "asn") THEN object["asn"].int ELSE NoAsn,
   prefix |-> IF Has(object, "prefix")
              THEN LET text == object["prefix"].text
                   IN [fam |-> text[1].fam, addr |-> text[1].addr, len |-> text[2].digits]
              ELSE NoPrefix,
   max |-> IF Has(object, "maxPrefixLength") THEN object["maxPrefixLength"].int ELSE NoMax]

\* The addresses of a prefix, as numbers.
Addrs(prefix) ==
  LET width == IF prefix.fam = "v4" THEN QuadrantBits ELSE V6Bits
      lo == IF prefix.fam = "v4" THEN prefix.addr ELSE Number(prefix.addr)
  IN lo..(lo + 2^(width - prefix.len) - 1)

\* Section 3.3.1: the members that a filter has match.
Matches(filter, vrp) ==
  /\ filter.asn # NoAsn => filter.asn = vrp.asn
  /\ filter.prefix.fam # "none" =>
       filter.prefix.fam = vrp.prefix.fam /\ Addrs(vrp.prefix) \subseteq Addrs(filter.prefix)

\* Section 4.2: an address or an ASN that two distinct files talk about.
Conflict(files) ==
  \E i, j \in DOMAIN files :
    /\ i # j
    /\ \/ \E r \in PfxRules(files[i]), s \in PfxRules(files[j]) :
            /\ r.prefix.fam # "none"
            /\ r.prefix.fam = s.prefix.fam
            /\ Addrs(r.prefix) \cap Addrs(s.prefix) # {}
       \/ \E r \in BgpsRules(files[i]), s \in BgpsRules(files[j]) :
            r.asn # NoAsn /\ r.asn = s.asn
================================================================================
