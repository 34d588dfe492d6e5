------------------------------- MODULE Resources -------------------------------
(***************************************************************************)
(* The resources of the certificates of a path: resource.c, with the       *)
(* extensions certificate.c takes them from and the stack that keeps them. *)
(*                                                                         *)
(* resources->ip4s and its siblings are pointers to sorted arrays that a   *)
(* certificate shares with its parent when it inherits; the code tells     *)
(* "inherits" by comparing pointers.  A claim is the content of one        *)
(* extension.  What may fail returns a set: empty, or the result.          *)
(***************************************************************************)
EXTENDS Intervals, Integers, FiniteSets, SequencesExt

CONSTANTS
  Kinds,      \* the members of struct resources that are followed
  NULL,
  ObjIds,     \* the arrays
  Bad,        \* an element that does not decode
  Elements,   \* Elements[k]: the sequences of ranges and Bad that are claimed; those
              \* of AS numbers may be inverted or exceed MaxValue
  MaxDepth    \* bound on the length of the path

VARIABLES
  objs,    \* objs[o]: ranges and refcount of array o; refcount 0 is free
  path,    \* the resources of the stacked certificates, the trust anchor first
  ee,      \* those of the certificate of the signed object at hand, or NULL
  claimed, \* auxiliary: what they name
  crit     \* the process ended in pr_crit()

resource_vars == <<objs, path, ee, claimed, crit>>

(* struct resources *)
resources_create(policy, force_inherit) ==
  [res |-> [k \in Kinds |-> NULL], policy |-> policy, force_inherit |-> force_inherit]

NewArray(os) == CHOOSE o \in ObjIds : os[o].refs = 0

sarray_get(os, o) == [os EXCEPT ![o].refs = @ + 1]

sarray_put(os, o) ==
  [os EXCEPT ![o] = IF @.refs = 1 THEN [refs |-> 0, ranges |-> <<>>]
                    ELSE [@ EXCEPT !.refs = @ - 1]]

resources_destroy(os, r) ==
  FoldSet(LAMBDA k, acc : IF r[k] = NULL THEN acc ELSE sarray_put(acc, r[k]), os, Kinds)

(* get_parent_resources(): the top of the stack of certificates. *)
HasParent == path # <<>>
get_parent_resources == path[Len(path)]

(* A certificate under construction: its struct resources and the arrays. *)
Cert(os, r) == [objs |-> os, r |-> r]

(* inherit_aors() and inherit_asiors(). *)
inherit_aors(c, k) ==
  IF c.r.res[k] # NULL THEN {}
  ELSE LET o == get_parent_resources[k]
       IN {Cert(IF o = NULL THEN c.objs ELSE sarray_get(c.objs, o),
                [c.r EXCEPT !.res[k] = o])}

(* sarray_contains(), which SortedArray shows to be this. *)
ArrayHolds(os, o, range) ==
  o # NULL /\ \E i \in DOMAIN os[o].ranges : Inside(range, os[o].ranges[i])

ArrayPlus(ranges, range) ==
  IF ranges = <<>> \/ sarray_cmp(ranges[Len(ranges)], range) = "RIGHT"
  THEN {Append(ranges, range)} ELSE {}

(* The end of add_prefix4(), add_prefix6(), add_range4(), add_range6() and
   add_asn(): the array is created when it is first needed.               *)
AddTo(c, k, range) ==
  IF c.r.res[k] = NULL
  THEN LET o == NewArray(c.objs)
       IN {Cert([c.objs EXCEPT ![o] = [refs |-> 1, ranges |-> <<range>>]],
                [c.r EXCEPT !.res[k] = o])}
  ELSE {Cert([c.objs EXCEPT ![c.r.res[k]].ranges = rs], c.r) :
          rs \in ArrayPlus(c.objs[c.r.res[k]].ranges, range)}

(* Mutant of AddOwned: the parent's resources are not looked at. *)
AddUnowned(c, k, range) == AddTo(c, k, range)

(* What the parent lacks is an error or only left out, depending on the policy. *)
AddOwned(c, k, range) ==
  IF HasParent /\ ~ArrayHolds(c.objs, get_parent_resources[k], range)
  THEN IF c.r.policy = "RFC6484" THEN {} ELSE {c}
  ELSE AddTo(c, k, range)

(* A certificate that inherits has its parent's array; when both have none, that
   counts as inheriting too.                                                    *)
Inherits(c, k) == HasParent /\ c.r.res[k] = get_parent_resources[k]

(* add_prefix() and add_range(), for both families. *)
add_range(c, k, e) == IF Inherits(c, k) \/ e = Bad THEN {} ELSE AddOwned(c, k, e)

ASId2ulong(n) == IF n > MaxValue THEN {} ELSE {n}

add_asn(c, min, max) ==
  IF min > max THEN {} ELSE AddOwned(c, "asns", [min |-> min, max |-> max])

(* A single AS number is the range from it to itself. *)
add_asior(c, e) ==
  IF Inherits(c, "asns") \/ e = Bad THEN {}
  ELSE UNION {add_asn(c, min, max) : min \in ASId2ulong(e.min), max \in ASId2ulong(e.max)}

(* The loops: the first error ends them. *)
AddAll(c, k, elements) ==
  IF c.r.force_inherit \/ elements = <<>> THEN {}
  ELSE LET Add(d, e) == IF k = "asns" THEN add_asior(d, e) ELSE add_range(d, k, e)
           Upto[i \in 0..Len(elements)] ==
             IF i = 0 THEN {c} ELSE UNION {Add(d, elements[i]) : d \in Upto[i - 1]}
       IN Upto[Len(elements)]

add_aors(c, k, elements) == AddAll(c, k, elements)
add_asiors(c, elements) == AddAll(c, "asns", elements)

(* resources_add_ip() and resources_add_asn(), once per extension found. *)
resources_add(c, k, claim) ==
  CASE claim.choice = "absent" -> {c}
    [] claim.choice = "inherit" -> inherit_aors(c, k)
    [] claim.choice = "elements" -> IF k = "asns" THEN add_asiors(c, claim.elements)
                                    ELSE add_aors(c, k, claim.elements)
    [] claim.choice = "nothing" -> {}

(* __certificate_get_resources(): every extension, in some order.  Extensions of
   the other policy's form are refused, like certificates without any.          *)
certificate_get_resources(os, policy, force_inherit, claims) ==
  IF \A k \in Kinds : claims[k].choice = "absent" THEN {}
  ELSE FoldSet(LAMBDA k, certs : UNION {resources_add(c, k, claims[k]) : c \in certs},
               {Cert(os, resources_create(policy, force_inherit))}, Kinds)

resources_empty(c) ==
  \A k \in Kinds : c.r.res[k] = NULL \/ c.objs[c.r.res[k]].ranges = <<>>

(* inherit_aors() for a certificate without parent: pr_crit(). *)
InheritsFromNobody(claims) ==
  path = <<>> /\ \E k \in Kinds : claims[k].choice = "inherit"
--------------------------------------------------------------------------------
Policies == {"RFC6484", "RFC8360"}

(* What a certificate may claim of each kind. *)
Claims ==
  LET ClaimsOf(k) == [choice : {"absent", "inherit", "nothing"}, elements : {<<>>}]
                       \cup [choice : {"elements"}, elements : Elements[k]]
  IN {c \in [Kinds -> UNION {ClaimsOf(k) : k \in Kinds}] : \A k \in Kinds : c[k] \in ClaimsOf(k)}

(* The values a certificate names, or NULL where it may hold others. *)
NamedValues(policy, claim) ==
  IF policy = "RFC6484" /\ claim.choice = "elements"
  THEN UNION {r.min..r.max : r \in ToSet(claim.elements) \ {Bad}} ELSE NULL

ResourcesInit ==
  /\ objs = [o \in ObjIds |-> [refs |-> 0, ranges |-> <<>>]]
  /\ path = <<>>
  /\ ee = NULL
  /\ claimed = <<>>
  /\ crit = FALSE

(* x509stack_push(): a certificate that is refused, or a trust anchor without
   resources, leaves nothing behind (resources_destroy()).                  *)
PushCertificate(policy, claims) ==
  /\ ee = NULL /\ ~crit
  /\ Len(path) < MaxDepth
  /\ ~InheritsFromNobody(claims)
  /\ \E c \in certificate_get_resources(objs, policy, FALSE, claims) :
       /\ ~(path = <<>> /\ resources_empty(c))
       /\ objs' = c.objs
       /\ path' = Append(path, c.r.res)
       /\ claimed' = Append(claimed, [k \in Kinds |-> NamedValues(policy, claims[k])])
  /\ UNCHANGED <<ee, crit>>

(* x509stack_pop() *)
PopCertificate ==
  /\ ee = NULL /\ ~crit
  /\ path # <<>>
  /\ objs' = resources_destroy(objs, path[Len(path)])
  /\ path' = SubSeq(path, 1, Len(path) - 1)
  /\ claimed' = SubSeq(claimed, 1, Len(path) - 1)
  /\ UNCHANGED <<ee, crit>>

(* handle_sdata_certificate(): the certificate of a signed object; that of a
   manifest or a ghostbusters record must inherit (force_inherit).          *)
StartObject(policy, claims, force_inherit) ==
  /\ ee = NULL /\ ~crit
  /\ path # <<>>
  /\ \E c \in certificate_get_resources(objs, policy, force_inherit, claims) :
       objs' = c.objs /\ ee' = c.r.res
  /\ UNCHANGED <<path, claimed, crit>>

(* eecert_cleanup() *)
EndObject ==
  /\ ee # NULL
  /\ objs' = resources_destroy(objs, ee)
  /\ ee' = NULL
  /\ UNCHANGED <<path, claimed, crit>>

Abort(claims) ==
  /\ ee = NULL /\ ~crit
  /\ InheritsFromNobody(claims)
  /\ crit' = TRUE
  /\ UNCHANGED <<objs, path, ee, claimed>>

ResourcesNext ==
  \/ \E policy \in Policies, claims \in Claims :
       \/ PushCertificate(policy, claims)
       \/ \E f \in BOOLEAN : StartObject(policy, claims, f)
  \/ PopCertificate
  \/ EndObject
  \/ \E claims \in Claims : Abort(claims)
--------------------------------------------------------------------------------
Res == [Kinds -> ObjIds \cup {NULL}]

ResourcesTypeOK ==
  /\ objs \in [ObjIds -> [refs : Nat, ranges : Seq(Ranges)]]
  /\ path \in Seq(Res)
  /\ ee \in Res \cup {NULL}
  /\ crit \in BOOLEAN

Values(os, o) ==
  IF o = NULL THEN {} ELSE UNION {r.min..r.max : r \in ToSet(os[o].ranges)}

\* No certificate of the path, and no certificate of a signed object under it,
\* holds a number its issuer lacks, whatever it claims and under either policy.
NeverOverclaims ==
  /\ \A i \in 2..Len(path), k \in Kinds : Values(objs, path[i][k]) \subseteq Values(objs, path[i - 1][k])
  /\ ee # NULL => \A k \in Kinds : Values(objs, ee[k]) \subseteq Values(objs, path[Len(path)][k])

\* Under RFC 6484 a stacked certificate that names resources holds exactly those
\* it names: none is lost in the array and none is added.
HoldsWhatItNames ==
  \A i \in 1..Len(path), k \in Kinds :
    claimed[i][k] # NULL => Values(objs, path[i][k]) = claimed[i][k]

\* The reference count of an array is the number of certificates that hold it, so
\* an inherited array outlives the certificate that first had it exactly as long
\* as it is needed.
RefsAreHolders ==
  \A o \in ObjIds :
    objs[o].refs =
      Cardinality({ik \in (1..Len(path)) \X Kinds : path[ik[1]][ik[2]] = o})
        + (IF ee = NULL THEN 0 ELSE Cardinality({k \in Kinds : ee[k] = o}))
================================================================================
