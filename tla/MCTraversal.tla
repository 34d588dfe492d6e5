------------------------------ MODULE MCTraversal ------------------------------
(***************************************************************************)
(* Traversal on small trees, for TLC.                                      *)
(***************************************************************************)
EXTENDS Traversal

CONSTANTS ta, a, b, sub, router

N1 == <<"https", "s1", "notification.xml">>

(* Two repositories of one server, and one of another. *)
Module1 == <<"rsync", "s1", "m">>
Module2 == <<"rsync", "s2", "m">>

TwoTalUris == <<<<"https", "s1", "ta.cer">>, Append(Module1, "ta.cer")>>

TreeChildren ==
  (ta :> <<a, router, b>>) @@ (a :> <<sub>>) @@ [c \in {b, sub, router} |-> <<>>]

TreeUris ==
  (ta :> Append(Module1, "ta.cer")) @@ (a :> Append(Module1, "a.cer"))
  @@ (b :> Append(Module1, "b.cer")) @@ (router :> Append(Module1, "r.cer"))
  @@ (sub :> Append(Module1, "sub.cer"))

(* The certificate below a names an issuer at another URI. *)
TreeAia ==
  [c \in Certs |-> IF c = sub THEN Append(Module1, "old.cer") ELSE TreeUris[ta]]

TreeRepositories ==
  (ta :> Append(Module1, "ta")) @@ (a :> Append(Module1, "a")) @@ (b :> Append(Module2, "b"))
  @@ (sub :> Append(Module1, "sub")) @@ (router :> NULL)

TreeNotify == [c \in Certs |-> IF c \in {a, b} THEN N1 ELSE NULL]

TreeHolds == N1 :> {a, b, sub}

(* The router certificate comes first. *)
RouterFirst == [TreeChildren EXCEPT ![ta] = <<router, a, b>>]
================================================================================
