------------------------------ MODULE Publication ------------------------------
(***************************************************************************)
(* What a validation cycle promises, without threads, locks or files: the  *)
(* database is replaced at once by the complete results of all the TALs of *)
(* the cycle, changed by the SLURM rules in force, or it stays as it is.   *)
(* Validation implements it.                                               *)
(***************************************************************************)
EXTENDS FiniteSets

CONSTANTS
  Tals,     \* the names a TAL file can have
  Records,  \* VRPs and router keys
  Yields,   \* [Tals -> the sets of records that the tree of a TAL can yield]
  NULL      \* no database

VARIABLES
  base,     \* the published database
  rules,    \* the SLURM rules in force
  listed,   \* the TALs of this cycle, {} between cycles
  yield     \* [TALs whose tree was read -> its records]

pubVars == <<base, rules, listed, yield>>

Rules == [filters : SUBSET Records, assertions : SUBSET Records]

NoRules == [filters |-> {}, assertions |-> {}]

Applied(table, r) == (table \ r.filters) \cup r.assertions

Nothing == [t \in {} |-> {}]

PubInit ==
  /\ base = NULL
  /\ rules = NoRules
  /\ listed = {}
  /\ yield = Nothing

\* A cycle begins with the TALs that are there.
Begin ==
  /\ listed = {}
  /\ listed' \in (SUBSET Tals) \ {{}}
  /\ UNCHANGED <<base, rules, yield>>

\* The tree of t is read.
ReadTree(t) ==
  /\ t \in listed \ DOMAIN yield
  /\ \E y \in Yields[t] :
       yield' = [u \in DOMAIN yield \cup {t} |-> IF u = t THEN y ELSE yield[u]]
  /\ UNCHANGED <<base, rules, listed>>

\* The SLURM files of the moment, once the trees are read.
Reload ==
  /\ listed # {}
  /\ DOMAIN yield = listed
  /\ rules' \in Rules
  /\ UNCHANGED <<base, listed, yield>>

\* A first database without records is not published.
Publish ==
  /\ listed # {}
  /\ DOMAIN yield = listed
  /\ LET new == Applied(UNION {yield[t] : t \in listed}, rules)
     IN base' = IF base = NULL /\ new = {} THEN NULL ELSE new
  /\ listed' = {}
  /\ yield' = Nothing
  /\ UNCHANGED rules

Abandon ==
  /\ listed' = {}
  /\ yield' = Nothing
  /\ UNCHANGED <<base, rules>>

PubNext == Begin \/ (\E t \in Tals : ReadTree(t)) \/ Reload \/ Publish \/ Abandon

PublicationSpec == PubInit /\ [][PubNext]_pubVars
================================================================================
