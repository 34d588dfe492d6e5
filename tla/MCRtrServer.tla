------------------------------ MODULE MCRtrServer ------------------------------
(***************************************************************************)
(* RtrServer on small instances, for TLC.                                  *)
(***************************************************************************)
EXTENDS RtrServer, TLC

CONSTANTS c1, c2

RouterSymmetry == Permutations({c1, c2})
================================================================================
