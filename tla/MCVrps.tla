--------------------------------- MODULE MCVrps ---------------------------------
(***************************************************************************)
(* Vrps alone, with any answers of the clients table, for TLC.             *)
(***************************************************************************)
EXTENDS Vrps, TLC

CONSTANTS r1, r2

MCRecords == {r1, r2}
RecordSymmetry == Permutations(MCRecords)
================================================================================
