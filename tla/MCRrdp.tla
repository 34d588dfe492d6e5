-------------------------------- MODULE MCRrdp ---------------------------------
(***************************************************************************)
(* Rrdp on small instances, for TLC: a manifest and a ROA in one directory,*)
(* or a manifest in each of two directories.                               *)
(***************************************************************************)
EXTENDS Rrdp, TLC

CONSTANTS mft1, mft2, roa1, dir1, dir2

OneDirectory == [f \in Files |-> dir1]

TwoDirectories == (mft1 :> dir1) @@ (mft2 :> dir2)
================================================================================
