------------------------------ MODULE MCValidation ------------------------------
(* Two TALs, one with a tree that changes, and two SLURM files. *)
EXTENDS Validation

CONSTANTS t1, t2, r1, r2, r3

MCYields == [t \in Tals |-> IF t = t1 THEN {{r1}} ELSE {{}, {r2}}]

Rules_(f, a) == [valid |-> TRUE, filters |-> f, assertions |-> a]

(* Each parses, but the two speak of the same record. *)
MCContents == {Rules_({r1}, {}), Rules_({}, {r1, r3})}
================================================================================
