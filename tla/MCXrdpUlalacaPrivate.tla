------------------------ MODULE MCXrdpUlalacaPrivate ------------------------
(***************************************************************************)
(* Constants for TLC: one cell, which a transaction may or may not contain *)
(* and for which liveness can be checked too.  (What the runs' safety      *)
(* properties say of each cell is proved for every set of them.)           *)
(***************************************************************************)
EXTENDS XrdpUlalacaPrivate

CONSTANT c1

OneCell == {c1}
=============================================================================
