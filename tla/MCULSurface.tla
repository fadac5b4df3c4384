---------------------------- MODULE MCULSurface ----------------------------
(***************************************************************************)
(* Constants for TLC: IntMax is large when the runs are about flow control *)
(* and small, in place of 2^31 - 1, in the run about the wrap-around.      *)
(***************************************************************************)
EXTENDS ULSurface

CONSTANTS c1, c2

TwoCells == {c1, c2}
============================================================================
