----------------------------- MODULE MCXrdpEvent ----------------------------
(***************************************************************************)
(* Constants for TLC: both Control keys, which share a scan code, the key  *)
(* at the table's end, one without an entry and one behind the end.        *)
(***************************************************************************)
EXTENDS XrdpEvent

Key(code, extended) == [code |-> code, extended |-> extended]

SomeKeys == {Key(29, FALSE), Key(29, TRUE), Key(55, FALSE), Key(91, TRUE),
             Key(92, TRUE)}

TwoPositions == {[x |-> 0, y |-> 1], [x |-> 65535, y |-> 0]}
=============================================================================
