-------------------------- MODULE MCIPCConnection --------------------------
(***************************************************************************)
(* Constants for TLC.  Reads of two sizes, one below and one above what a  *)
(* single read(2) asks for, so that an answer is put together from several *)
(* reads and a read may stop short of, at, or before the end of the data.  *)
(***************************************************************************)
EXTENDS IPCConnection

\* Everything but a connection reset, which is a fault of its own.
AllButReset == FaultKinds \ {"reset"}

\* The faults that lose no piece while the peer is there, and let all threads
\* go on.
Survivable == {"connect", "full", "hangup", "reset"}

Resets == {"reset"}

ShortWrites == {"short"}
=============================================================================
