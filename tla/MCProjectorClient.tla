------------------------- MODULE MCProjectorClient -------------------------
(***************************************************************************)
(* Faults for TLC: those that lose no pieces, and a projector that leaves. *)
(***************************************************************************)
EXTENDS ProjectorClient

AllButLoss == {"connect", "poll", "full", "hangup"}

Hangups == {"connect", "hangup"}
============================================================================
