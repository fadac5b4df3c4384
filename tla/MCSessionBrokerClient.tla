----------------------- MODULE MCSessionBrokerClient -----------------------
(***************************************************************************)
(* Faults for TLC: those that lose no pieces, and a broker that leaves.    *)
(***************************************************************************)
EXTENDS SessionBrokerClient

AllButLoss == {"connect", "poll", "full", "hangup"}

Hangups == {"connect", "full", "hangup"}
============================================================================
