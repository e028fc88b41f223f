----------------------------- MODULE MCShutdown -----------------------------
(***************************************************************************)
(* Batches of one packet each.                                             *)
(***************************************************************************)
EXTENDS Shutdown

SinglePackets == [n \in 1 .. Batches |-> 1]
=============================================================================
