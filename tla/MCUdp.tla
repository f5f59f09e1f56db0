-------------------------------- MODULE MCUdp -------------------------------
(* UVUdp on a few sockets. *)
EXTENDS UVUdp, TLC
=============================================================================
