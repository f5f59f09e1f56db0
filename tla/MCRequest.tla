------------------------------ MODULE MCRequest ------------------------------
(* UVRequest on a few requests and streams. *)
EXTENDS UVRequest, TLC
=============================================================================
