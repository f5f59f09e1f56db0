------------------------------ MODULE MCEvents ------------------------------
(* UVEvents on a few objects.                                              *)
EXTENDS UVEvents, TLC
=============================================================================
