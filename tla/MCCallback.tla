------------------------------ MODULE MCCallback -----------------------------
(* UVCallback on a few functions and objects. *)
EXTENDS UVCallback, TLC

Symmetric == Permutations(Objects)
=============================================================================
