------------------------------ MODULE MCStream ------------------------------
(* UVStream on a few objects. *)
EXTENDS UVStream, TLC

Symmetry == Permutations(Handles)
=============================================================================
