--------------------------------- MODULE MCGc --------------------------------
(* UVGc on a few functions, objects, handles and loops. *)
EXTENDS UVGc, TLC

Symmetric == Permutations(Functions)
=============================================================================
