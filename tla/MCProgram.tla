----------------------------- MODULE MCProgram ------------------------------
(* UVProgram on a few handles.                                             *)
EXTENDS UVProgram, TLC
=============================================================================
