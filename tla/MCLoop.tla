------------------------------- MODULE MCLoop -------------------------------
(* UVLoop on a few loops and handles.                                      *)
EXTENDS UVLoop, TLC
=============================================================================
