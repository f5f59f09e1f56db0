------------------------------- MODULE MCLock -------------------------------
(* UVLock on a few threads and locks.                                    *)
EXTENDS UVLock, TLC
=============================================================================
