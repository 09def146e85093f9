----------------------------- MODULE MCFileLock -----------------------------
(***************************************************************************)
(* Instances of FileLock for TLC.                                          *)
(***************************************************************************)
EXTENDS FileLock, TLC

Interchangeable == Permutations(Process)
=============================================================================
