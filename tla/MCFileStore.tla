---------------------------- MODULE MCFileStore ----------------------------
(***************************************************************************)
(* Instances of FileStore for TLC.                                         *)
(***************************************************************************)
EXTENDS FileStore, TLC

CONSTANTS p1, p2
=============================================================================
