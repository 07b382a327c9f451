-------------------------------- MODULE MCWal --------------------------------
(***************************************************************************)
(* Instances of Wal for TLC.  Operations are interchangeable.              *)
(***************************************************************************)
EXTENDS Wal, TLC

Symmetry == Permutations(Op)
=============================================================================
