----------------------------- MODULE MCDeletions ------------------------------
(***************************************************************************)
(* Model values for Deletions, as MCController has them for Controller.    *)
(***************************************************************************)
EXTENDS Deletions, TLC

Interchangeable == Permutations(Workers)
=============================================================================
