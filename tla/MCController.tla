----------------------------- MODULE MCController -----------------------------
(***************************************************************************)
(* Model values for Controller.  Workers are interchangeable, so the runs  *)
(* without a liveness property use them as a symmetry set; the specs are   *)
(* not, because they differ in being canonical and in having references.   *)
(***************************************************************************)
EXTENDS Mirroring, TLC

WorkerSymmetry == Permutations(Workers)
=============================================================================
