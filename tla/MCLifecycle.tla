----------------------------- MODULE MCLifecycle -----------------------------
(***************************************************************************)
(* Model values for Lifecycle.  The workers are interchangeable.           *)
(***************************************************************************)
EXTENDS Lifecycle, TLC

GoroutineSymmetry == Permutations(Workers)
=============================================================================
