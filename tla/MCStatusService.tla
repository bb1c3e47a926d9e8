-------------------------- MODULE MCStatusService --------------------------
(***************************************************************************)
(* Instances of StatusService for TLC.                                     *)
(***************************************************************************)
EXTENDS StatusService, TLC

\* No definition distinguishes two calls.
Symmetry == Permutations(Calls)
=============================================================================
