-------------------------- MODULE MCResourceStore --------------------------
(***************************************************************************)
(* Instances of ResourceStore for TLC.                                     *)
(***************************************************************************)
EXTENDS ResourceStore, TLC

\* No definition distinguishes two calls, or two resources.
Symmetry == Permutations(Calls) \cup Permutations(Ids)
=============================================================================
