----------------------------- MODULE MCProcess -----------------------------
(***************************************************************************)
(* Instances of Process for TLC.                                           *)
(***************************************************************************)
EXTENDS Process, TLC

\* No definition distinguishes two calls.
Symmetry == Permutations(Calls)
=============================================================================
