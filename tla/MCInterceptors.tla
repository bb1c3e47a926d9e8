--------------------------- MODULE MCInterceptors ---------------------------
(***************************************************************************)
(* The instance of Interceptors for TLC.                                   *)
(***************************************************************************)
EXTENDS Interceptors, TLC

\* No definition distinguishes two calls, or two unary methods.
Symmetry == Permutations(Calls) \cup Permutations(Unary)
=============================================================================
