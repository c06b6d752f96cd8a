----------------------------- MODULE MCLoginGuard -----------------------------
(* A small instance of LoginGuard: requests are alike. *)
EXTENDS LoginGuard, TLC

Symmetry == Permutations(Request)
=============================================================================
