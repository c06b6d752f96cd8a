------------------------------ MODULE MCSessions ------------------------------
(* A small instance of Sessions: tokens are alike, and so are requests. *)
EXTENDS Sessions, TLC

Symmetry == Permutations(Token) \cup Permutations(Request)
=============================================================================
