------------------------------- MODULE MCGroups -------------------------------
(* A small instance of Groups: users, requests and contributions are alike. *)
EXTENDS Groups, TLC

Symmetry == Permutations(User) \cup Permutations(Request) \cup Permutations(Contribution)
=============================================================================
