------------------------------- MODULE MCMobile -------------------------------
(* A small instance of PaymentPoller over ApiClient: polls are alike. *)
EXTENDS PaymentPoller, TLC

Symmetry == Permutations(Poll)
=============================================================================
