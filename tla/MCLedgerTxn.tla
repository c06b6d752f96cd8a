----------------------------- MODULE MCLedgerTxn -----------------------------
(* A small instance of LedgerTxn: two contributions to one project, three     *)
(* sessions, so that two credits of one contribution, a failure of it and a   *)
(* credit of the other can overlap.                                           *)
EXTENDS LedgerTxn, TLC

MCProject == {"roof"}
MCProjectOf == [c \in Contribution |-> "roof"]
MCAmountOf == [c \in Contribution |-> c]
Symmetry == Permutations(Session)
=============================================================================
