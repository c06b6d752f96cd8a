------------------------------- MODULE MCBudgets -------------------------------
(* A small instance of Budgets; distinct amounts, so that a total tells which *)
(* expenses are in it.                                                       *)
EXTENDS Budgets, TLC

MCExpense == 1..2
MCAmountOf == [e \in Expense |-> 2 ^ e]
Symmetry == Permutations(Category) \cup Permutations(Request)
=============================================================================
