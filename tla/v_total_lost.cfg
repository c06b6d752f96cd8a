SPECIFICATION Spec
CONSTANTS
  Category = {food, rent}
  NoCategory = NoCategory
  Expense <- MCExpense
  NoExpense = 0
  AmountOf <- MCAmountOf
  Request = {r1, r2, r3}
SYMMETRY Symmetry
INVARIANT SpentAlwaysSum
CHECK_DEADLOCK FALSE
