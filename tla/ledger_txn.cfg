SPECIFICATION Spec
CONSTANTS
  Contribution = {1, 2}
  Session = {s1, s2, s3}
  Project <- MCProject
  ProjectOf <- MCProjectOf
  AmountOf <- MCAmountOf
SYMMETRY Symmetry
INVARIANTS TypeOK LedgerMatchesStatus TxnInvariant
PROPERTY LifecycleSpec
