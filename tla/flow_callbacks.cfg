SPECIFICATION Spec
CONSTANTS
  Contribution = {1, 2}
  Worker = {w1}
  Delivery = {d1, d2}
  Project <- MCProject
  ProjectOf <- MCProjectOf
  AmountOf <- MCAmountOf
  ProviderOf <- MCProviderOf
  Replies <- PushReply
  Revises = FALSE
  OUTBOX_MAX_ATTEMPTS = 1
  OUTBOX_BATCH_SIZE = 2
  RECONCILE_MAX_ATTEMPTS = 2
  RECONCILE_BATCH_SIZE = 1
  MaxFaults = 0
SYMMETRY Symmetry
INVARIANTS NoLedgerDivergence CreditOnlyIfPaid FailedNeverPaid FlaggedLeftSweep
