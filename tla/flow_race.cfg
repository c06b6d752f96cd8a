SPECIFICATION Spec
CONSTANTS
  Contribution = {2}
  Worker = {w1, w2}
  Delivery = {d1}
  Project <- MCProject
  ProjectOf <- MCProjectOf
  AmountOf <- MCAmountOf
  ProviderOf <- MCProviderOf
  Replies <- PushReply
  Revises = TRUE
  OUTBOX_MAX_ATTEMPTS = 2
  OUTBOX_BATCH_SIZE = 2
  RECONCILE_MAX_ATTEMPTS = 2
  RECONCILE_BATCH_SIZE = 2
  MaxFaults = 1
SYMMETRY Symmetry
INVARIANTS TypeOK LedgerMatchesStatus InductiveInvariant AtMostOnePrompt ExhaustedIsFlagged
PROPERTY LifecycleSpec
