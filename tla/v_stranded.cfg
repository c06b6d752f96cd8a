SPECIFICATION FairSpec
CONSTANTS
  Contribution = {1}
  Worker = {w1}
  Delivery = {}
  Project <- MCProject
  ProjectOf <- MCProjectOf
  AmountOf <- MCAmountOf
  ProviderOf <- MCProviderOf
  Replies <- OnlyAcceptance
  Revises = FALSE
  OUTBOX_MAX_ATTEMPTS = 2
  OUTBOX_BATCH_SIZE = 2
  RECONCILE_MAX_ATTEMPTS = 2
  RECONCILE_BATCH_SIZE = 1
  MaxFaults = 1
PROPERTY NeverStrandedUnprompted
