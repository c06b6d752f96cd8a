SPECIFICATION Spec
CONSTANTS
  Request = {r1, r2, r3, r4}
  LIMIT = 2
  WINDOW = 2
  LOCKOUT_WINDOW_SECONDS = 4
  Tier1 = 1
  Lock1 = 2
  Tier2 = 2
  Lock2 = 4
  Threads = 2
  MaxDelay = 1
  MaxNow = 5
SYMMETRY Symmetry
INVARIANTS LoginInvariant WindowHolds GuessBound
CHECK_DEADLOCK FALSE
