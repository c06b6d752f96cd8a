SPECIFICATION Spec
CONSTANTS
  Token = {t1, t2}
  NoToken = NoToken
  Request = {r1, r2}
  MaxNow = 0
SYMMETRY Symmetry
INVARIANT KilledAlwaysDead
