SPECIFICATION Spec
CONSTANTS
  Token = {t1, t2, t3}
  NoToken = NoToken
  Request = {r1, r2}
  MaxNow = 1
SYMMETRY Symmetry
INVARIANTS TypeOK SessionInvariant OneLiveToken KilledStaysDead AccessCutOff
