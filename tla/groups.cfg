SPECIFICATION Spec
CONSTANTS
  User = {u1, u2}
  NoUser = NoUser
  Project = {p1}
  NoProject = NoProject
  Budget = {b1}
  Contribution = {c1, c2, c3}
  Request = {r1, r2}
  DAILY_CONTRIBUTION_CAP = 2
  Day = 1
  MaxRows = 3
  MaxCode = 1
  MaxNow = 2
SYMMETRY Symmetry
INVARIANTS TypeOK MembershipSound ReferencesHold DailyCapHolds AuditExplainsRows
