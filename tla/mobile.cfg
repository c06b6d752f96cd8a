SPECIFICATION Spec
CONSTANTS
  Request = {q1, q2, out}
  Leaving = out
  MaxToken = 2
  pollMaxAttempts = 2
  Outcome = {"success"}
SYMMETRY Symmetry
INVARIANTS TypeOK MobileInvariant NoSelfInflictedReuse SignedInStays LoggedOutStaysOut WaitingIsAnswered
PROPERTY ResultIsFinal
