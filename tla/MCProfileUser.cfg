CONSTANTS
  Tab = {t1}
  Kind = {"restore", "signIn", "signOut"}
  User = {ann, bob}
  Token = {k1, k2}
  Lifetime = 1
  MaxTime = 1
  MaxInFlight = 3
  Clear = Clear
  None = None
SPECIFICATION Spec
INVARIANT ProfileShowsTheAuthenticatedUser
CHECK_DEADLOCK FALSE
