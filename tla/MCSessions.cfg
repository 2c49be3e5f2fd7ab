CONSTANTS
  Tab = {t1}
  Kind = {"restore", "signIn", "signOut", "private"}
  User = {ann, bob}
  Token = {k1, k2}
  Lifetime = 1
  MaxTime = 1
  MaxInFlight = 2
  Clear = Clear
  None = None
SPECIFICATION Spec
SYMMETRY Symmetry
INVARIANTS TypeOK CookiesHaveRows SignedOutIsOver ShowsTheCookiesUser
PROPERTIES RowsOnlyClose Implements
CHECK_DEADLOCK FALSE
