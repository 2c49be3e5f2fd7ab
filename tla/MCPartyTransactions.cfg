CONSTANTS
  gm = gm
  player = player
  c1 = c1
  c2 = c2
  None = None
  Party = {p, q}
  Code = {k1, k2}
  Txn = {s, t}
  User <- MCUser
  Character <- MCCharacter
  Owner <- MCOwner
  Lifetime = 1
  Times <- MCTimes
  MaxAttempts = 2
  MaxTime = 1
SYMMETRY Symmetry
SPECIFICATION TxSpec
INVARIANTS TxTypeOK ConstraintsNeverFire JoinsUnderCurrentInvite RefusalsAreTrue NoDeadlock
PROPERTY ImplementsRegistry
