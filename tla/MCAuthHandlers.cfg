CONSTANTS
  u1 = u1
  u2 = u2
  e1 = e1
  e2 = e2
  None = None
  Request = {r, s}
  Username = {u1, u2}
  Email = {e1, e2}
  Capacity = 1
  Key <- StoreKey
  Limit <- StoreLimit
  Window <- StoreWindow
  MaxKeys = 6
  GlobalLogin = 1
  GlobalRegister = 2
  FailureKey <- StoreFailureKey
  RegisterKey <- StoreRegisterKey
  MaxTime = 2
SYMMETRY Symmetry
SPECIFICATION Spec
INVARIANTS TypeOK GateIsExact FailuresAreCounted
PROPERTY NothingLiveIsEvicted
