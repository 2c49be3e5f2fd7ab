CONSTANTS
  gm = gm
  player = player
  c1 = c1
  c2 = c2
  None = None
  Party = {p, q}
  Code = {k1, k2}
  Slot = {s1, s2}
  Write = {w1, w2}
  User <- MCUser
  Character <- MCCharacter
  Owner <- MCOwner
  Lifetime = 1
  Times <- MCTimes
SPECIFICATION PagesSpec
INVARIANTS PagesTypeOK Integrity PagesShowWhatIsTheirs PanelTellsTheTruth
SYMMETRY Symmetry
CHECK_DEADLOCK FALSE
