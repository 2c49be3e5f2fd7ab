CONSTANTS
  None = None
  Token = {t, u}
  Code = {k}
  Call = {c, d}
SYMMETRY Symmetry
SPECIFICATION Spec
INVARIANTS TypeOK NoResurrection
PROPERTY StaleJoinsChangeNothing
