CONSTANTS
  None = None
  Tab = {t, u}
  Call = {c, d}
  MaxLevel = 4
  Micro = 2
  MaxTime = 2
SYMMETRY Symmetry
SPECIFICATION RowSpec
INVARIANTS RowTypeOK VersionsIdentifyRows
PROPERTY LevelsWhatWasSeen
