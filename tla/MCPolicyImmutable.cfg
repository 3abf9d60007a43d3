SPECIFICATION Spec
CHECK_DEADLOCK FALSE
CONSTANTS
  Governor = {g1, g2, g3}
  PolicyKind = {k}
  PolicyHash = {p1}
  Data = {m1, m2}
  NoData = NoData
  TIMELOCK_DELAY = 1
  MaxTime = 2
  MaxActions = 4
SYMMETRY Symm
PROPERTY VersionImmutable
