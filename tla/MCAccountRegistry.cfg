SPECIFICATION Spec
CHECK_DEADLOCK FALSE
CONSTANTS
  NoAddr = NoAddr
  NoRoot = NoRoot
  Address = {a, b}
  IdentityId = {i1}
  TrackId = {t1}
  AccountId = {x1, x2}
  Commitment = {c1}
  Eligible = {0}
  Window = 1
  MaxTime = 1
  MaxNonce = 5
  MaxIdSigs = 1
  MaxTrackNonce = 5
  MaxAcSigs = 1
SYMMETRY Symm
INVARIANTS MembersAreActive EpochsChained AccountNoReplay
PROPERTIES RotationKillsCommands HistoryKept
