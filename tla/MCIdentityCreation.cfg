SPECIFICATION Spec
CHECK_DEADLOCK FALSE
CONSTANTS
  NoAddr = NoAddr
  Relayer = relayer
  Address = {relayer, u1, u2}
  IdentityId = {i1, i2, i3, i4}
  TrackId = {}
  Deployed = {u2}
  NoId = NoId
  NoCommand = NoCommand
  Window = 0
  MaxTime = 0
  MaxNonce = 0
  MaxIdSigs = 0
  MaxInFlight = 1
  MaxFaults = 1
INVARIANTS AnswerIsMine OneEffect
PROPERTIES EventuallyOwns
