SPECIFICATION Spec
CHECK_DEADLOCK FALSE
CONSTANTS
  NoAddr = NoAddr
  Relayer = relayer
  Address = {relayer, u1}
  IdentityId = {i1, i2}
  TrackId = {}
  Deployed = {}
  NoId = NoId
  NoCommand = NoCommand
  Window = 0
  MaxTime = 0
  MaxNonce = 0
  MaxIdSigs = 0
  MaxInFlight = 2
  MaxFaults = 0
INVARIANTS RelayedOnce
