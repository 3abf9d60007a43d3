SPECIFICATION ProfileSpec
CHECK_DEADLOCK FALSE
CONSTANTS
  NoAddr = NoAddr
  NoText = NoText
  Address = {a, b}
  IdentityId = {i1}
  TrackId = {t1}
  Window = 0
  MaxTime = 1
  MaxNonce = 4
  MaxIdSigs = 2
  Text = {x1, x2}
  Fits = {x1}
  MaxProfileNonce = 2
  MaxProfileSigs = 1
INVARIANTS IdentityNoReplay RotationConsistent ProfileNoReplay
PROPERTIES OneCommandPerNonce OwnerChangesByConsent ProfileOnlyByOwner
