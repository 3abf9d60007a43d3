SPECIFICATION Spec
CHECK_DEADLOCK FALSE
CONSTANTS
  NoAddr = NoAddr
  ZeroHash = ZeroHash
  NoDigest = NoDigest
  Address = {a}
  IdentityId = {i1}
  TrackId = {t1}
  Hash = {h1, h2, h3}
  Content = {x}
  Digest = {d1, d2}
  Window = 0
  MaxTime = 1
  MaxNonce = 1
  MaxIdSigs = 1
  MaxSequence = 2
  MaxPeriod = 3
  MaxCorrections = 2
  MaxTrackNonce = 3
  MaxCpSigs = 1
SYMMETRY Symm
INVARIANTS  CorrectionsListed
PROPERTIES AnchoredForever 
