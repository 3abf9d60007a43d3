SPECIFICATION Spec
CONSTANTS
  Absent = Absent
  EventName = {"IdentityCreated", "TrackCreated", "AccountRegistered", "AccountActivated"}
  MaxHeight = 3
  MaxBlocks = 5
  MaxEpoch = 1
  MaxCrashes = 1
  MaxFailures = 1
  ReorgsAlone = TRUE
  
PROPERTIES  CatchesUp
