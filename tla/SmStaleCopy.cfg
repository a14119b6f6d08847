CONSTANTS
  Slots = {s1}
  Names = {eth0}
  NoName = NoName
  DirectWan = FALSE
  CallsMayFail = FALSE
  PatientWriter = TRUE
SPECIFICATION Spec
INVARIANTS WriteTakesEffect
