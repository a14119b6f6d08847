CONSTANTS
  Slots = {s1}
  Names = {eth0}
  NoName = NoName
  DirectWan = FALSE
  CallsMayFail = TRUE
  PatientWriter = FALSE
SPECIFICATION FairSpec
PROPERTIES ImplementsReport
