CONSTANTS
  Slots = {s1, s2}
  Names = {eth0, eth1, eth2}
  NoName = NoName
  DirectWan = TRUE
  CallsMayFail = TRUE
  PatientWriter = TRUE
SPECIFICATION Spec
INVARIANTS VlanFollowsState UpIsServed
SYMMETRY Symmetry
CONSTRAINT NothingMissed
