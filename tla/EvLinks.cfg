CONSTANTS
  Names = {erouter0, ext0}
  WanIface = erouter0
  Writers = {"hal", "sim", "dml"}
  MaxQueue = 2
  AutoWan = TRUE
  MayFail = TRUE
  MaxCrashes = 1
SPECIFICATION Spec
INVARIANTS RestingStatesAgree LastQueuedWins FullQueueIsServed
PROPERTIES ChannelKept
CHECK_DEADLOCK FALSE
