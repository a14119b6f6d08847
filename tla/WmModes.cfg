CONSTANTS
    Threads = {t1}
    Patient = TRUE
    MaxFaults = 1
    RetryMax = 0
SPECIFICATION Spec
INVARIANTS
    FlagsAgree
    SelectedIsServed
    BridgeFollowsMode
    EthNameFollowsMode
    PortHasItsAddress
    ChangeUnderWay
PROPERTIES
    ChangeCompletes
    WanManagerResumes
    BootInformEnds
