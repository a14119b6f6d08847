CONSTANTS
    N = 2
    Wan = 1
    StaticLinux = {1}
    StaticUp = {1, 2}
    Tables = {{2}}
    Chosen = {}
    MaxFaults = 1
SPECIFICATION Spec
INVARIANTS
    AnswersAreOwn
    AliasesUnique
    ClientsInSync
PROPERTIES
    UpstreamKept
