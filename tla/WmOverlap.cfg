CONSTANTS
    Threads = {t1, t2}
    Patient = FALSE
    MaxFaults = 0
    RetryMax = 0
SPECIFICATION Spec
INVARIANTS
    OneChangeAtATime
