CONSTANTS
    Periods = {1, 3}
    MaxChanges = 2
    MayFail = TRUE
SPECIFICATION LogSpec
INVARIANTS
    LoggerCountsDown
    SettingsOnTheWay
PROPERTIES
    SettingsReachTelemetry
