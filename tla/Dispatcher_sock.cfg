SPECIFICATION Spec
CONSTANTS
    Casovac = 60
    LateStep = 60
    Guard = 10
    Builds = {"sock"}
    Readings <- MCFewReadings
    StartReadings <- MCFewReadings
    SteadyClock = TRUE
INVARIANTS
    MeasurementBeginsAtStart
