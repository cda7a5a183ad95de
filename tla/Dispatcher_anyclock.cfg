SPECIFICATION Spec
CONSTANTS
    Casovac = 60
    LateStep = 60
    Guard = 10
    Builds = {"pcap", "sock", "offline"}
    Readings <- MCReadings
    StartReadings <- MCStartReadings
    SteadyClock = FALSE
INVARIANTS
    TypeOK
    StampBeforeIntervalEnd
    FlushDelayedOnce
PROPERTIES
    StampsIncrease
    StampNotInFuture
    FlushCatchesUp
