SPECIFICATION FairSpec
CONSTANTS
    Casovac = 60
    LateStep = 60
    Guard = 10
    Builds = {"pcap", "sock", "offline"}
    Readings <- MCReadings
    StartReadings <- MCStartReadings
    SteadyClock = TRUE

    
PROPERTIES
    BookedIsFlushed
