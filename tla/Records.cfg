\* Twelve kinds of frames, three frames in up to three intervals.
SPECIFICATION Spec
CONSTANTS
    FrameKinds <- MCFrameKinds
    Misreads <- MCMisreads
    Enabled <- MCEnabled
    TCP_portov <- MCTcp
    UDP_portov <- MCUdp
    V4 <- MCV4
    Rests <- MCRests
    Mac <- MCMac
    Ip <- MCIp
    Ends <- MCEnds
    Junk = "junk"
    Setups <- MCSetups
    MaxFrames = 3
INVARIANTS
    ListsMatchFrames
    
    
    RowsAreTotals
    OneRowPerAddress
    PairRowsAreTotals
    MergedRowsAreTotals
    
    MinuteIsTheWire
    WindowIsTheWire
