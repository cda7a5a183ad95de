SPECIFICATION FairSpec
CONSTANTS
    Protocols = {"E", "I"}
    ReadOrder <- MCTwoRead
    InsertOrder <- MCTwoInsert
    Kinds = {{}, {"E"}, {"E", "I"}}
    SlowDb = {TRUE, FALSE}
    MaxFrames = 2
    MaxFlushes = 2
    MaxFaults = 1
INVARIANTS
    TypeOK
    
PROPERTIES
    WriterEnds
    KeepsLedger
