SPECIFICATION Spec
CONSTANTS
    Protocols = {"E"}
    ReadOrder <- MCReadOrder
    InsertOrder <- MCInsertOrder
    Kinds = {{}, {"E"}}
    SlowDb = {TRUE, FALSE}
    MaxFrames = 3
    MaxFlushes = 3
    MaxFaults = 2
INVARIANTS
    CountedOnce
    
    
