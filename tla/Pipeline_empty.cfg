SPECIFICATION Spec
CONSTANTS
    Protocols = {"E"}
    ReadOrder <- MCReadOrder
    InsertOrder <- MCInsertOrder
    Kinds = {{}, {"E"}}
    SlowDb = {FALSE}
    MaxFrames = 2
    MaxFlushes = 2
    MaxFaults = 0
INVARIANT
    EmptyListIsMarked
