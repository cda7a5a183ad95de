SPECIFICATION Spec
CONSTANTS
    MaxInterval <- MCMaxInterval
    MaxDelay = 6
INVARIANTS
    TypeOK
    LevelIsIntact
PROPERTIES
    SummedAfterBelow
