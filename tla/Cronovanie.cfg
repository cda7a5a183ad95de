SPECIFICATION Spec
CONSTANTS
    ProtocolList <- MCProtocols
    Levels <- MCLevels
    Layouts = {{}, {"test_nl", "mhd_time"}}
INVARIANTS
    TypeOK
    WindowsApart
    NearlyInWindow
    SummedThriceAtMost
    
