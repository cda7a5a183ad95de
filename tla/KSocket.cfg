\* Two interfaces besides the loopback, four changes from outside.
SPECIFICATION Spec
CONSTANTS
    Ifaces <- MCIfaces
    Loopback = "lo"
    Configs <- MCConfigs
    MaxChanges = 4
INVARIANTS
    TypeOK
    OneSocket
    PromiscOnlyWhereCaptured
    ExitHasCause
    ReportedOnce
PROPERTIES
    WritesOnlyPromisc
    FindsAnInterface
