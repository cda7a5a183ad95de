SPECIFICATION Spec
CONSTANTS
    ProtocolList <- MCProtocols
    Levels <- MCSilence
    Layouts = {{}}
INVARIANT
    WindowNeedsStamps
