SPECIFICATION Spec
CONSTANTS
    ProtocolList <- MCProtocols
    Levels <- MCFirst
    Layouts = {{}}
INVARIANT
    WindowIsCovered
