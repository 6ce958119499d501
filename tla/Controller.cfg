SPECIFICATION Spec
CONSTANTS
    p1 = p1
    p2 = p2
    p3 = p3
    p4 = p4
    Buttons = {"START", "UP", "DOWN"}
    KeyInputs <- MCKeys
    MouseInputs <- MCMouse
    PadInputs <- MCPadInputs
    Pads = {p1, p2, p3, p4}
    NameOf <- MCNameOf
    MaxPads = 2
CONSTRAINT OneInUse
SYMMETRY Twins
INVARIANTS TypeOK HeardPadIsConfigured ButtonsShowTheFile
PROPERTIES NoPadStealsTheBox WholeBindsAreKept
