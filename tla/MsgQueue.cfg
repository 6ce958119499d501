SPECIFICATION Spec
CHECK_DEADLOCK FALSE
CONSTANTS
    Messages = {m1, m2}
    NoMessage = none
    Size = 3
    ReadRaw = {"copied", "throws"}
    WriteRaw = {"copied", "throws"}
INVARIANTS MessagesIntact SlotExclusive NoHoles
PROPERTIES ImplementsFifo
