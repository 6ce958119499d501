SPECIFICATION Spec
CONSTANTS
    Byte = {0, 1}
    NoByte = NoByte
    LogicalBase = 8
    RamSize = 8
    AddrSpace = 18
    GameWords <- MCGameWords
    BlockLen = 6
    Types = {"u16", "u32", "f32"}
INVARIANTS
    FailedWriteChangesNothing
    QuietAccessIsWhole
    BlocksAlwaysThrow
PROPERTY
    ImplementsN64Memory
