SPECIFICATION TableSpec
CONSTANTS
    Names = {a, b, c, d, e}
    BadNames = {bad}
    Flags = {audio, video}
    GoodFlags = {audio}
    FREE = FREE
    NoName = NoName
    MaxSlots = 8
PROPERTIES
    NoMemoryOnlyWhenReallocFails
