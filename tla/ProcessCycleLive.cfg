SPECIFICATION Spec
CONSTANTS
    Word = 256
    MaxSize = 72
    Types = {"audio_out", "midi_in"}
    EventSizes = {3, 8, 250}
    FREE = FREE
    FirstCapacity = 2
    MaxSlots = 4
    MaxSessions = 1
    Live = TRUE
INVARIANTS
    DequeuedPortExists
