SPECIFICATION Spec
CONSTANTS
    Word = 256
    MaxSize = 72
    Types = {"audio_out", "midi_out", "midi2_out", "midi_in"}
    EventSizes = {3, 8, 250}
    FREE = FREE
    FirstCapacity = 3
    MaxSlots = 3
    MaxSessions = 2
    Live = FALSE
INVARIANTS
    BuffersReturned
    HandlesAreCurrent
    GrantedRoomFits
    WrittenEventsAreRead
PROPERTIES
    BuffersComeBack
