SPECIFICATION RingSpec
CONSTANTS
    Latencies = {1, 2}
    RingSize = 8
    IndexRange = 32
    Junk = Junk
    Magic = Magic
    Length = Length
INVARIANTS
    RingTypeOK
    NeverCorrupted
    WriterStaysAhead
    EventCoversData
PROPERTIES
    LatencyApplied
    ImplementsQueue
