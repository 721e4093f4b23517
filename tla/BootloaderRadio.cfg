\* A radio that holds more events, and what a central is told.
CONSTANTS
    PageSize = 2
    FlashSize = 4
    QueueSize = 2
    Versions = {1, 2}
    ImageSize = 1
    OldSize = 4
    ChunkLen = 1
    SizePacketLen = 1
    WrongSize = 3
    RadioBuffer = 5
    MaxSessions = 6
    None = None
SPECIFICATION Spec
INVARIANTS
    ToldIsInFlash
