\* The device under resets, power losses and a central that follows the procedure.
CONSTANTS
    PageSize = 4
    FlashSize = 16
    QueueSize = 2
    Versions = {1, 2}
    ImageSize = 6
    OldSize = 4
    ChunkLen = 3
    SizePacketLen = 1
    WrongSize = 9
    RadioBuffer = 3
    MaxSessions = 3
    None = None
SPECIFICATION LiveSpec
INVARIANTS
    TypeOK
    ValidatedIsInFlash
PROPERTIES
    RunsWhatIsInstalled
    LoadsApplication
