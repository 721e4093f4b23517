\* dfu_image_activate and the disconnection it waits for.
CONSTANTS
    PageSize = 4
    FlashSize = 16
    QueueSize = 2
    Versions = {1, 2}
    ImageSize = 6
    OldSize = 4
    ChunkLen = 3
    SizePacketLen = 1
    WrongSize = 9
    RadioBuffer = 2
    MaxSessions = 2
    None = None
SPECIFICATION Spec
PROPERTIES
    FastResetOnDisconnect
