\* dfu.c under an arbitrary central: two-byte pages, a four-page flash.
\* It stops in dfu_reset's loop when the queue is full: only the watchdog ends that.
CONSTANTS
    PageSize = 2
    FlashSize = 8
    QueueSize = 2
    CreditWrap = 4
    TotalCredit = 2
    ImageSizes = {3, 4}
    PacketLens = {0, 1, 3}
    NotifTargets = {0, 2}
    MaxBytes = 5
    MaxInRadio = 2
SPECIFICATION CarefulSpec
INVARIANTS
    TypeOK
    StreamFaithful
    NothingBeyond
    CreditConservation
PROPERTIES
    SuccessMeansImage
CHECK_DEADLOCK FALSE
