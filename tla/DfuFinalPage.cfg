\* an image of whole pages, and its final page.
CONSTANTS
    PageSize = 2
    FlashSize = 8
    QueueSize = 2
    CreditWrap = 4
    TotalCredit = 2
    ImageSizes = {4}
    PacketLens = {1, 3}
    NotifTargets = {0, 1, 2}
    MaxBytes = 5
    MaxInRadio = 2
SPECIFICATION CarefulSpec
PROPERTY
    FinalPageOfImage
CHECK_DEADLOCK FALSE
