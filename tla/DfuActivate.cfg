\* OP_CODE_VALIDATE, OP_CODE_ACTIVATE_N_RESET and the application flag.
CONSTANTS
    PageSize = 2
    FlashSize = 8
    QueueSize = 2
    CreditWrap = 4
    TotalCredit = 2
    ImageSizes = {3, 4}
    PacketLens = {0, 1, 3}
    NotifTargets = {0, 2}
    MaxBytes = 5
    MaxInRadio = 2
SPECIFICATION CarefulSpec
PROPERTIES
    FlagMeansVerified
CHECK_DEADLOCK FALSE
