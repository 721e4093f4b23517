\* lib_aci_send_data and its credit check.
CONSTANTS
    PageSize = 2
    FlashSize = 8
    QueueSize = 2
    CreditWrap = 4
    TotalCredit = 2
    ImageSizes = {3, 4}
    PacketLens = {0, 1, 3}
    NotifTargets = {0, 1, 2}
    MaxBytes = 5
    MaxInRadio = 2
SPECIFICATION CarefulSpec
INVARIANT
    CreditChecked
CHECK_DEADLOCK FALSE
