\* The queue with its real size, two payload bytes and two values of each; 64 stands for 256.
CONSTANTS
    Size = 2
    Wrap = 64
    MaxLen = 2
    Byte = {0, 1}
SPECIFICATION CarefulSpec
INVARIANTS
    TypeOK
    NeverOverfilled
PROPERTIES
    IsBoundedFifo
