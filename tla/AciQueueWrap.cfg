\* The same queue under a caller that relies on the refusal.
CONSTANTS
    Size = 2
    Wrap = 256
    MaxLen = 1
    Byte = {0, 1}
SPECIFICATION Spec
PROPERTIES
    FalseWhenNoSpace
