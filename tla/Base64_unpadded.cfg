\* Byte arrays of up to two bytes, whose encodings carry '=' pads.
CONSTANTS
    ByteVals = {0, 65, 255}
    Units = {0}
    MaxBytes = 2
    MaxChars = 0
SPECIFICATION Spec
INVARIANT UnpaddedNotCorrupted
CHECK_DEADLOCK FALSE
