\* Strings of up to two code units holding the surrogate pair of U+1F600.
CONSTANTS
    ByteVals = {0}
    Units = {65, 55357, 56832}
    MaxBytes = 0
    MaxChars = 2
SPECIFICATION Spec
INVARIANT Utf8DecodeStandard
CHECK_DEADLOCK FALSE
