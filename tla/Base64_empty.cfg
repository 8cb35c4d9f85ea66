\* The round trip of the empty byte array.
CONSTANTS
    ByteVals = {0, 255}
    Units = {0}
    MaxBytes = 1
    MaxChars = 0
SPECIFICATION Spec
INVARIANT RoundTrip
