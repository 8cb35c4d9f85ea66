\* Byte arrays of up to five bytes: one and two full groups and every padding variant;
\* strings of up to three code units: every UTF-8 width at its boundaries, surrogates and 0xFFFF.
\* The enumeration of inputs stops at the bounds; that end state is not a deadlock of the codec.
CHECK_DEADLOCK FALSE
CONSTANTS
    ByteVals = {0, 1, 63, 128, 192, 255}
    Units = {0, 65, 127, 128, 2047, 2048, 55357, 56832, 65535}
    MaxBytes = 5
    MaxChars = 3
SPECIFICATION Spec
INVARIANTS TypeOK RoundTripNonEmpty Utf8RoundTrip Utf16RoundTrip
