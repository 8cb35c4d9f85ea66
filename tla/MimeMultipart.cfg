\* Requests with up to two attachments, over values that are empty, plain, or hold line breaks and a blank line.
\* The enumeration stops at MaxParts; that end state is not a deadlock of the code.
CONSTANTS
    Uuids = {"u1", "u2", "u3"}
    Values <- MC_Values
    MaxParts = 2
SPECIFICATION Spec
INVARIANT RequestRoundTrip
CHECK_DEADLOCK FALSE
