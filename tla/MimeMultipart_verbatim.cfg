\* One attachment suffices: the part data read back starts with a line feed.
CONSTANTS
    Uuids = {"u1", "u2"}
    Values <- MC_OneValue
    MaxParts = 1
SPECIFICATION Spec
INVARIANT PartDataVerbatim
CHECK_DEADLOCK FALSE
