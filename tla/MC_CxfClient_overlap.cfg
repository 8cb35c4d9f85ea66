\* A caller may call again on a service before the previous call on it
\* is answered (two outstanding asynchronous calls on one service object).
CONSTANTS
    c1 = c1  c2 = c2  c3 = c3  s1 = s1  s2 = s2
    None = None  Unreadable = Unreadable
    Calls <- MC_Calls
    Services <- MC_Services
    Svc <- MC_Svc
    StatusCodes <- MC_StatusCodes
    Bodies <- MC_WellFormedBodies
    Modes <- MC_Modes
    CallerWaits = FALSE
SPECIFICATION Spec
INVARIANT AttachmentIntegrity
