\* Any usage: callers may call a service again before the previous call on
\* it is answered, and the host may deliver any body, malformed included.
CONSTANTS
    c1 = c1  c2 = c2  c3 = c3  s1 = s1  s2 = s2
    None = None  Unreadable = Unreadable
    Calls <- MC_Calls
    Services <- MC_Services
    Svc <- MC_Svc
    StatusCodes <- MC_StatusCodes
    Bodies <- MC_AllBodies
    Modes <- MC_Modes
    CallerWaits = FALSE
SPECIFICATION Spec
INVARIANTS TypeOK CallbackMatchesResponse
