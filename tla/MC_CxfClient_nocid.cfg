\* Callers wait for answers; the host may deliver a multipart/related
\* response whose attachment part lacks a Content-ID header.
CONSTANTS
    c1 = c1  c2 = c2  c3 = c3  s1 = s1  s2 = s2
    None = None  Unreadable = Unreadable
    Calls <- MC_Calls
    Services <- MC_Services
    Svc <- MC_Svc
    StatusCodes <- MC_StatusCodes
    Bodies <- MC_AllBodies
    Modes <- MC_Modes
    CallerWaits = TRUE
SPECIFICATION Spec
PROPERTY EveryCallAnswered
