\* Callers wait for the answer before calling the same service again, and
\* the host delivers well-formed bodies; calls on different services, and
\* synchronous and asynchronous calls, interleave freely.
CONSTANTS
    c1 = c1  c2 = c2  c3 = c3  s1 = s1  s2 = s2
    None = None  Unreadable = Unreadable
    Calls <- MC_Calls
    Services <- MC_Services
    Svc <- MC_Svc
    StatusCodes <- MC_StatusCodes
    Bodies <- MC_WellFormedBodies
    Modes <- MC_Modes
    CallerWaits = TRUE
SPECIFICATION Spec
INVARIANT AttachmentIntegrity
PROPERTY ImplementsCallAbstract
