---------------------------- MODULE MC_CxfClient ----------------------------
(* Model-checking instance of CxfClient: three calls, two of them on the   *)
(* same service object, so that two clients share one jsutils object.      *)
EXTENDS CxfClient, TLC

CONSTANTS c1, c2, c3, s1, s2

MC_Calls == {c1, c2, c3}
MC_Services == {s1, s2}
MC_Svc == (c1 :> s1) @@ (c2 :> s1) @@ (c3 :> s2)
MC_StatusCodes == {0, 200, 500}
\* Bodies of well-formed responses only.
MC_WellFormedBodies == {"xml", "mtom", "other"}
MC_AllBodies == BodyKinds
MC_Modes == BOOLEAN
=============================================================================
