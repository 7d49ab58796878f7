CONSTANTS
    Calls = {c1, c2}
    Requests <- MCRequests
    Setups <- MCSetups
    MaxOps = 2
    MaxIds = 2
SPECIFICATION Spec
SYMMETRY CallSymmetry
INVARIANTS LineIsOwn LevelIsOwn OneTraceId GrpcAdmitted OnlyTheAppCrashes
CHECK_DEADLOCK FALSE
