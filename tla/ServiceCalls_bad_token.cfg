CONSTANTS
    Calls = {c1}
    Requests <- BadTokenRequests
    Setups <- GrpcSetups
    MaxOps = 1
    MaxIds = 1
SPECIFICATION Spec
INVARIANT BadTokenIsUnauthenticated
CHECK_DEADLOCK FALSE
