CONSTANTS
    Calls = {c1}
    Requests <- MCRequests
    Setups <- ErrorLevelSetups
    MaxOps = 1
    MaxIds = 1
SPECIFICATION Spec
INVARIANT LevelIsHonoured
CHECK_DEADLOCK FALSE
