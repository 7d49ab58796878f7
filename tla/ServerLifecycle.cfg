CONSTANTS
    Servers <- SubServerNames
    GrpcServers = {"grpc"}
    Builds <- PublicBuilds
    Callers = {c1, c2}
    MaxInflight = 1
    NoOne = NoOne
SPECIFICATION FairSpec
INVARIANTS StopsAreSerial StopIsComplete StartNilMeansStop DropsAreJustified
PROPERTIES ReadyIsStoppable StoppedStaysStopped StopCallsReturn StartComesBack NoRunnerLeaks
CHECK_DEADLOCK FALSE
