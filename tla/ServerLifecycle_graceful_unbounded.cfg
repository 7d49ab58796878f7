SPECIFICATION FairSpec
CONSTANTS
    Servers <- SubServerNames
    GrpcServers = {"grpc"}
    Builds <- GrpcBuilds
    Callers = {c1}
    MaxInflight = 1
    NoOne = NoOne
PROPERTIES GracefulStopIsBounded
CHECK_DEADLOCK FALSE
