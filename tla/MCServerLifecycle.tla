-------------------------- MODULE MCServerLifecycle --------------------------
(***************************************************************************)
(* Instances of ServerLifecycle with the sub-servers that autogenServer    *)
(* can build and the builds that some configuration leads to.              *)
(***************************************************************************)
EXTENDS ServerLifecycle

P == INSTANCE StartPlan

SubServerNames == {"admin", "public", "grpc"}

AllBuilds  == {P!StartBuild(c) : c \in P!Configs}
GrpcBuilds == {b \in AllBuilds : b.servers = {"grpc"}}

\* A REST and a gRPC sub-server, each alone and both at once; the admin server is one more
\* httpServer, started and stopped by the same code as the public one.
PublicBuilds == {b \in AllBuilds : "admin" \notin b.servers}
==============================================================================
