------------------------------ MODULE StartPlan ------------------------------
(***************************************************************************)
(* The configuration phase of autogenServer.Start (core/serve.go): which   *)
(* sub-servers a configuration yields, and where the phase gives up. The   *)
(* result is the build that ServerLifecycle runs.                          *)
(***************************************************************************)
EXTENDS Naturals, FiniteSetsExt

\* What the managers and their configuration decide. rest, library and manager
\* say whether restManager, LibraryConfig() and grpcServerManager are non-nil.
Configs ==
    [rest : BOOLEAN, library : BOOLEAN, health : BOOLEAN, healthFails : BOOLEAN,
     admin : BOOLEAN, adminTLS : BOOLEAN, public : BOOLEAN, publicTLS : BOOLEAN,
     manager : BOOLEAN, grpcConfig : BOOLEAN, handlers : BOOLEAN]

HasHealth(c) == c.rest /\ c.library /\ c.health
HasAdmin(c)  == c.rest /\ c.admin
HasPublic(c) == c.rest /\ c.public

\* The health service is one more gRPC handler, so it alone enables the gRPC server.
HasGrpc(c)   == c.manager /\ c.grpcConfig /\ (c.handlers \/ HasHealth(c))

\* configureAdminServerListener and configurePublicServerListener reject a missing
\* library configuration and a TLS configuration that cannot be made.
AdminFails(c)  == HasAdmin(c) /\ (~c.library \/ ~c.adminTLS)
PublicFails(c) == HasPublic(c) /\ ~c.publicTLS

\* Where Start leaves early, in the order it reaches these points. The append to
\* s.grpcServerManager.EnabledGrpcHandlers dereferences a manager that may be nil.
Exits(c) == <<
    [taken |-> HasHealth(c) /\ c.healthFails,       as |-> "error"],
    [taken |-> HasHealth(c) /\ ~c.manager,          as |-> "panic"],
    [taken |-> AdminFails(c),                       as |-> "error"],
    [taken |-> PublicFails(c),                      as |-> "error"],
    [taken |-> ~HasPublic(c) /\ ~HasGrpc(c),        as |-> "panic"] >>

Outcome(c) ==
    LET taken == {i \in DOMAIN Exits(c) : Exits(c)[i].taken}
    IN  IF taken = {} THEN "ok" ELSE Exits(c)[Min(taken)].as

SubServers(c) ==
    (IF HasAdmin(c) THEN {"admin"} ELSE {})
        \cup (IF HasPublic(c) THEN {"public"} ELSE {})
        \cup (IF HasGrpc(c) THEN {"grpc"} ELSE {})

StartBuild(c) ==
    [outcome |-> Outcome(c), health |-> HasHealth(c),
     servers |-> IF Outcome(c) = "ok" THEN SubServers(c) ELSE {}]
==============================================================================
