--------------------------- MODULE MCServiceCalls -----------------------------
(* ServiceCalls for TLC: two calls, every source of interceptors, headers that *)
(* reach each verdict of the rule.                                             *)
EXTENDS ServiceCalls, TLC

Token(form) == [form |-> form, scope |-> << >>]

Header(scheme, form) == [scheme |-> scheme, token |-> Token(form)]

Request(proto, id) ==
    [proto |-> proto, id |-> id, implemented |-> TRUE, rule |-> None,
     header |-> Header("none", "empty"), granted |-> FALSE]

Grpc0 == Request("grpc", NoId)

MCRequests ==
    {Request("public", NoId), Request("public", 101), Request("admin", NoId),
     [Grpc0 EXCEPT !.rule = "alwaysGrant"], [Grpc0 EXCEPT !.implemented = FALSE]}
    \cup {[Grpc0 EXCEPT !.rule = "jwt", !.header = h] :
            h \in {Header("none", "empty"), Header("basic", "good"),
                   Header("bearer", "empty"), Header("bearer", "good")}}
    \cup {[Grpc0 EXCEPT !.rule = "jwt", !.header = Header("bearer", "good"), !.granted = TRUE]}

MCSetups ==
    [kind : Kinds, level : {"error"}, options : {"default"}, payload : {TRUE},
     listeners : {{"public", "admin", "grpc"}}]
    \cup
    [kind : {"pkg"}, level : {"info"}, options : {"additional", "override", "legacy"},
     payload : {FALSE}, listeners : {{"grpc"}, {"admin"}}]

\* The default logger at the level the configuration file may set
ErrorLevelSetups ==
    [kind : {"pkg"}, level : {"error"}, options : {"default"}, payload : {FALSE}, listeners : {{"public"}}]

\* A gRPC service, and callers whose tokens fail each test of the authenticator
GrpcSetups ==
    [kind : {"pkg"}, level : {"info"}, options : {"default"}, payload : {FALSE}, listeners : {{"grpc"}}]

BadTokenRequests ==
    {[Grpc0 EXCEPT !.rule = "jwt", !.header = Header("bearer", form)] : form \in Forms \ {"good"}}

CallSymmetry == Permutations(Calls)
==============================================================================
