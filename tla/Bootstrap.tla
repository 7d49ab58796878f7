------------------------------ MODULE Bootstrap -------------------------------
(***************************************************************************)
(* From the call of NewServer, or NewTemporalWorker, to the server it      *)
(* returns (core/serve.go): the configuration, the service and its Hooks,  *)
(* the logger, the downstream clients, the authorization rules and the     *)
(* options of the gRPC server. One goroutine, many early returns; what it  *)
(* leaves behind is what ServerLifecycle starts and RestEndpoint serves    *)
(* with.                                                                   *)
(***************************************************************************)
EXTENDS TLSConfig, ConfigReader, Integers, FiniteSets, FiniteSetsExt

CONSTANT Apps   \* applications: what they are, their Hooks and their configuration

\* Only Hooks that were returned make a logger; the configuration has the types of its fields.
Configured(a) ==
    /\ a.kind \in {"server", "worker"} /\ a.external \in BOOLEAN
    /\ a.hooks.logger = "own" => a.hooks.given
    /\ a.grpcTLS \in TLSType
    /\ a.downs \in Seq([kind : {"http", "grpc", "temporal"}, tls : TLSType, timeout : Int])
    /\ a.rules \in Seq(STRING)
    /\ a.issuers \in Seq([name : STRING, url : BOOLEAN, ttl : Int, refresh : Int])

ASSUME AppsAssumption == \A a \in Apps : Configured(a)

VARIABLES
    app,       \* [kind, external, db, rules, hooks, and the configuration's parts]
    conf,      \* the options LoadCustomConfig has filled in
    downs,     \* GenCode.Downstream: the downstream configurations
    grpcTLS,   \* GenCode.Upstream.GRPC.TLS
    pc,
    logger,    \* the logger in the context
    built,     \* how many downstream clients there are
    rules,     \* the authorization rules resolved: whose tokens each one takes
    fetchers,  \* goroutines refreshing a key cache, started so far
    dialled,   \* the worker's own temporal client is connected
    result     \* "none", "error", "panic", "exit", "server" or "worker"

vars == <<app, conf, downs, grpcTLS, pc, logger, built, rules, fetchers, dialled, result>>

AlwaysGrant == {"everyone"}   \* InsecureAlwaysGrantAccess

Names(issuers) == {issuers[i].name : i \in DOMAIN issuers}

\* getExternalLogger, and the bootstrap logger when there is none
Init ==
    /\ app \in Apps
    /\ conf = [o \in Options |-> NoText]
    /\ downs = app.downs /\ grpcTLS = app.grpcTLS
    /\ pc = "load"
    /\ logger = IF app.external THEN "external" ELSE "bootstrap"
    /\ built = 0 /\ rules = << >> /\ fetchers = 0 /\ dialled = FALSE
    /\ result = "none"

-----------------------------------------------------------------------------

Return(how) == pc' = "end" /\ result' = how

Go(to) == pc' = to /\ UNCHANGED result

\* A call that may fail: go on to a step, or come back with its error or panic.
Call(outcomes, to) ==
    \/ "ok" \in outcomes /\ Go(to)
    \/ \E how \in outcomes \ {"ok"} : Return(how)

\* LoadCustomConfig: wrong arguments, help or the version asked for; a file that cannot
\* be read ends the process (log.Fatalln); the parts not modelled may fail to decode.
Loads(r) ==
    CASE app.source \in {"wrongArguments", "help", "version"} -> {"error"}
      [] app.source = "unreadable" -> {"exit"}
      [] OTHER -> IF Unmarshals(r) THEN MayFail ELSE {"error"}

LoadConfig ==
    LET r == Reader(app.file, app.env) IN
    /\ pc = "load"
    /\ Call(Loads(r), "create")
    /\ conf' = IF result' = "none" THEN Values(r) ELSE conf
    /\ UNCHANGED <<app, downs, grpcTLS, logger, built, rules, fetchers, dialled>>

CreateService ==
    /\ pc = "create"
    /\ Call(MayFail, "validate")
    /\ UNCHANGED <<app, conf, downs, grpcTLS, logger, built, rules, fetchers, dialled>>

\* timeoutValidatorFunc for timeout=1ms:60s, in milliseconds
ValidTimeout(t) == t >= 1 /\ t < 60000

\* The tags of LogConfig: oneof=color json text, and a level that is not zero
LogTagsHold == conf["format"] \in {"color", "json", "text"} /\ conf["level"] # "0"

\* validator.Validate looks at the tags of the configuration, not at its TLS parts.
TagsHold ==
    LogTagsHold /\ \A i \in DOMAIN downs : downs[i].kind = "http" => ValidTimeout(downs[i].timeout)

\* Hooks.ValidateConfig is absent, accepts everything, or calls Validate on every TLSConfig.
HookAccepts ==
    app.hooks.validate = "checks" => Valid(grpcTLS) /\ \A i \in DOMAIN downs : Valid(downs[i].tls)

validateConfig ==
    /\ pc = "validate"
    /\ IF app.hooks.validate = "checks" /\ HookAccepts
       THEN /\ downs' = [i \in DOMAIN downs |-> [downs[i] EXCEPT !.tls = Normalised(@)]]
            /\ grpcTLS' = Normalised(grpcTLS)
       ELSE UNCHANGED <<downs, grpcTLS>>
    /\ Call(OkIf(HookAccepts /\ TagsHold), IF app.kind = "server" THEN "logger" ELSE "dial")
    /\ UNCHANGED <<app, conf, logger, built, rules, fetchers, dialled>>

\* The external logger stays; otherwise the hook's, or the default one.
SetLogger ==
    /\ pc = "logger"
    /\ logger' = CASE app.external -> logger
                   [] ~app.external /\ app.hooks.logger = "own" -> "hook"
                   [] OTHER -> "default"
    /\ Go("clients")
    /\ UNCHANGED <<app, conf, downs, grpcTLS, built, rules, fetchers, dialled>>

-----------------------------------------------------------------------------

BuildDownstreamHTTPClient(d) ==
    IF app.hooks.clientBuilder THEN MayFail ELSE MakeTLSConfig(d.tls)

\* ResolveGrpcDialOptions and ResolveGrpcServerOptions: both hooks, the override, none
ResolveGrpcOptions(hook, tls) ==
    CASE hook = "both"     -> {"error"}
      [] hook = "override" -> MayFail
      [] OTHER -> MakeTLSConfig(tls)

\* The generated NewServer replaces nil Hooks, BuildDownstreamClients does not.
BuildDownstreamGRPCClient(d) ==
    IF app.kind = "worker" /\ ~app.hooks.given THEN {"panic"}
    ELSE InOrder(<<ResolveGrpcOptions(app.hooks.dial, d.tls), MayFail>>)

\* The options' hook, then the client's builder or client.Dial; no TLSConfig is involved.
BuildDownstreamTemporalClient ==
    IF app.kind = "worker" /\ ~app.hooks.given THEN {"panic"} ELSE MayFail

BuildDownstream(d) ==
    CASE d.kind = "http"     -> BuildDownstreamHTTPClient(d)
      [] d.kind = "grpc"     -> BuildDownstreamGRPCClient(d)
      [] d.kind = "temporal" -> BuildDownstreamTemporalClient

BuildClient ==
    /\ pc = "clients" /\ built < Len(downs)
    /\ Call(BuildDownstream(downs[built + 1]), "clients")
    /\ built' = IF result' = "none" THEN built + 1 ELSE built
    /\ UNCHANGED <<app, conf, downs, grpcTLS, logger, rules, fetchers, dialled>>

\* ... and, for a service with a database, database.GetDBHandle
ClientsBuilt ==
    /\ pc = "clients" /\ built = Len(downs)
    /\ IF app.kind = "server"
       THEN Call(IF app.db THEN MayFail ELSE {"ok"}, "rules")
       ELSE Go("worker")
    /\ UNCHANGED <<app, conf, downs, grpcTLS, logger, built, rules, fetchers, dialled>>

-----------------------------------------------------------------------------
(* jwtauth.AuthFromConfig: a verifier for each issuer, in order, each with *)
(* a refreshing goroutine when its cacheRefresh is positive.               *)

Refused(issuers, i) ==
    \/ issuers[i].name = Absent \/ ~issuers[i].url \/ issuers[i].ttl = 0
    \/ \E j \in 1..(i - 1) : issuers[j].name = issuers[i].name

Refusals(issuers) == {i \in DOMAIN issuers : Refused(issuers, i)}

\* How many goroutines AuthFromConfig has started when it comes back
Started(issuers) ==
    LET made == IF Refusals(issuers) = {} THEN DOMAIN issuers ELSE 1..(Min(Refusals(issuers)) - 1)
    IN  Cardinality({i \in made : issuers[i].refresh > 0})

\* Slip: an endpoint whose rule cannot be resolved is served without one.
ResolveOrSkip ==
    /\ pc = "rules" /\ Len(rules) < Len(app.rules)
    /\ IF ~app.jwt \/ Refusals(app.issuers) # {}
       THEN rules' = Append(rules, AlwaysGrant) /\ UNCHANGED fetchers
       ELSE rules' = Append(rules, Names(app.issuers)) /\ fetchers' = fetchers + Started(app.issuers)
    /\ Go("rules")
    /\ UNCHANGED <<app, conf, downs, grpcTLS, logger, built, dialled>>

\* The factory of the claims-based rule: the expression compiles, or a hook decides.
MakesRule(expression) == IF app.hooks.ruleFactory THEN MayFail ELSE OkIf(expression = "valid")

\* resolveAuthorizationRule for the next endpoint that has a rule
ResolveRule ==
    LET made == MakesRule(app.rules[Len(rules) + 1]) IN
    /\ pc = "rules" /\ Len(rules) < Len(app.rules)
    /\ \/ /\ app.disableRules
          /\ rules' = Append(rules, AlwaysGrant) /\ Go("rules") /\ UNCHANGED fetchers
       \/ /\ ~app.disableRules /\ ("error" \in made \/ ~app.jwt)
          /\ Return("error") /\ UNCHANGED <<rules, fetchers>>
       \/ /\ ~app.disableRules /\ "ok" \in made /\ app.jwt
          /\ fetchers' = fetchers + Started(app.issuers)
          /\ IF Refusals(app.issuers) = {}
             THEN rules' = Append(rules, Names(app.issuers)) /\ Go("rules")
             ELSE Return("error") /\ UNCHANGED rules
    /\ UNCHANGED <<app, conf, downs, grpcTLS, logger, built, dialled>>

RulesResolved ==
    /\ pc = "rules" /\ Len(rules) = Len(app.rules)
    /\ Go("options")
    /\ UNCHANGED <<app, conf, downs, grpcTLS, logger, built, rules, fetchers, dialled>>

\* ResolveGrpcServerOptions, whatever the server serves; then NewServer returns.
ServerOptions ==
    /\ pc = "options"
    /\ \E how \in ResolveGrpcOptions(app.hooks.server, grpcTLS) :
         Return(IF how = "ok" THEN "server" ELSE how)
    /\ UNCHANGED <<app, conf, downs, grpcTLS, logger, built, rules, fetchers, dialled>>

-----------------------------------------------------------------------------
(* NewTemporalWorker, after validateConfig *)

\* hooks is dereferenced; the options' hook, then the client's builder or client.Dial.
DialTemporal ==
    /\ pc = "dial"
    /\ Call(IF app.hooks.given THEN MayFail ELSE {"panic"}, "clients")
    /\ dialled' = (result' = "none")
    /\ UNCHANGED <<app, conf, downs, grpcTLS, logger, built, rules, fetchers>>

\* The hook on the worker's options; then NewTemporalWorker returns.
BuildWorker ==
    /\ pc = "worker"
    /\ \E how \in MayFail : Return(IF how = "ok" THEN "worker" ELSE how)
    /\ UNCHANGED <<app, conf, downs, grpcTLS, logger, built, rules, fetchers, dialled>>

Next ==
    \/ LoadConfig \/ CreateService \/ validateConfig \/ SetLogger
    \/ BuildClient \/ ClientsBuilt \/ ResolveRule \/ RulesResolved \/ ServerOptions
    \/ DialTemporal \/ BuildWorker

Spec == Init /\ [][Next]_vars

-----------------------------------------------------------------------------

\* A boot dies of a nil pointer in two ways only: a worker's application returned no Hooks
\* (serve.go:136-145, downstreambuilder.go:39-74), or MakeTLSConfig got a part that no
\* ValidateConfig hook has called Validate on, and that is invalid or names a thing other
\* than in the spelling compared later (serve.go:65-73, tls.go:408-603).
ValidatedNeverPanics ==
    result = "panic" =>
        \/ app.kind = "worker" /\ ~app.hooks.given
        \/ /\ app.hooks.validate # "checks"
           /\ \E tls \in {grpcTLS} \cup {downs[i].tls : i \in DOMAIN downs} :
                ~Valid(tls) \/ tls # Normalised(tls)

\* A server comes out of NewServer only with a rule in place for every endpoint that has
\* one in its specification (svc_handler.arrai:57-66, callback.go:234-271): the one that
\* lets everyone in exactly under development.disableAllAuthorizationRules, otherwise one
\* that takes the tokens of all the configured issuers, with key caches of its own.
EveryRuleIsInPlace ==
    result = "server" =>
        /\ Len(rules) = Len(app.rules)
        /\ \A i \in DOMAIN rules :
             rules[i] = IF app.disableRules THEN AlwaysGrant ELSE Names(app.issuers)
        /\ ~app.disableRules /\ app.rules # << >> =>
             /\ app.jwt
             /\ fetchers = Len(rules) * Started(app.issuers)

\* What comes out of a boot does not log through the bootstrap logger any more, "designed to
\* provide a fail-safe logger within the context during bootstrapping only" (serve.go:239-240;
\* of NewTemporalWorker 108 says "This mirrors what NewServer does"). A worker keeps it, in
\* the context of its activities, and its Hooks.Logger is never asked.
BootstrapLoggerIsGone == result \in {"server", "worker"} => logger # "bootstrap"

\* A boot ends well only with every option as it was written: by an environment variable,
\* if the file gives a prefix and the file or a default mentions the option; else by
\* the file; else by the default. A key that is no option stops the boot. A text that reads
\* as a level is one, whatever the option, and stops the boot where the option's tag does not
\* allow it (serve.go:381-405, configreaderimpl.go:55-159, library.go:28).
ConfigIsAsWritten ==
    LET prefixed == EnvPrefix \in DOMAIN app.file /\ app.file[EnvPrefix] # NoText
        fromFile == {o \in Options : o \in DOMAIN app.file}
        fromEnv  == {o \in fromFile \cup DOMAIN SetDefaults :
                        prefixed /\ o \in DOMAIN app.env /\ app.env[o] # NoText}
    IN  result \in {"server", "worker"} =>
          /\ DOMAIN app.file \subseteq Options \cup {EnvPrefix}
          /\ \A o \in fromEnv : conf[o] = Decoded(app.env[o])
          /\ \A o \in fromFile \ fromEnv : conf[o] = Decoded(app.file[o])
          /\ \A o \in DOMAIN SetDefaults \ (fromFile \cup fromEnv) : conf[o] = SetDefaults[o]
          /\ ~ReadsAsLevel(conf["name"])
          /\ \A o \in fromEnv \ {"level", "name"} : ~ReadsAsLevel(app.env[o])
=============================================================================
