----------------------------- MODULE MCBootstrap ------------------------------
(* Bootstrap for TLC: a sound application, and others that differ from it in  *)
(* one part of their configuration or of their Hooks.                         *)
EXTENDS Bootstrap

Pair == [pair |-> "set", p12 |-> Absent]

SoundPool == [nil |-> FALSE, mode |-> "system", encoding |-> Absent, path |-> FALSE, password |-> FALSE]

SoundTLS ==
    [nil |-> FALSE, skipVerify |-> FALSE, selfSigned |-> FALSE, min |-> "v12", max |-> "v13",
     ciphers |-> "known", clientAuth |-> "known", renegotiation |-> "known",
     identities |-> <<Pair>>, pool |-> SoundPool]

TLSConfigs ==
    {NoTLS, [SoundTLS EXCEPT !.pool = NoTLS], [SoundTLS EXCEPT !.skipVerify = TRUE]}
    \cup {[SoundTLS EXCEPT !.min = lo, !.max = hi, !.selfSigned = self] :
             lo, hi \in Versions, self \in BOOLEAN}
    \cup {[SoundTLS EXCEPT !.ciphers = v] : v \in {"bogus", "tooMany"}}
    \cup {[SoundTLS EXCEPT !.clientAuth = v] : v \in {Absent, "bogus"}}
    \cup {[SoundTLS EXCEPT !.renegotiation = v] : v \in {Absent, "bogus"}}
    \cup {[SoundTLS EXCEPT !.identities = ids] :
             ids \in {<< >>} \cup {<<i>> : i \in IdentityType} \cup {<<Pair, i>> : i \in IdentityType}}
    \cup {[SoundTLS EXCEPT !.pool = p] : p \in PoolType}

NoHooks ==
    [given |-> FALSE, validate |-> Absent, logger |-> Absent, clientBuilder |-> FALSE,
     dial |-> Absent, server |-> Absent, ruleFactory |-> FALSE]

Hooks == [NoHooks EXCEPT !.given = TRUE]

Http(tls) == [kind |-> "http", tls |-> tls, timeout |-> 1000]
Grpc(tls) == [kind |-> "grpc", tls |-> tls, timeout |-> 0]
Temporal == [kind |-> "temporal", tls |-> NoTLS, timeout |-> 0]

Issuer(name) == [name |-> name, url |-> TRUE, ttl |-> 1, refresh |-> 1]

Sound ==
    [kind |-> "server", external |-> FALSE, db |-> FALSE, hooks |-> Hooks,
     source |-> "file", file |-> NoSource, env |-> NoSource,
     downs |-> << >>, grpcTLS |-> NoTLS,
     rules |-> << >>, disableRules |-> FALSE, jwt |-> TRUE, issuers |-> <<Issuer("i1"), Issuer("i2")>>]

\* Every TLS configuration in each place that has one, checked by the hook or not
TLSApps ==
    {[a EXCEPT !.hooks.validate = v] :
        v \in {Absent, "accepts", "checks"},
        a \in {[Sound EXCEPT !.grpcTLS = tls] : tls \in TLSConfigs}
                \cup {[Sound EXCEPT !.downs = <<Http(tls), Grpc(NoTLS)>>] : tls \in TLSConfigs}
                \cup {[Sound EXCEPT !.kind = "worker", !.downs = <<Grpc(tls)>>] : tls \in TLSConfigs}}

LoggerApps ==
    {[Sound EXCEPT !.kind = k, !.external = x, !.hooks = h] :
        k \in {"server", "worker"}, x \in BOOLEAN,
        h \in {NoHooks} \cup {[Hooks EXCEPT !.logger = l] : l \in {Absent, "nil", "own"}}}

Bad == [SoundTLS EXCEPT !.min = "v13", !.max = "v12"]

HookApps ==
    {[Sound EXCEPT !.kind = k, !.downs = <<[Http(NoTLS) EXCEPT !.timeout = t], Temporal, Grpc(Bad)>>,
                   !.hooks.clientBuilder = b, !.hooks.dial = d, !.hooks.server = s] :
        k \in {"server", "worker"}, t \in {0, 1, 59999, 60000}, b \in BOOLEAN,
        d, s \in {Absent, "additional", "override", "both"}}

IssuerLists ==
    {<< >>, <<Issuer("i1"), Issuer("i2")>>, <<Issuer("i1"), Issuer("i1")>>, <<Issuer(Absent)>>,
     <<Issuer("i1"), [Issuer("i2") EXCEPT !.refresh = 0]>>,
     <<Issuer("i1"), [Issuer("i2") EXCEPT !.ttl = 0]>>,
     <<[Issuer("i1") EXCEPT !.url = FALSE], Issuer("i2")>>}

RuleApps ==
    {[Sound EXCEPT !.rules = r, !.disableRules = d, !.jwt = j, !.db = j, !.issuers = l, !.hooks.ruleFactory = f] :
        r \in {<< >>, <<"valid">>, <<"invalid">>, <<"valid", "valid">>, <<"valid", "invalid">>},
        d, j, f \in BOOLEAN, l \in IssuerLists}

\* Sources that mention some of the options, the prefix, or a key no option has
Sources(keys, texts) == UNION {[ks -> texts] : ks \in SUBSET keys}

ConfigApps ==
    {[Sound EXCEPT !.source = s] : s \in {"wrongArguments", "help", "version", "unreadable"}}
    \cup {[Sound EXCEPT !.file = f @@ p, !.env = e] :
            f \in Sources({"level", "name"}, {"debug", "0", "5", "json"}) \cup Sources({"format"}, {"debug", "json"}),
            p \in Sources({EnvPrefix}, {NoText, "app"}) \cup Sources({"unknown"}, {"plain"}),
            e \in Sources(Options, {"INFO", NoText})}

MCApps == ConfigApps \cup TLSApps \cup LoggerApps \cup HookApps \cup RuleApps
=============================================================================
