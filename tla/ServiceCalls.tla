---------------------------- MODULE ServiceCalls ------------------------------
(***************************************************************************)
(* The calls a service process answers at the same time: REST requests on  *)
(* the public and the admin listener, inside the middleware of             *)
(* core/middleware.go, and gRPC calls, inside the interceptors of          *)
(* core/grpc.go and the generated method. What is followed is the context  *)
(* of each call: the logger it carries, the trace id, who is let in, and   *)
(* what a panic takes down.                                                *)
(***************************************************************************)
EXTENDS Logging, JwtAuth, FiniteSetsExt

CONSTANTS
    Calls,       \* calls in flight
    Requests,    \* what a caller may send, and to which endpoint
    Setups,      \* what a boot may settle on: library, level, interceptors, payload logging, listeners
    MaxOps,      \* bound on what the application does in all calls
    MaxIds       \* bound on the trace ids made up

ASSUME BoundsAssumption == MaxOps \in Nat /\ MaxIds \in Nat

Setup == [kind : Kinds, level : Levels, payload : BOOLEAN, listeners : SUBSET {"public", "admin", "grpc"},
          options : {"default", "additional", "override", "legacy"}]

ASSUME SetupsAssumption == Setups \subseteq Setup

None == "none"
NoId == 0

\* What callers send; the ids in their headers are none of those made up here.
Sendable(q) ==
    /\ q.proto \in {"public", "admin", "grpc"}
    /\ q.id \in Nat \ (1..MaxIds)
    /\ q.implemented \in BOOLEAN /\ q.granted \in BOOLEAN
    /\ q.rule \in {None, "alwaysGrant", "jwt"}
    /\ q.header.token.form \in Forms

ASSUME CallersAssumption == \A q \in Requests : Sendable(q)

\* TraceidLogInterceptor's "traceid"
LiteralId == 1000

VARIABLES
    kind,     \* the library behind the logger
    shared,   \* the level of the one logrus logger
    boot,     \* the frame NewServer leaves: its context is the servers' base context
    options,  \* the source of the interceptors
    payload,  \* library.log.logPayload
    listeners, \* the listeners the application has
    call,     \* the calls
    line,     \* the lines the last step handed to a logger
    askers,   \* calls that have set a level
    ids,      \* trace ids made up so far
    crashed   \* the panic that ended the process, if one did

processVars == <<kind, boot, options, payload, listeners>>
vars == <<kind, shared, boot, options, payload, listeners, call, line, askers, ids, crashed>>

\* A frame: a context, the trace id in it, and what was put on it on the way (own, asked).
Frame(ctx, own, asked) == [ctx |-> ctx, id |-> NoId, own |-> own, asked |-> asked]

NoFrame == Frame(EmptyContext, {}, None)

Free == [req |-> [proto |-> None], pc |-> "idle", outer |-> NoFrame, core |-> NoFrame, user |-> NoFrame,
         next |-> 1, ops |-> 0, seen |-> {}, late |-> FALSE, panicked |-> FALSE,
         served |-> FALSE, code |-> None]

\* withLogLevel on the logger NewServer has chosen
BootFrame(level) ==
    LET lg == WithLevel(kind, [fields |-> {<<"app", "boot">>}, level |-> "info"], level)
    IN  Frame(PutLogger(kind, EmptyContext, lg), lg.fields, level)

Init ==
    /\ \E s \in Setups :
         /\ kind = s.kind /\ options = s.options /\ payload = s.payload /\ listeners = s.listeners
         /\ shared = SharedLevel(kind, s.level, "info")
         /\ boot = BootFrame(s.level)
    /\ call = [c \in Calls |-> Free]
    /\ line = {} /\ askers = {} /\ ids = 0
    /\ crashed = {}

-----------------------------------------------------------------------------

\* log.WithStr, log.WithInt and log.WithDuration on a frame
Derive(f, key, value) ==
    [f EXCEPT !.ctx = WithStr(kind, @, key, value), !.own = Merge(@, {<<key, value>>})]

\* InitFieldsFromRequest: the B3 headers, remote, request and method, as one field
InitFieldsFromRequest(f, c) == Derive(f, "remote", c)

\* log.Error, log.Info, log.Debug; inside: within CoreRequestContextMiddleware
Line(c, f, severity, inside) ==
    [by |-> c, inside |-> inside, severity |-> severity, own |-> f.own, asked |-> f.asked,
     fields |-> GetLogger(f.ctx).fields,
     written |-> Writes(kind, GetLogger(f.ctx), shared, severity)]

Log(c, f, severity, inside) == line' = {Line(c, f, severity, inside)}

Silent == line' = {}

At(c, pc) == crashed = {} /\ call[c].pc = pc

Rest(c) == call[c].req.proto \in {"public", "admin"}

\* GetLogger(ctx) is nil, and a method of it is called.
Crash(c, why) ==
    /\ crashed' = {[by |-> c, why |-> why]}
    /\ Silent /\ UNCHANGED call

\* The call is answered: nothing holds its contexts any more.
Done(c, code) ==
    [call EXCEPT ![c] = [Free EXCEPT !.req = call[c].req, !.pc = "done", !.code = code,
                                     !.ops = call[c].ops, !.served = call[c].served]]

Arrive(c) ==
    /\ At(c, "idle")
    /\ \E q \in {r \in Requests : r.proto \in listeners} :
         call' = [call EXCEPT ![c] =
                    [Free EXCEPT !.req = q,
                                 !.pc = CASE q.proto = "public" -> "trace"
                                          [] q.proto = "admin" -> "core"
                                          [] q.proto = "grpc" -> "intercept",
                                 !.outer = IF q.proto = "grpc" THEN NoFrame ELSE boot,
                                 !.user = IF q.proto = "grpc" THEN NoFrame ELSE boot]]
    /\ Silent /\ UNCHANGED <<processVars, shared, askers, ids, crashed>>

-----------------------------------------------------------------------------
(* REST: the middleware on the way in *)

\* The id in the request's header, or a new one and a line that says so
TraceabilityMiddleware(c) ==
    /\ At(c, "trace")
    /\ \/ /\ call[c].req.id # NoId
          /\ call' = [call EXCEPT ![c].pc = "core", ![c].user.id = call[c].req.id]
          /\ Silent /\ UNCHANGED ids
       \/ /\ call[c].req.id = NoId
          /\ ids < MaxIds
          /\ ids' = ids + 1
          /\ Log(c, InitFieldsFromRequest(call[c].outer, c), "info", FALSE)
          /\ call' = [call EXCEPT ![c].pc = "core", ![c].user.id = ids']
    /\ UNCHANGED <<processVars, shared, askers, crashed>>

\* Slip: an id in the context is not looked for.
TraceIdAlwaysNew(f, id) ==
    ids < MaxIds /\ ids' = ids + 1 /\ id = ids'

\* GetTraceIDFromContext: id is the one in the context, or one made up on the spot.
GetTraceIDFromContext(f, id) ==
    IF f.id # NoId
    THEN id = f.id /\ UNCHANGED ids
    ELSE ids < MaxIds /\ ids' = ids + 1 /\ id = ids'

TraceIds == (1..MaxIds) \cup {q.id : q \in Requests}

CoreRequestContextMiddleware(c) ==
    /\ At(c, "core")
    /\ \E id \in TraceIds :
         /\ GetTraceIDFromContext(call[c].user, id)
         /\ LET f == Derive(call[c].user, "traceid", id) IN
            call' = [call EXCEPT ![c].pc = "handler", ![c].core = f, ![c].user = f]
    /\ Silent /\ UNCHANGED <<processVars, shared, askers, crashed>>

-----------------------------------------------------------------------------
(* What the application does with its context, in a REST handler or a gRPC *)
(* method. Without a logger in the context the wrapper is a nil pointer.   *)

Op(c) == At(c, "handler") /\ MapThenSumSet(LAMBDA d : call[d].ops, Calls) < MaxOps

Step(c, f) == [call EXCEPT ![c].user = f, ![c].ops = @ + 1]

\* A panic of the application: net/http's goroutine has Recoverer, gRPC's has nothing.
Panic(c, why) ==
    IF Rest(c)
    THEN /\ call' = [call EXCEPT ![c].pc = "unwind", ![c].panicked = TRUE]
         /\ Silent /\ UNCHANGED crashed
    ELSE Crash(c, why)

AppLogs(c, severity) ==
    /\ Op(c)
    /\ IF HasLogger(call[c].user.ctx)
       THEN Log(c, call[c].user, severity, TRUE) /\ call' = Step(c, call[c].user) /\ UNCHANGED crashed
       ELSE Panic(c, "noLogger")
    /\ UNCHANGED <<processVars, shared, askers, ids>>

AppWithStr(c) ==
    /\ Op(c)
    /\ IF HasLogger(call[c].user.ctx)
       THEN call' = Step(c, Derive(call[c].user, "app", c)) /\ Silent /\ UNCHANGED crashed
       ELSE Panic(c, "noLogger")
    /\ UNCHANGED <<processVars, shared, askers, ids>>

AppWithLevel(c, level) ==
    LET f  == call[c].user
        lg == WithLevel(kind, GetLogger(f.ctx), level)
    IN  /\ Op(c)
        /\ IF HasLogger(f.ctx)
           THEN /\ call' = Step(c, [f EXCEPT !.ctx = PutLogger(kind, @, lg), !.asked = level])
                /\ shared' = SharedLevel(kind, level, shared)
                /\ askers' = askers \cup {c}
                /\ Silent /\ UNCHANGED crashed
           ELSE Panic(c, "noLogger") /\ UNCHANGED <<shared, askers>>
        /\ UNCHANGED <<processVars, ids>>

\* The library's own way to add a field; logrus has none.
AppNativeWith(c) ==
    /\ Op(c)
    /\ kind # "logrus" /\ HasLogger(call[c].user.ctx)
    /\ call' = Step(c, [call[c].user EXCEPT !.ctx = NativeWith(@, "native", c),
                                            !.own = Merge(@, {<<"native", c>>})])
    /\ Silent /\ UNCHANGED <<processVars, shared, askers, ids, crashed>>

\* tempRoundtripper and loggingRoundtripper: fields for the lines of this call only, one
\* when the downstream answers and, of the payload, one in any case
AppCallsDownstream(c) ==
    LET f == InitFieldsFromRequest(Derive(call[c].user, "Downstream", "d"), c) IN
    /\ Op(c)
    /\ IF HasLogger(call[c].user.ctx)
       THEN /\ \E answered \in BOOLEAN :
                 line' = (IF answered THEN {Line(c, Derive(f, "status", "s"), "info", TRUE)} ELSE {})
                         \cup (IF payload THEN {Line(c, Derive(f, "func", "FlushLog"), "debug", TRUE)} ELSE {})
            /\ call' = Step(c, call[c].user)
            /\ UNCHANGED crashed
       ELSE Panic(c, "noLogger")
    /\ UNCHANGED <<processVars, shared, askers, ids>>

\* The application asks for its trace id, to pass it on.
AppGetsTraceId(c) ==
    /\ Op(c)
    /\ \E id \in TraceIds :
         /\ GetTraceIDFromContext(call[c].user, id)
         /\ call' = [Step(c, call[c].user) EXCEPT ![c].seen = @ \cup {id}]
    /\ Silent /\ UNCHANGED <<processVars, shared, askers, crashed>>

AppReturns(c) ==
    /\ At(c, "handler")
    /\ call' = IF Rest(c) THEN [call EXCEPT ![c].pc = "unwind"] ELSE Done(c, "OK")
    /\ Silent /\ UNCHANGED <<processVars, shared, askers, ids, crashed>>

AppPanics(c) ==
    /\ At(c, "handler")
    /\ Panic(c, "application")
    /\ UNCHANGED <<processVars, shared, askers, ids>>

-----------------------------------------------------------------------------
(* REST: the middleware on the way out, also while a panic unwinds it *)

\* RequestTimer.Log, on the context of CoreRequestContextMiddleware
RequestTimerLog(c) ==
    /\ At(c, "unwind")
    /\ \E severity \in {"info", "error"} :
         Log(c, Derive(InitFieldsFromRequest(call[c].core, c), "status", "s"), severity, TRUE)
    /\ call' = [call EXCEPT ![c].pc = IF payload THEN "flush" ELSE "exit"]
    /\ UNCHANGED <<processVars, shared, askers, ids, crashed>>

FlushLog(c) ==
    /\ At(c, "flush")
    /\ Log(c, Derive(InitFieldsFromRequest(call[c].core, c), "func", "FlushLog"), "debug", TRUE)
    /\ call' = [call EXCEPT ![c].pc = "exit"]
    /\ UNCHANGED <<processVars, shared, askers, ids, crashed>>

\* The timeout middleware's goroutine logs a panic; Recoverer sees it unless the timeout
\* page is out. Both have the outer context.
Recoverer(c) ==
    /\ At(c, "exit")
    /\ IF call[c].panicked THEN Log(c, call[c].outer, "error", FALSE) ELSE Silent
    /\ call' = Done(c, None)
    /\ UNCHANGED <<processVars, shared, askers, ids, crashed>>

\* The timeout page: HandleError on the context outside Traceability. The handler runs on.
Timeout(c) ==
    /\ crashed = {}
    /\ call[c].pc \notin {"idle", "done"} /\ Rest(c) /\ ~call[c].late
    /\ call' = [call EXCEPT ![c].late = TRUE]
    /\ Log(c, call[c].outer, "error", FALSE)
    /\ UNCHANGED <<processVars, shared, askers, ids, crashed>>

-----------------------------------------------------------------------------
(* gRPC: the interceptors and the generated method *)

\* Slip: the logger is put in the context after it is first asked for.
InterceptorsSwapped(source) ==
    CASE source = "default"    -> <<"traceid", "logger">>
      [] source = "additional" -> <<"traceid", "logger", "user">>
      [] source = "override"   -> <<"user">>
      [] source = "legacy"     -> <<"user", "traceid", "logger">>

\* DefaultGrpcServerOptions, alone or with Hooks.AdditionalGrpcServerOptions behind it;
\* Hooks.OverrideGrpcServerOptions; a GrpcManager, whose own interceptors come first.
Interceptors(source) ==
    CASE source = "default"    -> <<"logger", "traceid">>
      [] source = "additional" -> <<"logger", "traceid", "user">>
      [] source = "override"   -> <<"user">>
      [] source = "legacy"     -> <<"user", "logger", "traceid">>

Intercepting(c, who) ==
    /\ At(c, "intercept")
    /\ call[c].next \in DOMAIN Interceptors(options)
    /\ Interceptors(options)[call[c].next] = who

Intercepted(c, f) ==
    LET next == call[c].next + 1 IN
    call' = [call EXCEPT ![c].user = f, ![c].next = next,
                         ![c].pc = IF next \in DOMAIN Interceptors(options) THEN "intercept" ELSE "method"]

\* makeLoggerInterceptor, with the logger of the boot
LoggerInterceptor(c) ==
    /\ Intercepting(c, "logger")
    /\ Intercepted(c, [call[c].user EXCEPT !.ctx = PutLogger(kind, @, GetLogger(boot.ctx)),
                                           !.own = Merge(@, boot.own), !.asked = boot.asked])
    /\ Silent /\ UNCHANGED <<processVars, shared, askers, ids, crashed>>

TraceidLogInterceptor(c) ==
    /\ Intercepting(c, "traceid")
    /\ IF HasLogger(call[c].user.ctx)
       THEN Intercepted(c, Derive(call[c].user, "traceid", LiteralId)) /\ Silent /\ UNCHANGED crashed
       ELSE Crash(c, "interceptor")
    /\ UNCHANGED <<processVars, shared, askers, ids>>

\* An interceptor of the application, which may log
UserInterceptor(c) ==
    /\ Intercepting(c, "user")
    /\ \/ Intercepted(c, call[c].user) /\ Silent /\ UNCHANGED crashed
       \/ /\ HasLogger(call[c].user.ctx)
          /\ Log(c, call[c].user, "info", TRUE)
          /\ Intercepted(c, call[c].user) /\ UNCHANGED crashed
       \/ ~HasLogger(call[c].user.ctx) /\ Crash(c, "userInterceptor")
    /\ UNCHANGED <<processVars, shared, askers, ids>>

Serve(c) == [call EXCEPT ![c].pc = "handler", ![c].served = TRUE]

\* The generated method up to the service's function: every way through the rule logs.
GrpcMethod(c) ==
    LET q       == call[c].req
        verdict == grpcRule(q.header, q.granted)
    IN  /\ At(c, "method")
        /\ \/ ~q.implemented /\ call' = Done(c, "Unimplemented") /\ Silent /\ UNCHANGED crashed
           \/ /\ q.implemented /\ q.rule \in {None, "alwaysGrant"}
              /\ call' = Serve(c) /\ Silent /\ UNCHANGED crashed
           \/ /\ q.implemented /\ q.rule = "jwt" /\ HasLogger(call[c].user.ctx)
              /\ Log(c, call[c].user, "debug", TRUE)
              /\ call' = IF verdict.ok THEN Serve(c) ELSE Done(c, GrpcCode(verdict))
              /\ UNCHANGED crashed
           \/ /\ q.implemented /\ q.rule = "jwt" /\ ~HasLogger(call[c].user.ctx)
              /\ Crash(c, "rule")
        /\ UNCHANGED <<processVars, shared, askers, ids>>

-----------------------------------------------------------------------------

App(c) ==
    \/ \E level \in Levels : AppLogs(c, level) \/ AppWithLevel(c, level)
    \/ AppWithStr(c) \/ AppNativeWith(c) \/ AppCallsDownstream(c) \/ AppGetsTraceId(c)
    \/ AppReturns(c) \/ AppPanics(c)

Middleware(c) ==
    \/ TraceabilityMiddleware(c) \/ CoreRequestContextMiddleware(c)
    \/ RequestTimerLog(c) \/ FlushLog(c) \/ Recoverer(c) \/ Timeout(c)

Grpc(c) == LoggerInterceptor(c) \/ TraceidLogInterceptor(c) \/ UserInterceptor(c) \/ GrpcMethod(c)

Next == \E c \in Calls : Arrive(c) \/ App(c) \/ Middleware(c) \/ Grpc(c)

Spec == Init /\ [][Next]_vars

-----------------------------------------------------------------------------
(* Properties *)

\* A line carries every field put on its own context before it, through the wrapper
\* or through the library itself (log/README.md:147: "works seamlessly whether you access
\* the logger natively or through the wrapper"), and nothing a call in flight beside it,
\* or a context derived further in, has added (logging.go:164-169, 209-214, 238-245).
LineIsOwn == \A l \in line : l.fields = l.own

\* A line is written when its severity is at or below the level last set on its context.
Honoured(l) == l.written = (LevelNumber[l.severity] <= LevelNumber[l.asked])

\* A context's level decides what is written through it: "a new logger that logs the given
\* level or below" (logging.go:30-31), "record logs at or above a particular level"
\* (log/README.md:94), "an info level log is ignored with a lower level set"
\* (logging_test.go:109). pkg/log, the default, writes info lines at level error.
LevelIsHonoured == \A l \in line : Honoured(l)

\* Info lines of pkg/log under level error, which LevelIsHonoured is about
InfoAtError(l) == kind = "pkg" /\ l.asked = "error" /\ l.severity = "info"

\* Lines of logrus once another call, or this one on a context further in, has set the
\* level of the logger they share (logging.go:248-249)
Overruled(l) == kind = "logrus" /\ ~(askers \subseteq {l.by} /\ l.asked = call[l.by].user.asked)

\* The level set on a context decides what is written through it, whatever level other
\* calls, or contexts further in, have set: for every line of pkg/logging, for every line
\* of pkg/log but InfoAtError's, and for the lines of logrus nothing has overruled
\* (logging.go:160-162, 196-207, 247-261).
LevelIsOwn == \A l \in line : InfoAtError(l) \/ Overruled(l) \/ Honoured(l)

IdOf(c) == {f[2] : f \in {g \in call[c].core.own : g[1] = "traceid"}}

\* A public request has one trace id, the one of its header or one no other request has:
\* the application is given the id its lines carry (traceability.go:26-54,
\* corerequestcontext.go:113-116; the admin listener has no TraceabilityMiddleware).
OneTraceId ==
    \A c \in Calls : call[c].pc \in {"handler", "unwind", "flush", "exit"} /\ call[c].req.proto = "public" =>
        /\ call[c].req.id # NoId => IdOf(c) = {call[c].req.id}
        /\ call[c].seen \subseteq IdOf(c)
        /\ \A l \in line : l.by = c /\ l.inside =>
             {f \in l.fields : f[1] = "traceid"} = {<<"traceid", id>> : id \in IdOf(c)}
        /\ \A d \in Calls \ {c} : call[c].req.id = NoId => IdOf(c) \cap IdOf(d) = {}

Bearer(q) == q.header.scheme = "bearer"

GoodToken(q) == Bearer(q) /\ q.header.token.form = "good"

Refused(c) == call[c].pc = "done" /\ call[c].req.proto = "grpc" /\ ~call[c].served

\* The service's function is reached only when the method has no rule, rules are disabled,
\* or the token is good and the rule grants it; otherwise the caller is told so, and apart
\* from a bad token for what reason: there is no such method, no bearer header, or the
\* claims fall short (grpc_handler.arrai:86-101, jwtclaimsrule.go:38-81, jwtgrpc.go:28-43).
GrpcAdmitted ==
    \A c \in Calls : call[c].pc \in {"handler", "done"} /\ call[c].req.proto = "grpc" =>
        LET q == call[c].req IN
        /\ call[c].served => q.implemented /\ (q.rule = "jwt" => GoodToken(q) /\ q.granted)
        /\ ~call[c].served =>
             /\ call[c].code # "OK"
             /\ ~q.implemented => call[c].code = "Unimplemented"
             /\ q.implemented /\ ~Bearer(q) => call[c].code = "Unauthenticated"
             /\ q.implemented /\ GoodToken(q) => call[c].code = "PermissionDenied"

\* A token that does not parse or cannot be authenticated is answered Unauthenticated, as
\* the errors jwtgrpc declares "safe to return over the wire" have it: "returned when the
\* header or JWT failed to parse correctly", "returned when the jwt cannot be
\* authenticated" (jwtgrpc.go:12-21). The rule returns the authenticator's own error.
BadTokenIsUnauthenticated ==
    \A c \in Calls : Refused(c) /\ call[c].req.implemented /\ Bearer(call[c].req) /\ ~GoodToken(call[c].req) =>
        call[c].code = "Unauthenticated"

\* A missing logger takes the process down only where the application chose the
\* interceptors: in one of its own ahead of makeLoggerInterceptor, or anywhere when it
\* overrides the options; otherwise only a panic of a gRPC method does, and no REST
\* request ever (grpc.go:54-89, 185-194, recoverer.go:11-34).
OnlyTheAppCrashes ==
    \A x \in crashed :
        /\ ~Rest(x.by)
        /\ \/ x.why = "application"
           \/ x.why = "userInterceptor" /\ options \in {"legacy", "override"}
           \/ x.why \in {"noLogger", "rule"} /\ options = "override"
=============================================================================
