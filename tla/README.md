# A formal model of sysl-go

sysl-go is the runtime library and code generator behind services written from a Sysl
specification: the generator writes REST, gRPC and Temporal handlers in Go, the library
boots them, serves them, authorises and times out their requests, and makes their
downstream calls. This directory holds TLA+ modules of the parts that are hard to test,
the TLC runs that check them on small instances, and proofs of the central results for
every instance. `PROJECT.json` has the machine-readable side: the map from definitions to
source lines, the runs, mutants, hazards, findings and theorems.

    tlc -workers 2 -config ServerLifecycle.cfg MCServerLifecycle
    tlapm ServerLifecycleProofs.tla

## 1. The system

| part | source | state | operations |
|---|---|---|---|
| server lifecycle | `core/serve.go`, `core/http.go`, `core/grpc.go` | `autogenServer.m`, `multiServer`, `errChan`, one runner goroutine per sub-server, one stopper goroutine per stop call and sub-server | `Start`, `Stop`, `GracefulStop` |
| timeout middleware | `common/timeout.go`, `core/recoverer.go` | `timeoutWriter` (lock, header map, buffer, `timedOut`), `done`, `panicChan`, the context | `ServeHTTP`, `Header`, `Write`, `WriteHeader` |
| futures | `common/async.go` | result channel of one, context | `Async`, `Get`, `GetChan` |
| key cache | `jwtauth/remote.go` | cached key set, its time, refreshes in flight | `Verify`, `refreshCache`, the refresh loop |
| request | `svc_handler.arrai`, `core/middleware.go`, `restlib`, `metrics`, `jwtauth/jwthttp`, `core/authrules`, `common` errors and body monitor | context and its two deadlines, claims, response writer, connection and transaction, downstream calls, `RestResult`, counter | the generated handler, its middleware, the client calls |
| calls | `log/logging.go`, `common/traceability.go`, `core/grpc.go`, `grpc_handler.arrai`, `jwtauth/jwtgrpc`, `common/internal` | each call's contexts with their loggers and trace id, the level of the one logrus logger, the process itself | the REST middleware, the gRPC interceptors and method, `WithStr`, `WithLevel`, `Info` ... |
| boot | `core/serve.go`, `core/callback.go`, `core/downstreambuilder.go`, `svc_app.arrai`, `config/tls.go`, `config/configreader*.go`, `jwtauth/config.go` | configuration and where each option comes from, logger in the context, clients, rules, refresh goroutines | `NewServer`, `NewTemporalWorker` |

How they interact: the boot yields an `autogenServer`, which the lifecycle starts and
stops. Each REST request runs in the goroutine of the timeout middleware; inside it run
the request's middleware and handler. Rules resolved at boot authenticate with key
caches that live as long as the process. A gRPC call runs in a goroutine of the gRPC
library, inside interceptors and outside the timeout middleware and the Recoverer. All
calls derive their loggers from the one the boot has left in the context.

What makes it hard: stop calls race `Start` and each other; the handler's goroutine
outlives its request; a result channel has room for one; refreshes overlap and answers
arrive out of order; two nested deadlines pass at any moment, between a service's return
and its commit too; panics (with an error, a value, nil) unwind through four layers that
each do something about them; nil pointers in configuration are dereferenced far from
where they could have been checked; a context derived in one place hands its logger to
many. The main ones, at the lines where they bite, are "hazards" in `PROJECT.json`. Known
and left out of that list, because no property is about them: `Push` bypasses the lock of
the timeout writer (`common/timeout.go:154`); `DefaultValidator` is created on first use
without synchronisation (`validator/validator.go:92`; the boot calls it before any request);
the upper bound of the `timeout` tag is exclusive (`validator/validator.go:134`); `HandleError`
of the older `Callback` dereferences a nil result (`common/defaultcallback.go:51`); a boot that
fails late leaves the refresh goroutines of earlier rules running (`core/callback.go:266`);
`Start` may return nil while requests are still being drained (`core/serve.go:765`).

## 2. The modules

**ServerLifecycle** has the goroutines of `Start` (starter), the runners, the stop calls
(callers) and their stoppers, each with a location, plus the mutex, `errChan` and each
sub-server's life (`shut`: up, draining, closed; `inflight`; `dropped`). The library
servers are modelled from their use: `ListenAndServe` returns when `Shutdown` begins and
at once when the server is already closed, a graceful gRPC stop waits without limit.
`StartPlan` computes from the managers and their configuration which sub-servers `Start`
builds and where it gives up; `MCServerLifecycle` feeds its builds to the lifecycle, so
that no build is checked that no configuration leads to.

**TimeoutHandler** has the handler's goroutine, the serving goroutine, the context and
the lock. The copy of the header, the status and the body are separate steps. `writes` counts
the handler's calls of `Write` that have returned, whatever became of their chunks, so that a
chunk lost, or taken after the timeout, shows.
**ResponseContract** is the abstract promise: one answer, given at once, with a reason
for it. TimeoutHandler implements it with `answer` mapped to what has been sent once
`ServeHTTP` has returned and to nothing before.

**AsyncFuture** has fn's goroutine and any number of calls sharing a Future.
**TimedRequest** composes the two: the handler of a timed request shares a Future with
goroutines of its own, over one context. `Get` blocks the handler; `GetChan` leaves a
goroutine that may outlive it. The variables of both modules are those of the
composition, so the properties and the refinement of TimeoutHandler are checked with a
handler that waits.

**JwksCache** has the issuer (which rotates through key sets), the goroutines that
refresh, each with a request, an answer and an elapsed time, and a clock. Ages are capped
just above the largest value a comparison tells apart.

**ErrorMapping**, **JwtAuth** and **AuthExpr** are pure: from an error to a status, from
a header to claims or a refusal, from a rule's expression to its value.

**RestEndpoint** composes the three in one request to a generated REST endpoint: stacked
jwthttp middleware, the check of the implementation, the authorization rule, parsing,
validation, the connection and transaction, the service (which may return, fail, panic,
vanish, and make calls in line or in goroutines), commit, response, the deferred recover,
the closing of the connection, the counter and the check for open bodies. The response
writer is the stack of recording wrappers over the timeout writer. Either deadline may
pass at any step, the outer one also while the answer waits to be sent: `Deliver` is the
middleware around the handler sending its answer, or the Recoverer's for a panic, `TimeoutPage`
the page that takes its place, and `client` what has reached the client. After that the
timeout writer keeps nothing.

**Logging** has `log/logging.go` as operators on loggers and contexts, which are values; what
is shared, the level of the logrus logger, is a parameter. **ServiceCalls** is the process:
calls on the public and the admin listener inside their middleware, and gRPC calls inside
the interceptors (the default ones, those with the application's behind them, those that
replace them, those of a `GrpcManager` before them) and the generated method with its
rule. Each context on the way is a frame: the logger it carries, and beside it what was
really put on it, which is what the properties compare. `line` holds the lines of the last
step only. A panic unwinds the REST middleware, each of which still logs; on the gRPC side
it ends the process.

**ConfigReader** has the builder and the reader as operators on a record of sources: file,
defaults, environment under a prefix, strict mode. Three options stand for the structure
decoded into (a level; a text with a default and a tag; a text with neither). Words that read
as a level do so in any case (`strings.ToLower`).

**TLSConfig** gives each function of `config/tls.go` the set of ways it may come back
(ok, error, panic), file contents left open. **Bootstrap** is the one goroutine of
`NewServer` and `NewTemporalWorker` with every early return, from the reading of the
configuration by `ConfigReader` on, through the HTTP, gRPC and Temporal clients it builds.

Action names are those of the functions they model where there is one function; a
function with several steps is split where another goroutine can come between.
Definitions marked "Slip" are not part of the model: each is a form of the definition
after it with a plausible mistake, used to show that a property can fail.

## 3. The runs

| run | instance | states | shows |
|---|---|---|---|
| lifecycle | a REST and a gRPC sub-server, alone and together, two stop calls | 193,524 | stop calls are serial and complete, errors of one sub-server hide nothing; a nil result of `Start` means a stop; requests are cut off only for a reason; what is ready can be stopped; what is stopped stays stopped, late runners included; `Start` comes back; REST stop calls return though a request never ends; with at most two sub-servers no runner is left behind (with three one may be: `errChan` holds one result and is read once) |
| timed_request | statuses on both sides of 100 and 999, two headers, two writes, a Future with two calls | 191,792 | no sharing of the unlocked header map, whole answers without a write lost, nothing taken after a timeout and the handler told so, every request answered, refinement of ResponseContract; one owner of a Future's result, what fn did and nothing else, no leaked worker, every wait on the Future ends though fn may not |
| jwks | the constructor, the background refresh and a verifier, three key sets, ttl 2, refresh 2, fetch up to 2 | 49,572 | never a nil cache in use, bounded staleness, stable keys always trusted, older sets stored only by overlapping refreshes, the cache catches up |
| rest | 12 endpoints, all forms of token, two calls | 1,173,650 | nobody is served who is not admitted, and a rule means what it says; no forgotten transaction; success means committed; the counter has the status the client got, up to three exceptions its comment names; a late error is a timeout; the open-body alarm is exact; `RestResult` is whole between calls; every request ends |
| bootstrap | the applications of `MCBootstrap` | 39,437 | a hook that validates TLS rules out nil pointers (but those of a worker without Hooks); every option is what was written; every rule is in place |
| calls | two calls, three libraries, four sources of interceptors, two operations of the application | 1,910,315 | a line has the fields of its own context and no others; a level set on a context decides there and nowhere else, but for info lines of pkg/log under level error and for lines of logrus that another context has overruled; one trace id for each public request; gRPC functions are reached only past their rule, and a refusal has a code that says why, bad tokens aside; only the application's own panics or interceptors end the process |

Six runs state what a comment or a document says and the code does not do; TLC's
counterexample is the evidence, and `PROJECT.json` quotes the text for each:

- lifecycle_graceful_unbounded: a graceful gRPC stop waits for ever (`core/grpc.go:149`).
- async_second_get: a second `Get` on a Future waits although fn has returned.
- rest_denied: no bearer token at an endpoint with a rule is a nil-context panic, not 401.
- bootstrap_logger: a worker keeps the bootstrap logger, which is for the boot only;
  `NewTemporalWorker` has the first half of what `NewServer` does about loggers and not the
  second (`core/serve.go:313-324`), so that `Hooks.Logger` and the level have no effect on it.
- calls_level: at level error the default logger, pkg/log, writes info lines, because its
  `WithLevel` knows a verbose mode and no other. The unit test that says it checks this logs
  with `Debug` (`log/logging_test.go:109-112`).
- calls_bad_token: a token that does not parse or cannot be authenticated is answered Unknown,
  not with the Unauthenticated errors `jwtauth/jwtgrpc` declares for the purpose. Here the
  repository contradicts itself: an end-to-end test expects Unknown.

**Bounds.** Two stop calls are what it takes for one to wait for the other. Two sub-servers, one
of each kind, show every interference between sub-servers; the admin server is one more
`httpServer`, and two REST sub-servers with two stop calls, or three of any kind, are too many
states for the liveness properties. The safety properties are proved for every set of sub-servers and
calls. `MaxInflight = 1`: a request is there or is not. Two writes (`MaxWrites = 2`)
show an order, and one taken before the other fails. Three key sets let a key appear and disappear. Two downstream calls are what
it takes to tear a `RestResult` or to have one open body among several. Two calls on one
Future are what it takes to compete for its result; a third adds no new conflict. In calls, two calls in flight show every leak from one
to the other; `MaxOps = 2` lets one of them change its logger before the other, or it
itself, logs; two made-up trace ids tell two requests apart. Each endpoint of
`MCRestEndpoint` has the features one question needs; headers vary where they are looked at.
`MCBootstrap` varies one part at a time from a sound application, certificate pools and
identities in all combinations.

**Fairness.** Go runs every runnable goroutine and fires timers (weak fairness on the steps
of each goroutine and on deadlines); `sync.Mutex` does not starve a waiter (strong fairness
on locking). Nothing is assumed of the handler in TimedRequest, of fn, of requests in
flight, or of a downstream: they may hang. Two modules assume more of their environment:

- RestEndpoint: the service, which is user code, returns once its calls in line have. So
  RequestEnds says that the generated code and the client calls add no hang of their own (a
  downstream may never answer), not that a service which loops is stopped.
- JwksCache: every fetch ends within `FetchBound`. The authenticators that
  `core/callback.go` builds use `config.DefaultHTTPClient`, whose timeout is 60 seconds
  (`config/http.go:27`); a program that calls `jwtauth.AuthFromConfig` with a client that has
  no timeout is outside the model, and has no such bound on staleness. CacheCatchesUp also
  assumes that the issuer does not fail the background refresh for ever, without which no
  cache can catch up.

**Deadlock** is checked in jwks, whose refresh loop never ends. The other systems come to rest
(an answered request, a finished boot, a stopped server), so there a wait that should end is
the subject of a liveness property instead.

## 4. The proofs

Every safety property the passing runs check, invariant or action property, is also a
theorem that holds for every value of the constants; so is the refinement of
ResponseContract. A proof has the form Init => Inv, Inv /\ [Next]_vars => Inv', Inv => the
property. The inductive invariants were checked by TLC on the instances of the runs before
they were proved.

| module | obligations | theorems |
|---|---|---|
| TimeoutHandlerProofs | 253 | TypeCorrect, NoSharing, WholeAnswer, TimeoutFinal, Refinement |
| TimedRequestProofs | 184 | ImplementsMiddleware, ImplementsFuture, TimedAnswers, OneOwner, ResultOfFn |
| ServerLifecycleProofs | 529 | TypeCorrect, SerialStops, CompleteStop, StaysStopped, NilMeansStop, JustifiedDrops, ReadyStops |
| JwksCacheProofs | 325 | RecentCache, StableKey, Regression |
| RestEndpointProofs | 2130 | TypeCorrect, CommittedSuccess, FinishedTransaction, CountedStatus, LateErrors, ExactAlarm, WholeResult, AdmittedRequests |
| BootstrapProofs | 969 | BootPanics, RulesInPlace, WrittenConfig |
| ServiceCallsProofs | 3045 | OwnLines, OwnLevels, TraceIdentity, GrpcAdmission, CrashCauses |

**Assumptions.** All are named, stand in the module that declares the constants, and are
evaluated by TLC in its run. TimeoutHandler: `Codes` are naturals that are not informational,
`NoHeader` is a header value, bounds are naturals. ServerLifecycle: builds are well formed,
the owner of a free mutex is no caller. JwksCache: times are naturals and the ttl is not
zero, the issuer has a first key set, the goroutines differ. RestEndpoint
(`RequestsAssumption`, `StatusesAssumption`): an endpoint's configuration and a header have
the types of their fields; statuses are ints, any ints. Bootstrap (`AppsAssumption`): the same
of an application's configuration, and only Hooks that were returned make a logger.
ServiceCalls (`SetupsAssumption`, `CallersAssumption`, `BoundsAssumption`): a library, a level
and interceptors from the lists the code has; the ids callers send are none of those made
up here, as random UUIDs are not. AdmittedRequests has one hypothesis more,
`RulesHold`: the expression of each endpoint's rule evaluates to what the rule was written
to say. `AuthExpr` evaluates recursively, which keeps it from the prover; the rest run
checks Admitted with the real evaluator for the rules of `MCRestEndpoint`.

*TimeoutHandler.* `AnswerIsWhole` is not inductive: while a page is being sent nothing in it
says which. `IInv` adds `Control` (which channel and which handler outcome go with each place
of the serving goroutine, when the lock is held, and that before a timeout the buffer has as
many chunks as writes have returned) and `Progress` (how much of which answer
has been sent at each place). Refinement maps each step to a step of the contract or to a
stutter.

*TimedRequest.* Each step of the composition is a step of TimeoutHandler or leaves its
variables alone, and likewise for AsyncFuture. So TimedSpec implements both, and the theorems
about the middleware hold with a handler that waits. `Ownership` follows fn's one result:
not sent, in the channel, or with one call.

*ServerLifecycle.* `StopInv` adds to the types `Locking` (the mutex is held by exactly the call
that has stoppers at work, and those are for built sub-servers) and `Closing` (a finished
stopper's sub-server is closed, and stays so). `Starting` adds what `Start` relies on:
`multiServer` is set wherever `Start` can be ready, a runner's nil result means its sub-server
was shut down, and whatever was shut down has a stopper that did it.

*JwksCache.* `Dating` relates three clocks: how long ago a set was retired, how long a request
has been out, how old the cache is. A set answered was retired no longer ago than its request
has been out; one stored, no longer ago than the cache's age and one fetch; and an answer
older than the cached set was asked for before that set was stored.

*RestEndpoint.* Four invariants over one request. `Answer`: what the recording wrappers saw
and what the timeout writer holds agree until the client has its answer, what was delivered is
one of the two or a 500 that has a reason, and what was counted is what the wrappers saw. `Transaction`: where a transaction may be open, and
that it is committed at "respond". `Bodies` and `OneByOne`: where each downstream call is,
and that calls in line are under way one at a time. `Admission`: how many middleware were
passed, what the rule said, and that a 401 before the service means the rule did not grant.
The attempt to prove `Admitted` without its condition on `ep.mapped` failed for a reason: the
application's `MapError` may itself answer 401 (`common/error_handler.go:58`), so the property excepts it.

*Bootstrap.* One goroutine, so `Booting` and `Resolving` say what the steps behind `pc` have
established. The work is in lemmas about the operators: a chain of early returns panics only
if a step it reaches does (`InOrder`); no function of `config/tls.go` panics on what `Validate`
accepts; what the configuration reader yields for each option.

*ServiceCalls.* `Base` says that every frame is sound (the logger in the context has the fields
put on it and the level asked for, as far as its library knows it) and that a call's place says which frames have a logger.
`Shared` relates the one logrus level to the calls that have set one. `Identified` says where
a trace id came from and that one made up for a call is nowhere in another. `Unserved` and
`LetInBy` follow the verdict of the gRPC rule. Most steps change a few fields of one call; the
lemma for each action says which (`Moves`), and what concerns the other calls is argued once.

**Only model-checked.** Every liveness property, fairness and ENABLED being out of the prover's
reach: StopCallsReturn, StartComesBack, NoRunnerLeaks, RequestAnswered, NoWorkerLeak,
EveryWaitEnds, CacheCatchesUp, RequestEnds. The evaluation of rule expressions. That the
builds of `StartPlan` are those `Start` meets: the lifecycle theorems hold for any.

## 5. What is not modelled

- Temporal workflows and activities: thin typed wrappers of an SDK whose scheduling is not
  in this repository. The boot of a worker is in Bootstrap.
- Conversions of single values (`convert`, `jsontime`), the hiding of secrets, what
  `status` formats: stateless functions of library functions, which unit tests cover.
- What templates of the generator write other than the REST handler, the gRPC method and
  the application: types and routes.
- The older `config.LoadConfig` and several files given to one `ConfigReaderBuilder`. `Build`
  replaces what was merged by the file named last (`config/configreaderbuilder.go:81`), and
  is modelled so; the boot names one file and never meets it.
- gRPC's health service and global logger; HTTP/2 push; test support, the end-to-end tester
  included, which is no part of a running service.

"components" in `PROJECT.json` has the reason for each. What log lines say and response
bodies contain is reduced to who wrote them and, for lines, their fields and severity.

## 6. Plan

1. Prove: an abstract specification of a request (admitted or refused, committed or rolled
   back, answered once) that RestEndpoint implements; the same for a key cache.
2. State as a run what the comment of `AuthAllowAnon` promises (its authorisers see empty
   claims).
3. Extend: the upstream TLS configuration as an input of `StartPlan` taken from `TLSConfig`.
