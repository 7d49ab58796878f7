---------------------------- MODULE TimedRequest ------------------------------
(***************************************************************************)
(* A request under the timeout middleware whose handler has started an     *)
(* Async function: TimeoutHandler and AsyncFuture over one context. The    *)
(* handler goroutine calls Get and blocks in it, or GetChan, which leaves  *)
(* a goroutine waiting that may outlive the handler; the middleware's      *)
(* deferred cancelCtx and its timeout are what ends those waits.           *)
(***************************************************************************)
EXTENDS TimeoutHandler, FiniteSets

CONSTANT Getters   \* calls of Get or GetChan by the handler

VARIABLES worker, outcome, resultChan, getter, got

A == INSTANCE AsyncFuture

asyncVars == <<worker, outcome, resultChan, getter, got>>

timedVars == <<vars, asyncVars>>

\* The two share ctxDone, and may start with it set.
TimedInit == Init /\ A!Init

\* The handler goroutine is inside Get.
Blocked == \E g \in Getters : getter[g] = "get"

HandlerRuns == ~Blocked /\ HandlerStep /\ UNCHANGED asyncVars

\* Calls the handler makes; reading the channel of GetChan blocks until it is filled.
HandlerCalls ==
    /\ handler = "running" /\ ~Blocked
    /\ \E g \in Getters : A!Get(g) \/ A!GetChan(g) \/ A!ReadChan(g)
    /\ UNCHANGED <<handlerVars, server, mu, writerVars, resp>>

\* fn's goroutine, the selects of Get and GetChan
FutureRuns ==
    /\ A!Worker \/ \E g \in Getters : A!Select(g)
    /\ UNCHANGED <<handlerVars, server, mu, writerVars, resp>>

MiddlewareRuns == (ServerStep \/ ContextDone) /\ UNCHANGED asyncVars

TimedNext == HandlerRuns \/ HandlerCalls \/ FutureRuns \/ MiddlewareRuns

\* As in the parts: the serving goroutine, the timer and the runtime's selects run; fn
\* and the handler's own code may take for ever.
TimedSpec ==
    /\ TimedInit /\ [][TimedNext]_timedVars
    /\ WF_timedVars(ServerStep /\ UNCHANGED asyncVars)
    /\ WF_timedVars(ContextDone /\ UNCHANGED asyncVars)
    /\ WF_timedVars((A!SendResult \/ A!SendPanic) /\ UNCHANGED <<handlerVars, server, mu, writerVars, resp>>)
    /\ \A g \in Getters :
         WF_timedVars(A!Select(g) /\ UNCHANGED <<handlerVars, server, mu, writerVars, resp>>)

-----------------------------------------------------------------------------

\* Async's result is received by one of the calls that share the Future or stays in its
\* channel (async.go:32-61), whatever the middleware does to the request meanwhile.
ResultHasOneOwner == A!ResultHasOneOwner

\* A call gets what fn did, a panic of fn as an error and never as a panic of the
\* handler, or the error of a context that is done (async.go:35-60).
ResultIsWhatFnDid == A!ResultIsWhatFnDid

\* fn's goroutine ends once fn has, though the request it worked for timed out, panicked
\* or was answered without asking for the result (the buffer of async.go:32).
NoWorkerLeak == A!NoWorkerLeak

\* A wait on a Future ends, though fn may never do: the handler's Get and the goroutine
\* behind a GetChan whose caller is long gone are freed by the request's context, which
\* the timeout ends when the handler waits for ever (timeout.go:95) and the deferred
\* cancelCtx when it does not (timeout.go:96).
EveryWaitEnds == \A g \in Getters : A!Waiting(g) ~> ~A!Waiting(g)
==============================================================================
