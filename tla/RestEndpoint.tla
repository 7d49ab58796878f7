----------------------------- MODULE RestEndpoint -----------------------------
(***************************************************************************)
(* One request to a generated REST endpoint, inside the goroutine the      *)
(* timeout middleware gives it: the trace, request-context and metrics     *)
(* middleware (core/middleware.go), a hand-written jwthttp middleware, the *)
(* generated handler (codegen/arrai/auto/svc_handler.arrai), the           *)
(* transaction of a service with a database, and the downstream calls the  *)
(* service makes, in line or in goroutines of their own. How the timeout   *)
(* middleware sends the buffered answer or a page of its own is            *)
(* TimeoutHandler's subject; here it is one step, client's.                *)
(***************************************************************************)
EXTENDS ErrorMapping, JwtAuth

CONSTANTS
    Calls,           \* downstream calls the service may make
    Requests,        \* endpoints' configurations and Authorization headers sent to them
    ServiceErrors,   \* errors the service may return or panic with
    Statuses,        \* statuses it may choose with UpdateResponseStatus
    RuleGrants(_, _), \* what a rule's expression says of a scope claim
    RuleMeans(_, _)   \* what the rule was written to say

None == "none"

\* An endpoint's configuration, and a header whose token is of one of the forms
Request == [ep     : [impl : BOOLEAN, mw : Seq([allowAnon : BOOLEAN, word : STRING]),
                      rule : STRING, rulesDisabled : BOOLEAN, db : BOOLEAN, uses : SUBSET Calls,
                      logPayload : BOOLEAN, mapped : Int],
            header : [scheme : STRING, token : [form : Forms, scope : Seq(STRING)]]]

ASSUME RequestsAssumption == Requests \subseteq Request

\* Statuses are ints, the one a CustomError carries and the ones the service chooses.
Numbered(e) ==
    /\ e.tag = "custom" => e.status \in Int
    /\ e.tag = "wrapped" /\ e.e.tag = "custom" => e.e.status \in Int

ASSUME StatusesAssumption == Statuses \subseteq Int /\ \A e \in ServiceErrors : Numbered(e)

VARIABLES
    ep,       \* the endpoint's configuration
    header,   \* the request's Authorization header
    passed,   \* how many of the endpoint's jwthttp middleware it has passed
    pc,       \* where the request is
    ctx,      \* the handler's ctx: "outer", "nil", "inner" (with the downstream timeout)
    expired,  \* which deadlines have passed: subset of {"outer", "inner"}
    claims,   \* the claims in the context
    w,        \* the response writer: what the recording wrappers saw (code, wrote),
              \* the status the timeout writer holds (0: none), the bodies written
    served,   \* the service was called
    panicked, \* a panic is unwinding the middleware
    gone,     \* runtime.Goexit is ending the handler's goroutine
    fatal,    \* the error the deferred recover found, or NilError
    handled,  \* the last call of HandleError, if any
    conn, tx, \* database connection and transaction
    counted,  \* the status the request counter was incremented for, if it was
    alarm,    \* the open bodies CheckForUnclosedResponses found
    client,   \* the status the client has got (0: none); while the handler runs it
              \* can only be the timeout page's, and timeoutWriter.timedOut is set
    calls,    \* the downstream calls
    rest      \* the three fields of the provisioned RestResult: whose they are

dbVars   == <<conn, tx>>
callVars == <<calls, rest>>
authVars == <<ep, header, passed, claims, served>>
endVars  == <<gone, counted, alarm, client>>
errVars  == <<w, panicked, fatal, handled>>
vars == <<ep, header, passed, pc, ctx, expired, claims, w, served, panicked, gone, fatal,
          handled, conn, tx, counted, alarm, client, calls, rest>>

Idle == [at |-> "idle", via |-> "client", mode |-> "sync", body |-> None]

TypeOK ==
    /\ [ep |-> ep, header |-> header] \in Requests
    /\ passed \in 0..Len(ep.mw)
    /\ pc \in {"enter", "impl", "auth", "parse", "validate", "db", "service", "commit",
               "respond", "recover", "unwind", "count", "check", "exit"}
    /\ ctx \in {"outer", "nil", "inner"}
    /\ expired \subseteq {"outer", "inner"}
    /\ w \in [code : Int, wrote : BOOLEAN, sent : Int, body : Seq({"ok", "error", "own"})]
    /\ served \in BOOLEAN /\ panicked \in BOOLEAN /\ gone \in BOOLEAN
    /\ handled \subseteq [late : BOOLEAN, fresh : BOOLEAN,
                          cause : ServiceErrors \cup {NilError, Plain}]
    /\ fatal \in ServiceErrors \cup {NilError, Plain}
    /\ conn \in {None, "open", "closed"}
    /\ tx \in {None, "open", "committed", "rolledback"}
    /\ counted \subseteq Int
    /\ alarm \subseteq Calls
    /\ client \in Int
    /\ calls \in [Calls -> [at : {"idle", "sent", "replied", "read", "body", "headers",
                                  "status", "done"},
                            via : {"client", "raw"}, mode : {"sync", "async"},
                            body : {None, "open", "closed"}]]
    /\ rest \in [{"Body", "Headers", "StatusCode"} -> Calls \cup {None}]

Init ==
    /\ \E q \in Requests : ep = q.ep /\ header = q.header
    /\ passed = 0 /\ pc = "enter" /\ ctx = "outer" /\ expired = {}
    /\ claims = NotInContext /\ served = FALSE
    /\ w = [code |-> 0, wrote |-> FALSE, sent |-> 0, body |-> << >>]
    /\ panicked = FALSE /\ gone = FALSE /\ fatal = NilError /\ handled = {}
    /\ conn = None /\ tx = None /\ counted = {} /\ alarm = {} /\ client = 0
    /\ calls = [c \in Calls |-> Idle]
    /\ rest = [f \in {"Body", "Headers", "StatusCode"} |-> None]

-----------------------------------------------------------------------------
(* The response writer: metrics.StatusResponseWriter and the chi wrappers  *)
(* record the first status before they pass it on; common's timeoutWriter  *)
(* below them panics at a code that has not three digits, and keeps        *)
(* nothing once the timeout page is out.                                   *)

ValidCode(code) == code \in 100..999

\* Slip: the wrapper records every status, the timeout writer keeps the first.
WriteHeaderAgain(v, code) ==
    [code |-> code, wrote |-> TRUE, body |-> v.body,
     sent |-> IF client = 0 /\ v.sent = 0 /\ ValidCode(code) THEN code ELSE v.sent]

WriteHeader(v, code) ==
    IF v.wrote THEN v
    ELSE [code |-> code, wrote |-> TRUE, body |-> v.body,
          sent |-> IF client = 0 /\ v.sent = 0 /\ ValidCode(code) THEN code ELSE v.sent]

WriteHeaderPanics(v, code) == ~v.wrote /\ ~ValidCode(code)

Write(v, body) ==
    LET u == WriteHeader(v, 200) IN
    IF client # 0 THEN u
    ELSE [u EXCEPT !.sent = IF @ = 0 THEN 200 ELSE @, !.body = Append(@, body)]

-----------------------------------------------------------------------------
(* Errors and panics *)

Late(c) == IF c = "inner" THEN expired # {} ELSE "outer" \in expired

\* A panic: the generated handler recovers the ones of the service and after it,
\* the others unwind the middleware.
Raise(err) ==
    IF pc \in {"service", "commit", "respond"}
    THEN pc' = "recover" /\ fatal' = err /\ UNCHANGED panicked
    ELSE pc' = "unwind" /\ panicked' = TRUE /\ UNCHANGED fatal

Return == pc' = "unwind" /\ UNCHANGED <<panicked, fatal>>

\* HandleError(c, w, kind, _, cause, ...) and the return that follows it.
\* A nil context panics in CheckContextTimeout.
HandleIn(c, kind, cause) ==
    LET status == HandleStatus(Late(c), kind, cause, ep.mapped) IN
    /\ ctx' = c
    /\ handled' = {[late |-> c # "nil" /\ Late(c), cause |-> cause, 
                  fresh |-> ~w.wrote /\ client = 0]}
    /\ CASE WritesItself(cause) ->
              w' = Write(WriteHeader(w, 422), "own") /\ Return
         [] ~WritesItself(cause) /\ c = "nil" ->
              UNCHANGED w /\ Raise(Plain)
         [] ~WritesItself(cause) /\ c # "nil" /\ WriteHeaderPanics(w, status) ->
              w' = WriteHeader(w, status) /\ Raise(Plain)
         [] OTHER ->
              w' = Write(WriteHeader(w, status), "error") /\ Return

Handle(kind, cause) == HandleIn(ctx, kind, cause)

-----------------------------------------------------------------------------
(* The request's own goroutine *)

\* The next jwthttp middleware admits the request or answers it.
Enter ==
    LET next == Admit(ep.mw[passed + 1], claims, header) IN
    /\ pc = "enter"
    /\ CASE passed = Len(ep.mw) ->
              pc' = "impl" /\ UNCHANGED <<passed, claims, w>>
         [] passed < Len(ep.mw) /\ next.ok ->
              passed' = passed + 1 /\ claims' = next.claims /\ UNCHANGED <<pc, w>>
         [] OTHER ->
              pc' = "count" /\ w' = WriteHeader(w, HTTPStatus[next.code])
              /\ UNCHANGED <<passed, claims>>
    /\ UNCHANGED <<ep, header, ctx, expired, served, panicked, fatal, handled, dbVars,
                   endVars, callVars>>

CheckImplemented ==
    /\ pc = "impl"
    /\ IF ep.impl
       THEN pc' = "auth" /\ UNCHANGED <<errVars, ctx>>
       ELSE Handle("InternalError", NilError)
    /\ UNCHANGED <<authVars, expired, dbVars, endVars, callVars>>

\* A rule that finds no bearer token returns a nil context with its error.
CheckRule ==
    LET verdict == authorize(getBearer(header), RuleGrants(ep.rule, header.token.scope)) IN
    /\ pc = "auth"
    /\ CASE ep.rule = None \/ ep.rulesDisabled ->
              pc' = "parse" /\ UNCHANGED <<errVars, ctx, claims>>
         [] ep.rule # None /\ ~ep.rulesDisabled /\ ~HasRestBearer(header) ->
              HandleIn("nil", "UnauthorizedError", Plain) /\ UNCHANGED claims
         [] ep.rule # None /\ ~ep.rulesDisabled /\ HasRestBearer(header) /\ ~verdict.ok ->
              Handle("UnauthorizedError", Plain) /\ UNCHANGED claims
         [] OTHER ->
              pc' = "parse" /\ claims' = verdict.claims /\ UNCHANGED <<errVars, ctx>>
    /\ UNCHANGED <<ep, header, passed, served, expired, dbVars, endVars, callVars>>

\* The body, the path, query and header parameters.
Parse ==
    /\ pc = "parse"
    /\ \/ pc' = "validate" /\ UNCHANGED <<errVars, ctx>>
       \/ Handle("BadRequestError", Plain)
    /\ UNCHANGED <<authVars, expired, dbVars, endVars, callVars>>

\* DownstreamTimeoutContext, then validator.Validate
Validate ==
    /\ pc = "validate"
    /\ \/ ctx' = "inner" /\ pc' = "db" /\ UNCHANGED errVars
       \/ HandleIn("inner", "BadRequestError", Plain)
    /\ UNCHANGED <<authVars, expired, dbVars, endVars, callVars>>

\* Connection, prepared statements, transaction; then the service is called.
OpenDB ==
    /\ pc = "db"
    /\ \/ /\ pc' = "service" /\ served' = TRUE
          /\ conn' = IF ep.db THEN "open" ELSE conn
          /\ tx' = IF ep.db THEN "open" ELSE tx
          /\ UNCHANGED <<errVars, ctx>>
       \/ /\ ep.db
          /\ Handle("InternalError", Plain)
          /\ conn' \in {None, "open"}
          /\ UNCHANGED <<tx, served>>
       \/ /\ ep.db
          /\ Handle("DownstreamUnavailableError", Plain)
          /\ conn' = "open"
          /\ UNCHANGED <<tx, served>>
    /\ UNCHANGED <<ep, header, passed, claims, expired, endVars, callVars>>

InLine == {c \in Calls : calls[c].mode = "sync" /\ calls[c].at \notin {"idle", "done"}}

Rollback == tx' = IF tx = "open" THEN "rolledback" ELSE tx

\* Slip: an error of the service leaves the transaction to the deferred calls.
ServiceFailsNoRollback(err) ==
    /\ pc = "service" /\ InLine = {}
    /\ Handle("InternalError", err)
    /\ UNCHANGED <<tx, conn, authVars, expired, endVars, callVars>>

ServiceFails(err) ==
    /\ pc = "service" /\ InLine = {}
    /\ Rollback
    /\ Handle("InternalError", err)
    /\ UNCHANGED <<conn, authVars, expired, endVars, callVars>>

\* A value that is not an error is made one of no particular type.
ServicePanics(err) ==
    /\ pc = "service" /\ InLine = {}
    /\ Raise(err)
    /\ UNCHANGED <<authVars, ctx, expired, w, handled, dbVars, endVars, callVars>>

\* panic(nil), or runtime.Goexit: recover() returns nil and nothing is handled.
ServiceVanishes ==
    /\ pc = "service" /\ InLine = {}
    /\ pc' = "unwind"
    /\ gone' \in BOOLEAN
    /\ UNCHANGED <<authVars, ctx, expired, errVars, dbVars, counted, alarm, client, callVars>>

ServiceReturns ==
    /\ pc = "service" /\ InLine = {}
    /\ pc' = "commit"
    /\ UNCHANGED <<authVars, ctx, expired, errVars, dbVars, endVars, callVars>>

\* A driver's error says nothing of whether the transaction took effect; a context
\* that is done leaves it to the rollback database/sql starts by itself.
CommitFails ==
    /\ ep.db
    /\ \/ tx = "open" /\ expired = {} /\ tx' \in {"committed", "rolledback"}
       \/ (tx # "open" \/ expired # {}) /\ UNCHANGED tx
    /\ Handle("InternalError", Plain)

\* Slip: the transaction is committed but the answer does not wait for its outcome.
CommitUnchecked ==
    /\ pc = "commit"
    /\ pc' = "respond"
    /\ tx' = IF tx = "open" /\ expired = {} THEN "committed" ELSE tx
    /\ UNCHANGED <<conn, errVars, ctx, authVars, expired, endVars, callVars>>

Commit ==
    /\ pc = "commit"
    /\ \/ ~ep.db /\ pc' = "respond" /\ UNCHANGED <<tx, errVars, ctx>>
       \/ /\ ep.db /\ tx = "open" /\ expired = {}
          /\ tx' = "committed" /\ pc' = "respond" /\ UNCHANGED <<errVars, ctx>>
       \/ CommitFails
    /\ UNCHANGED <<conn, authVars, expired, endVars, callVars>>

\* The response is validated, then SendHTTPResponse writes the status and encodes
\* the body; an endpoint may have none, and the encoding of an image may panic.
SendHTTPResponse(status) ==
    LET v == WriteHeader(w, status) IN
    /\ UNCHANGED <<ctx, handled>>
    /\ IF WriteHeaderPanics(w, status)
       THEN w' = v /\ Raise(Plain)
       ELSE \/ w' = Write(v, "ok") /\ Return
            \/ w' = v /\ Return
            \/ w' = v /\ Raise(Plain)

Respond ==
    /\ pc = "respond"
    /\ \/ Handle("InternalError", Plain)
       \/ \E status \in Statuses : SendHTTPResponse(status)
    /\ UNCHANGED <<authVars, expired, dbVars, endVars, callVars>>

\* The deferred function of the generated handler
Recover ==
    /\ pc = "recover"
    /\ Rollback
    /\ Handle("InternalError", fatal)
    /\ UNCHANGED <<conn, authVars, expired, endVars, callVars>>

\* defer conn.Close(), which waits for the transaction, and defer cancel()
Unwind ==
    /\ pc = "unwind"
    /\ tx # "open"
    /\ conn' = IF conn = "open" THEN "closed" ELSE conn
    /\ pc' = "count"
    /\ UNCHANGED <<tx, authVars, ctx, expired, errVars, endVars, callVars>>

\* MonitorMetrics: a panic and Goexit pass by it.
Count ==
    /\ pc = "count"
    /\ counted' = IF panicked \/ gone THEN {} ELSE {w.code}
    /\ pc' = "check"
    /\ UNCHANGED <<gone, alarm, client, authVars, ctx, expired, errVars, dbVars, callVars>>

\* Slip: the monitor keeps one response.
OpenBodiesOfOne == LET open == {c \in Calls : calls[c].body = "open"} IN
    IF open = {} THEN {} ELSE {CHOOSE c \in open : TRUE}

\* getResponsesWithOpenBodies
OpenBodies == {c \in Calls : calls[c].body = "open"}

\* CheckForUnclosedResponses, deferred by CoreRequestContextMiddleware
Check ==
    /\ pc = "check"
    /\ alarm' = OpenBodies
    /\ panicked' = (panicked \/ OpenBodies # {})
    /\ pc' = "exit"
    /\ UNCHANGED <<gone, counted, client, authVars, ctx, expired, w, fatal, handled, dbVars,
                   callVars>>

-----------------------------------------------------------------------------
(* Downstream calls: a generated client goes through restlib.DoHTTPRequest, *)
(* hand-written code may use the http.Client itself. Both pass the logging  *)
(* round tripper, which registers the response with the request's monitor.  *)

reqVars == <<authVars, pc, ctx, expired, errVars, dbVars, endVars>>

Move(c, at) == calls' = [calls EXCEPT ![c].at = at] /\ UNCHANGED <<reqVars, rest>>

StartCall(c) ==
    /\ pc = "service" /\ InLine = {}
    /\ c \in ep.uses /\ calls[c].at = "idle"
    /\ \E via \in {"client", "raw"}, mode \in {"sync", "async"}, at \in {"sent", "done"} :
         /\ at = "done" => via = "client"  \* body not encodable, required header missing
         /\ calls' = [calls EXCEPT ![c] = [Idle EXCEPT !.at = at, !.via = via, !.mode = mode]]
    /\ UNCHANGED <<reqVars, rest>>

NetworkFails(c) == calls[c].at = "sent" /\ Move(c, "done")

\* Slip: the request is made with the context of the server.
ContextIgnored == FALSE

\* The handler's context is done: a deadline has passed or cancel() was called.
ContextDone == expired # {} \/ (ctx = "inner" /\ pc \in {"count", "check", "exit"})

ContextEnds(c) == calls[c].at = "sent" /\ ContextDone /\ Move(c, "done")

\* loggingRoundtripper.RoundTrip: addResponse
Replies(c) ==
    /\ calls[c].at = "sent"
    /\ calls' = [calls EXCEPT ![c].at = "replied", ![c].body = "open"]
    /\ UNCHANGED <<reqVars, rest>>

\* Its deferred LogResponse reads and closes the body when payloads are logged.
LogResponse(c) ==
    /\ calls[c].at = "replied"
    /\ calls' = [calls EXCEPT ![c].at = "read",
                              ![c].body = IF ep.logPayload THEN "closed" ELSE @]
    /\ UNCHANGED <<reqVars, rest>>

\* The rest of DoHTTPRequest: the body is read, unzipped, decoded, and closed
\* whatever comes of it.
ReadReply(c) ==
    /\ calls[c].at = "read" /\ calls[c].via = "client"
    /\ \E at \in {"body", "done"} :
         calls' = [calls EXCEPT ![c].at = at, ![c].body = "closed"]
    /\ UNCHANGED <<reqVars, rest>>

\* SetRestResult, field by field
SetRest(c, at, field, next) ==
    /\ calls[c].at = at
    /\ rest' = [rest EXCEPT ![field] = c]
    /\ calls' = [calls EXCEPT ![c].at = next]
    /\ UNCHANGED reqVars

\* Slip: the status of the first result stays.
SetRestResultOnce(c) ==
    \/ SetRest(c, "body", "Body", "headers")
    \/ SetRest(c, "headers", "Headers", "status")
    \/ calls[c].at = "status" /\ rest["StatusCode"] # None /\ Move(c, "done")
    \/ rest["StatusCode"] = None /\ SetRest(c, "status", "StatusCode", "done")

SetRestResult(c) ==
    \/ SetRest(c, "body", "Body", "headers")
    \/ SetRest(c, "headers", "Headers", "status")
    \/ SetRest(c, "status", "StatusCode", "done")

RawCloses(c) ==
    /\ calls[c].at = "read" /\ calls[c].via = "raw"
    /\ calls' = [calls EXCEPT ![c].at = "done", ![c].body = "closed"]
    /\ UNCHANGED <<reqVars, rest>>

RawForgets(c) == calls[c].at = "read" /\ calls[c].via = "raw" /\ Move(c, "done")

-----------------------------------------------------------------------------

(* The timeout middleware, in the serving goroutine *)

\* The handler has returned and its answer is sent, or its panic is raised again and
\* the Recoverer answers; a handler that is gone leaves nothing to wait for but the
\* deadline.
Deliver ==
    /\ pc = "exit" /\ client = 0
    /\ \/ ~panicked /\ ~gone /\ client' = IF w.sent = 0 THEN 200 ELSE w.sent
       \/ panicked /\ client' = 500
    /\ UNCHANGED <<authVars, pc, ctx, expired, errVars, dbVars, gone, counted, alarm, callVars>>

\* The deadline has passed, wherever the handler is.
TimeoutPage ==
    /\ "outer" \in expired /\ client = 0
    /\ client' = 500
    /\ UNCHANGED <<authVars, pc, ctx, expired, errVars, dbVars, gone, counted, alarm, callVars>>

-----------------------------------------------------------------------------

\* The timeout middleware's deadline, or the downstream timeout, passes.
Expire(d) ==
    /\ pc # "exit" \/ (d = "outer" /\ client = 0)
    /\ d \notin expired
    /\ d = "inner" => ctx = "inner"
    /\ expired' = expired \cup {d}
    /\ UNCHANGED <<authVars, pc, ctx, errVars, dbVars, endVars, callVars>>

\* database/sql rolls a transaction back once its context is done.
TxAborted ==
    /\ tx = "open" /\ expired # {}
    /\ tx' = "rolledback"
    /\ UNCHANGED <<authVars, pc, ctx, expired, errVars, conn, endVars, callVars>>

ServiceEnds ==
    \/ ServiceReturns \/ ServiceVanishes
    \/ \E err \in ServiceErrors : ServiceFails(err) \/ ServicePanics(err)

Handler ==
    \/ Enter \/ CheckImplemented \/ CheckRule \/ Parse \/ Validate \/ OpenDB
    \/ ServiceEnds \/ Commit \/ Respond \/ Recover \/ Unwind \/ Count \/ Check

CallSteps(c) ==
    LogResponse(c) \/ ReadReply(c) \/ SetRestResult(c) \/ RawCloses(c) \/ ContextEnds(c)

Next ==
    \/ Handler
    \/ \E c \in Calls : StartCall(c) \/ NetworkFails(c) \/ Replies(c) \/ CallSteps(c)
                        \/ RawForgets(c)
    \/ \E d \in {"outer", "inner"} : Expire(d)
    \/ TxAborted \/ Deliver \/ TimeoutPage

Spec == Init /\ [][Next]_vars

\* The goroutines run, deadlines pass, and the service returns once its calls in
\* line have; nothing is assumed of the network or of the downstream.
FairSpec ==
    /\ Spec
    /\ WF_vars(Handler)
    /\ \A c \in Calls : WF_vars(CallSteps(c))
    /\ WF_vars(Expire("inner"))
    /\ WF_vars(TxAborted)

-----------------------------------------------------------------------------

\* The service of an endpoint runs only for a request that every jwthttp middleware
\* before it and the endpoint's authorization rule admit (svc_handler.arrai:124-136,
\* jwthttp/auth.go:75-137): a middleware wants a good token its authorisers accept,
\* AuthAllowAnon that or none; a rule wants a good token whose scope it was written to
\* grant, and the rule denies no such token. (A MapError callback may answer 401 itself.)
Admitted ==
    LET good      == header.scheme = "bearer" /\ header.token.form = "good"
        ruled     == ep.rule # None /\ ~ep.rulesDisabled
        granted   == good /\ RuleMeans(ep.rule, header.token.scope)
        accepts(m) == m.word = None \/ HasScope(header.token, m.word)
    IN  /\ served =>
             /\ \A i \in DOMAIN ep.mw :
                  \/ ep.mw[i].allowAnon /\ ~HasRestBearer(header)
                  \/ good /\ accepts(ep.mw[i])
             /\ ruled => granted
        /\ ruled /\ ~served /\ w.sent = KindStatus["UnauthorizedError"] /\ ep.mapped # w.sent
           => ~granted

\* A client is answered only when the handler has finished the transaction
\* (svc_handler.arrai:294-321), or its context is done and database/sql rolls it back;
\* otherwise the deferred conn.Close would wait for the timeout, the locks held.
NoForgottenTx == pc = "unwind" /\ tx = "open" /\ w.wrote => expired # {}

\* The service's answer is sent only when what it did to the database is committed
\* (svc_handler.arrai:315-321), also when the downstream timeout passes meanwhile.
SuccessIsCommitted == ep.db /\ (\E i \in DOMAIN w.body : w.body[i] = "ok") => tx = "committed"

\* The request counter (metrics/prometheus.go:65-76, prometheus_utils.go:29-48) has the
\* status the client gets, whichever of several WriteHeader calls came first, except
\* that it sits inside the timeout middleware and the check for open bodies, whose 500
\* may still take the place of what it counted, and that a status nobody set (0) or
\* net/http refuses is counted as it is and answered with 200.
CountedAsAnswered ==
    \A code \in counted : client # 0 =>
        \/ client = code
        \/ client = 500 /\ ("outer" \in expired \/ alarm # {})
        \/ client = 200 /\ ~ValidCode(code)

\* Once the deadline of its context has passed every error the handler meets is
\* answered as a timeout, whatever the error (errors.go:80-99), unless the service
\* maps or writes errors itself, or its extra fields cannot be encoded. (After the
\* outer deadline the client may have, or get, the timeout page instead.)
DeadlineIs504 ==
    \A h \in handled :
        /\ h.late /\ h.fresh /\ ep.mapped = 0
        /\ ~WritesItself(h.cause)
        /\ h.cause.tag = "wrapped" => h.cause.marshals
        => w.sent = 504

\* CheckForUnclosedResponses finds every body a call in line has left open, the request
\* then ends in its panic, and it accuses no call whose body was closed: each one it
\* reports was forgotten, or is a goroutine's the service has not waited for
\* (unclosedresponsebodymonitor.go:31-48).
AlarmIsExact ==
    pc = "exit" =>
      /\ \A c \in Calls : calls[c].mode = "sync" /\ calls[c].body = "open" => c \in alarm
      /\ \A c \in alarm : calls[c].mode = "async"
                          \/ (calls[c].via = "raw" /\ calls[c].body = "open")
      /\ alarm # {} => panicked

\* When a service makes its calls one after the other, the three fields GetRestResult
\* returns between them are of the same response (restlib.go:270-282).
RestResultIsWhole ==
    (\A c \in Calls : calls[c].at = "idle" \/ (calls[c].at = "done" /\ calls[c].mode = "sync"))
    => rest["Body"] = rest["Headers"] /\ rest["Headers"] = rest["StatusCode"]

\* Every request ends, though a downstream may never answer: its calls in line end with
\* the downstream timeout, and so does a transaction conn.Close waits for.
RequestEnds == <>(pc = "exit")

\* jwtauth/errors.go:46-47: a request that "has no jwt or jwt is invalid" is answered
\* with 401 (and so the smoke test rest_jwt_authorization expects of an invalid one).
\* The rule of a REST endpoint returns a nil context when it finds no bearer token, and
\* HandleError panics on it, so the client gets the Recoverer's 500.
DeniedIs401 ==
    client # 0 /\ ep.rule # None /\ ~ep.rulesDisabled /\ ep.mw = << >> /\ ep.impl
    /\ Authenticate(getBearer(header)).code = "InvalidJWT" /\ ep.mapped = 0 /\ expired = {}
    => client = 401
=============================================================================
