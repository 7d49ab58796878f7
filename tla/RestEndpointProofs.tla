-------------------------- MODULE RestEndpointProofs --------------------------
(***************************************************************************)
(* The safety properties of RestEndpoint for every set of calls, requests, *)
(* errors and statuses. Four invariants carry them: Answer (the response   *)
(* writer), Transaction, Admission (middleware and rule), and Bodies with  *)
(* OneByOne (the downstream calls and the RestResult they fill).           *)
(***************************************************************************)
EXTENDS RestEndpoint, TLAPS

Causes == ServiceErrors \cup {NilError, Plain}
Contexts == {"outer", "nil", "inner"}
WriterType == [code : Int, wrote : BOOLEAN, sent : Int, body : Seq({"ok", "error", "own"})]

\* The states of a request whose answer has not been started
Early == {"enter", "impl", "auth", "parse", "validate", "db", "service", "commit", "respond"}

\* The timeout page is out.
TimedOut == client = 500 /\ "outer" \in expired

\* What the recording wrappers saw and what the timeout writer holds agree, until the
\* timeout; of a refused code it holds nothing, or the 200 of a later Write.
Recorded(v) ==
    /\ ~v.wrote => v.code = 0 /\ v.sent = 0 /\ v.body = << >>
    /\ v.wrote /\ ValidCode(v.code) => v.sent = v.code \/ TimedOut
    /\ v.wrote /\ ~ValidCode(v.code) => v.sent \in {0, 200}

\* While the handler runs, the client has the timeout page or nothing.
Open == client # 0 => TimedOut

HasOk(v) == \E i \in DOMAIN v.body : v.body[i] = "ok"

\* CustomError and the wrapped one carry an int, and the kinds map to one.
LEMMA StatusIsInt ==
    ASSUME NEW late, NEW kind, NEW cause \in Causes, NEW mapped \in Int
    PROVE  HandleStatus(late, kind, cause, mapped) \in Int
<1> DEFINE unwrapped == IF cause.tag = "wrapped" THEN cause.e ELSE cause
           err       == CreateError(late, kind, unwrapped)
<1>1. \A k \in DOMAIN KindStatus : KindStatus[k] \in Int
  BY DEF KindStatus
<1>2. MapError(late, err) \in Int
  BY <1>1 DEF MapError
<1>3. err.tag = "custom" => err = unwrapped
  BY DEF CreateError, ServerError
<1>4. unwrapped.tag = "custom" => unwrapped.status \in Int
  BY StatusesAssumption DEF Numbered, Causes, NilError, Plain
<1>5. err.tag = "custom" => CustomStatus(err) \in Int
  BY <1>3, <1>4 DEF CustomStatus
<1>6. resolveErrorAsHTTPError(late, mapped, err) \in Int
  BY <1>2, <1>5 DEF resolveErrorAsHTTPError
<1> QED
  BY <1>6 DEF HandleStatus

\* WriteHeader and Write of the wrapped writers keep its type and Recorded; WriteHeader
\* writes no body, Write the one it is given or none.
LEMMA WriterSteps ==
    ASSUME NEW v \in WriterType, NEW code \in Int, NEW b \in {"ok", "error", "own"}
    PROVE  /\ WriteHeader(v, code) \in WriterType
           /\ WriteHeader(v, code).wrote
           /\ Write(v, b) \in WriterType
           /\ Write(v, b).wrote
           /\ WriteHeader(v, code).body = v.body
           /\ Write(v, b).body \in {v.body, Append(v.body, b)}
           /\ Open /\ Recorded(v) => Recorded(WriteHeader(v, code)) /\ Recorded(Write(v, b))
           /\ b # "ok" /\ HasOk(Write(v, b)) => HasOk(v)
<1>0. ASSUME NEW k \in Int
      PROVE  /\ WriteHeader(v, k) \in WriterType
             /\ WriteHeader(v, k).wrote
             /\ WriteHeader(v, k).body = v.body
             /\ Open /\ Recorded(v) => Recorded(WriteHeader(v, k))
  <2>1. CASE v.wrote
    BY Zenon, <2>1 DEF WriteHeader
  <2>2. CASE ~v.wrote
    <3> DEFINE sent == IF client = 0 /\ v.sent = 0 /\ ValidCode(k) THEN k ELSE v.sent
               x == [code |-> k, wrote |-> TRUE, body |-> v.body, sent |-> sent]
    <3>1. WriteHeader(v, k) = x
      BY Zenon, <2>2 DEF WriteHeader
    <3>2. sent \in Int
      BY DEF WriterType
    <3>3. ASSUME Open, Recorded(v)
          PROVE  /\ ValidCode(k) => sent = k \/ TimedOut
                 /\ ~ValidCode(k) => sent \in {0, 200}
      <4>1. v.sent = 0 /\ (client = 0 \/ TimedOut)
        BY Zenon, <2>2, <3>3 DEF Recorded, Open
      <4> QED
        BY Zenon, <4>1
    <3> HIDE DEF sent
    <3>4. x \in WriterType /\ x.wrote /\ x.body = v.body /\ x.code = k /\ x.sent = sent
      BY <3>2 DEF WriterType
    <3> HIDE DEF x
    <3> QED
      BY Zenon, <3>1, <3>3, <3>4 DEF Recorded
  <2> QED
    BY Zenon, <2>1, <2>2
<1>1. /\ WriteHeader(v, code) \in WriterType
      /\ WriteHeader(v, code).wrote
      /\ WriteHeader(v, code).body = v.body
      /\ Open /\ Recorded(v) => Recorded(WriteHeader(v, code))
  BY Zenon, <1>0
<1> DEFINE u == WriteHeader(v, 200)
<1>2. /\ u \in WriterType /\ u.wrote /\ u.body = v.body
      /\ Open /\ Recorded(v) => Recorded(u)
  <2>1. 200 \in Int
    OBVIOUS
  <2> QED
    BY Zenon, <2>1, <1>0
<1>t. CASE client # 0
  <2>1. Write(v, b) = u
    BY <1>t DEF Write
  <2> HIDE DEF u
  <2> QED
    BY Zenon, <2>1, <1>1, <1>2 DEF HasOk
<1>c. CASE client = 0
  <2>3. Write(v, b) = [code |-> u.code, wrote |-> u.wrote, body |-> Append(u.body, b),
                       sent |-> IF u.sent = 0 THEN 200 ELSE u.sent]
    <3>1. u = [code |-> u.code, wrote |-> u.wrote, body |-> u.body, sent |-> u.sent]
      BY <1>2 DEF WriterType
    <3>2. Write(v, b) = [[u EXCEPT !.sent = IF u.sent = 0 THEN 200 ELSE u.sent]
                          EXCEPT !.body = Append(u.body, b)]
      BY <3>1, <1>c DEF Write
    <3> HIDE DEF u
    <3> QED
      BY ZenonT(40), <3>1, <3>2
  <2>4. /\ Write(v, b) \in WriterType /\ Write(v, b).wrote
        /\ Write(v, b).body = Append(v.body, b)
    <3>1. Append(u.body, b) \in Seq({"ok", "error", "own"})
      BY <1>2 DEF WriterType
    <3>2. u.code \in Int /\ u.sent \in Int /\ u.wrote = TRUE
      BY <1>2 DEF WriterType
    <3> QED
      BY <3>1, <3>2, <1>2, <2>3 DEF WriterType
  <2>5. Open /\ Recorded(v) => Recorded(Write(v, b))
    <3> HIDE DEF u
    <3>1. /\ Write(v, b).code = u.code
          /\ Write(v, b).sent = IF u.sent = 0 THEN 200 ELSE u.sent
      BY <2>3
    <3>2. ASSUME Open, Recorded(v), ValidCode(u.code)
          PROVE  Write(v, b).sent = u.code
      <4>1. u.sent = u.code
        BY <3>2, <1>2, <1>c DEF Recorded, TimedOut
      <4> QED
        BY <4>1, <3>1, <3>2 DEF ValidCode
    <3>3. ASSUME Open, Recorded(v), ~ValidCode(u.code)
          PROVE  Write(v, b).sent \in {0, 200}
      BY <3>1, <3>3, <1>2 DEF Recorded
    <3> QED
      BY <3>1, <3>2, <3>3, <2>4 DEF Recorded
  <2>6. b # "ok" /\ HasOk(Write(v, b)) => HasOk(v)
    <3> SUFFICES ASSUME b # "ok", NEW i \in DOMAIN Append(v.body, b), Append(v.body, b)[i] = "ok"
                 PROVE  \E j \in DOMAIN v.body : v.body[j] = "ok"
      BY <2>4 DEF HasOk
    <3>1. v.body \in Seq({"ok", "error", "own"})
      BY DEF WriterType
    <3>2. i \in 1..(Len(v.body) + 1) /\ i # Len(v.body) + 1
      BY <3>1
    <3>3. i \in DOMAIN v.body /\ v.body[i] = "ok"
      BY <3>1, <3>2
    <3> QED
      BY <3>3
  <2> QED
    BY Zenon, <1>1, <2>4, <2>5, <2>6
<1> QED
  BY Zenon, <1>t, <1>c

\* What HandleError, and the return or panic that follows it, does to the request.
LEMMA HandleEffect ==
    ASSUME TypeOK, NEW c \in Contexts, NEW kind, NEW cause \in Causes,
           HandleIn(c, kind, cause)
    PROVE  /\ w' \in WriterType
           /\ ctx' \in Contexts
           /\ handled' \subseteq [late : BOOLEAN, fresh : BOOLEAN, cause : Causes]
           /\ pc' \in {"recover", "unwind"}
           /\ pc' = "recover" => pc \in {"service", "commit", "respond"}
           /\ panicked' \in BOOLEAN /\ fatal' \in Causes
           /\ Open /\ Recorded(w) => Recorded(w')
           /\ HasOk(w)' => HasOk(w)
           /\ w.wrote => w'.wrote
<1> DEFINE status == HandleStatus(Late(c), kind, cause, ep.mapped)
<1>0. /\ w \in WriterType /\ ep.mapped \in Int /\ panicked \in BOOLEAN /\ fatal \in Causes
  <2>1. [ep |-> ep, header |-> header].ep.mapped \in Int
    BY RequestsAssumption DEF Request, TypeOK
  <2> QED
    BY <2>1 DEF TypeOK, WriterType, Causes
<1>1. status \in Int
  BY <1>0, StatusIsInt
<1>2. /\ pc' \in {"recover", "unwind"}
      /\ pc' = "recover" => pc \in {"service", "commit", "respond"}
      /\ panicked' \in BOOLEAN /\ fatal' \in Causes
  BY ZenonT(40), <1>0 DEF HandleIn, Raise, Return, Causes
<1>3. ctx' \in Contexts /\ handled' \subseteq [late : BOOLEAN, fresh : BOOLEAN, cause : Causes]
  BY <1>0 DEF HandleIn, WriterType
<1>4. \/ w' = w
      \/ w' = WriteHeader(w, status)
      \/ w' = Write(WriteHeader(w, 422), "own")
      \/ w' = Write(WriteHeader(w, status), "error")
  BY DEF HandleIn
<1>5. CASE w' = w
  BY <1>0, <1>2, <1>3, <1>5 DEF Recorded, HasOk
<1>6. CASE w' = WriteHeader(w, status)
  <2>1. w' \in WriterType /\ w'.wrote /\ w'.body = w.body /\ (Open /\ Recorded(w) => Recorded(w'))
    BY <1>0, <1>1, <1>6, WriterSteps
  <2> QED
    BY <2>1, <1>2, <1>3 DEF HasOk, Recorded
<1>7. ASSUME NEW code \in Int, NEW b \in {"error", "own"}, w' = Write(WriteHeader(w, code), b)
      PROVE  /\ w' \in WriterType /\ w'.wrote
             /\ Open /\ Recorded(w) => Recorded(w')
             /\ HasOk(w') => HasOk(w)
  <2> DEFINE u == WriteHeader(w, code)
  <2>1. u \in WriterType /\ u.body = w.body /\ (Open /\ Recorded(w) => Recorded(u))
    BY <1>0, WriterSteps
  <2>2. /\ Write(u, b) \in WriterType /\ Write(u, b).wrote
        /\ Open /\ Recorded(u) => Recorded(Write(u, b))
        /\ HasOk(Write(u, b)) => HasOk(u)
    BY <2>1, <1>0, <1>1, WriterSteps
  <2>3. HasOk(u) => HasOk(w)
    BY <2>1 DEF HasOk
  <2> QED
    BY <2>1, <2>2, <2>3, <1>7
<1>8. CASE w' = Write(WriteHeader(w, 422), "own")
  BY <1>8, <1>7, <1>2, <1>3 DEF Recorded, HasOk
<1>9. CASE w' = Write(WriteHeader(w, status), "error")
  BY <1>9, <1>7, <1>1, <1>2, <1>3 DEF Recorded, HasOk
<1> QED
  BY <1>4, <1>5, <1>6, <1>8, <1>9

-----------------------------------------------------------------------------
(* The verdicts of JwtAuth *)

IsGood(h) == h.scheme = "bearer" /\ h.token.form = "good"

\* A middleware m is one the request may pass.
Passes(m) ==
    \/ m.allowAnon /\ ~HasRestBearer(header)
    \/ IsGood(header) /\ (m.word = None \/ HasScope(header.token, m.word))

\* The claims in the context, when there are any, are those of a good token.
Honest(cl) == cl = NotInContext \/ (IsGood(header) /\ cl = [scope |-> header.token.scope])

HeaderType == [scheme : STRING, token : [form : Forms, scope : Seq(STRING)]]

\* Authenticate accepts the good token only, and calls invalid only what is not good.
LEMMA Authenticated ==
    ASSUME NEW h \in HeaderType
    PROVE  LET auth == Authenticate(getBearer(h)) IN
           /\ auth.code \in {"Unknown", "InvalidJWT", "UntrustedSource", "BadSignature", "none"}
           /\ auth.ok => IsGood(h) /\ auth = Ok([scope |-> h.token.scope])
           /\ ~auth.ok => auth.code # "none" /\ ~IsGood(h)
<1> DEFINE auth == Authenticate(getBearer(h))
<1>1. h.token.form \in Forms
  BY DEF HeaderType
<1>2. CASE h.scheme = "bearer" /\ h.token.form \notin {"empty", "oneChar"}
  <2>1. getBearer(h) = h.token
    BY <1>2 DEF getBearer
  <2>2. CASE h.token.form = "good"
    <3>1. auth = Ok([scope |-> h.token.scope])
      BY <2>1, <2>2 DEF Authenticate
    <3> QED
      BY <3>1, <1>2, <2>2 DEF Ok, IsGood
  <2>3. CASE h.token.form # "good"
    <3>1. \E code \in {"Unknown", "InvalidJWT", "UntrustedSource", "BadSignature"} :
            auth = Refuse(code)
      BY <1>1, <1>2, <2>1, <2>3 DEF Authenticate, Forms
    <3> QED
      BY <3>1, <2>3 DEF Refuse, IsGood
  <2> QED
    BY <2>2, <2>3
<1>3. CASE ~(h.scheme = "bearer" /\ h.token.form \notin {"empty", "oneChar"})
  <2>1. auth = Refuse("InvalidJWT")
    BY <1>3 DEF getBearer, Authenticate, EmptyToken
  <2> QED
    BY <2>1, <1>3 DEF Refuse, IsGood
<1> QED
  BY <1>2, <1>3

\* Auth and AuthAllowAnon admit only requests that may pass, put only the token's own
\* claims in the context, and answer 401 only when the token is not good.
LEMMA AdmitEffect ==
    ASSUME NEW m \in [allowAnon : BOOLEAN, word : STRING], header \in HeaderType,
           Honest(claims)
    PROVE  LET next == Admit(m, claims, header) IN
           /\ next.code \in DOMAIN HTTPStatus
           /\ next.ok => Passes(m) /\ Honest(next.claims)
           /\ ~next.ok /\ HTTPStatus[next.code] = 401 => ~IsGood(header)
<1> DEFINE next == Admit(m, claims, header)
           auth == Authenticate(getBearer(header))
<1>1. /\ auth.code \in {"Unknown", "InvalidJWT", "UntrustedSource", "BadSignature", "none"}
      /\ auth.ok => IsGood(header) /\ auth = Ok([scope |-> header.token.scope])
      /\ ~auth.ok => auth.code # "none" /\ ~IsGood(header)
  BY Authenticated
<1>3. CASE claims # NotInContext
  <2>1. IsGood(header) /\ claims = [scope |-> header.token.scope]
    BY <1>3 DEF Honest
  <2>2. next = Authorise(claims, m.word)
    BY <1>3 DEF Admit, Auth, AuthAllowAnon
  <2>3. next = Ok(claims) \/ next = Refuse("InsufficientPermissions")
    BY <2>2, <2>1 DEF Authorise
  <2>4. next.ok => Passes(m) /\ next.claims = claims
    BY <2>1, <2>2 DEF Authorise, Ok, Refuse, Passes, HasScope, None
  <2> QED
    BY <2>3, <2>4 DEF Ok, Refuse, HTTPStatus
<1>4. CASE claims = NotInContext /\ m.allowAnon /\ getBearer(header) = EmptyToken
  <2>1. next = Ok(NotInContext)
    BY <1>4 DEF Admit, AuthAllowAnon
  <2> QED
    BY <2>1, <1>4 DEF Ok, Passes, Honest, HasRestBearer, HTTPStatus
<1>5. CASE claims = NotInContext /\ m.allowAnon /\ getBearer(header) # EmptyToken
  <2> DEFINE seen == Authorise(NoClaims, m.word)
  <2>1. next = IF auth.ok /\ ~seen.ok THEN seen ELSE auth
    BY <1>5 DEF Admit, AuthAllowAnon
  <2>2. /\ seen = Ok(NoClaims) \/ seen = Refuse("InsufficientPermissions")
        /\ seen.ok => m.word = None
    BY DEF Authorise, Ok, Refuse, HasScope, NoClaims, None
  <2>3. CASE auth.ok /\ ~seen.ok
    BY <2>1, <2>2, <2>3 DEF Ok, Refuse, HTTPStatus
  <2>4. CASE auth.ok /\ seen.ok
    BY <1>1, <2>1, <2>2, <2>4 DEF Ok, Passes, Honest, HTTPStatus
  <2>5. CASE ~auth.ok
    BY <1>1, <2>1, <2>5 DEF HTTPStatus
  <2> QED
    BY <2>3, <2>4, <2>5
<1>6. CASE claims = NotInContext /\ ~m.allowAnon
  <2>1. next = IF auth.ok THEN Authorise(auth.claims, m.word) ELSE auth
    BY <1>6 DEF Admit, Auth
  <2>2. CASE auth.ok
    <3>1. IsGood(header) /\ auth.claims = [scope |-> header.token.scope]
      BY <1>1, <2>2 DEF Ok
    <3>2. /\ next = Ok(auth.claims) \/ next = Refuse("InsufficientPermissions")
          /\ next.ok => Passes(m) /\ next.claims = auth.claims
      BY <3>1, <2>1, <2>2 DEF Authorise, Ok, Refuse, Passes, HasScope, None
    <3> QED
      BY <3>1, <3>2 DEF Ok, Refuse, Honest, HTTPStatus
  <2>3. CASE ~auth.ok
    BY <1>1, <2>1, <2>3 DEF HTTPStatus
  <2> QED
    BY <2>2, <2>3
<1> QED
  BY <1>3, <1>4, <1>5, <1>6

-----------------------------------------------------------------------------
(* Types, and the claims in the context *)

EpType == [impl : BOOLEAN, mw : Seq([allowAnon : BOOLEAN, word : STRING]), rule : STRING,
           rulesDisabled : BOOLEAN, db : BOOLEAN, uses : SUBSET Calls, logPayload : BOOLEAN,
           mapped : Int]

CallType == [at : {"idle", "sent", "replied", "read", "body", "headers", "status", "done"},
             via : {"client", "raw"}, mode : {"sync", "async"}, body : {None, "open", "closed"}]

Base == TypeOK /\ Honest(claims)

\* The endpoint and the header of a request are as RequestsAssumption says.
LEMMA RequestType ==
    ASSUME TypeOK
    PROVE  ep \in EpType /\ header \in HeaderType
<1>1. [ep |-> ep, header |-> header] \in [ep : EpType, header : HeaderType]
  BY RequestsAssumption DEF Request, TypeOK, EpType, HeaderType
<1> QED
  BY <1>1

\* How a step may change one call
CallMoves(old, new) ==
    \/ /\ old.at = "idle" /\ new.body = None /\ pc = "service" /\ InLine = {}
       /\ new.at = "sent" \/ (new.at = "done" /\ new.via = "client")
    \/ /\ new.via = old.via /\ new.mode = old.mode
       /\ \/ old.at = "sent" /\ new.at = "done" /\ new.body = old.body
          \/ old.at = "sent" /\ new.at = "replied"
          \/ old.at = "replied" /\ new.at = "read"
          \/ old.at = "read" /\ old.via = "client" /\ new.at \in {"body", "done"} /\ new.body = "closed"
          \/ old.at = "read" /\ old.via = "raw" /\ new.at = "done"
          \/ <<old.at, new.at>> \in {<<"body", "headers">>, <<"headers", "status">>, <<"status", "done">>}
             /\ new.body = old.body

\* The field of the RestResult a step from there fills
Field(at) == CASE at = "body" -> "Body" [] at = "headers" -> "Headers" [] at = "status" -> "StatusCode"

CallStep(c) ==
    /\ UNCHANGED reqVars
    /\ \E new \in CallType : calls' = [calls EXCEPT ![c] = new] /\ CallMoves(calls[c], new)
    /\ rest' = IF calls[c].at \in {"body", "headers", "status"}
               THEN [rest EXCEPT ![Field(calls[c].at)] = c] ELSE rest

\* The steps of a downstream call are those, and no steps of the request.
LEMMA CallEffect ==
    ASSUME TypeOK, NEW c \in Calls,
           StartCall(c) \/ NetworkFails(c) \/ Replies(c) \/ CallSteps(c) \/ RawForgets(c)
    PROVE  CallStep(c)
<1> DEFINE old == calls[c]
           New(at, body) == [at |-> at, via |-> old.via, mode |-> old.mode, body |-> body]
<1>0. calls \in [Calls -> CallType] /\ old \in CallType
  BY DEF TypeOK, CallType
<1>1. CASE StartCall(c)
  <2>1. PICK via \in {"client", "raw"}, mode \in {"sync", "async"}, at \in {"sent", "done"} :
          /\ at = "done" => via = "client"
          /\ calls' = [calls EXCEPT ![c] = [Idle EXCEPT !.at = at, !.via = via, !.mode = mode]]
    BY Zenon, <1>1 DEF StartCall
  <2>2. [Idle EXCEPT !.at = at, !.via = via, !.mode = mode]
          = [at |-> at, via |-> via, mode |-> mode, body |-> None]
    <3> DEFINE r == [Idle EXCEPT !.at = at]
               s == [r EXCEPT !.via = via]
    <3>1. r = [at |-> at, via |-> "client", mode |-> "sync", body |-> None]
      BY DEF Idle
    <3> HIDE DEF r
    <3>2. s = [at |-> at, via |-> via, mode |-> "sync", body |-> None]
      BY <3>1
    <3> HIDE DEF s
    <3>3. [s EXCEPT !.mode = mode] = [at |-> at, via |-> via, mode |-> mode, body |-> None]
      BY <3>2
    <3> QED
      BY <3>3 DEF r, s
  <2>3. [at |-> at, via |-> via, mode |-> mode, body |-> None] \in CallType
    BY DEF CallType
  <2> QED
    BY Zenon, <1>1, <2>1, <2>2, <2>3 DEF StartCall, CallStep, CallMoves
<1>1a. old = [at |-> old.at, via |-> old.via, mode |-> old.mode, body |-> old.body]
  BY <1>0 DEF CallType
<1> HIDE DEF old
<1>2. ASSUME NEW at \in {"replied", "read", "body", "headers", "status", "done"}
      PROVE  /\ [calls EXCEPT ![c].at = at] = [calls EXCEPT ![c] = New(at, old.body)]
             /\ New(at, old.body) \in CallType
  <2>1. [old EXCEPT !.at = at] = New(at, old.body)
    BY <1>1a
  <2> QED
    BY Zenon, <2>1, <1>0 DEF CallType, old
<1>3. ASSUME NEW at \in {"replied", "read", "body", "headers", "status", "done"},
             NEW body \in {None, "open", "closed"}
      PROVE  /\ [[calls EXCEPT ![c].at = at] EXCEPT ![c].body = body]
                  = [calls EXCEPT ![c] = New(at, body)]
             /\ New(at, body) \in CallType
  <2>1. [New(at, old.body) EXCEPT !.body = body] = New(at, body)
    OBVIOUS
  <2>2. New(at, body) \in CallType
    BY <1>0 DEF CallType
  <2> HIDE DEF New
  <2> QED
    BY ZenonT(40), <1>0, <1>2, <2>1, <2>2
<1> HIDE DEF New
<1>n. ASSUME NEW at, NEW body
      PROVE  /\ New(at, body).at = at /\ New(at, body).body = body
             /\ New(at, body).via = old.via /\ New(at, body).mode = old.mode
  BY DEF New
<1>m. ASSUME NEW new \in CallType, calls' = [calls EXCEPT ![c] = new], CallMoves(old, new),
             old.at \notin {"body", "headers", "status"}, UNCHANGED <<reqVars, rest>>
      PROVE  CallStep(c)
  BY Zenon, <1>m DEF CallStep, old
<1>4. CASE NetworkFails(c) \/ ContextEnds(c) \/ RawForgets(c)
  <2>1. calls' = [calls EXCEPT ![c] = New("done", old.body)] /\ New("done", old.body) \in CallType
    BY <1>2, <1>4 DEF NetworkFails, ContextEnds, RawForgets, Move
  <2>2. old.at = "sent" \/ (old.at = "read" /\ old.via = "raw")
    BY <1>4 DEF NetworkFails, ContextEnds, RawForgets, old
  <2>3. CallMoves(old, New("done", old.body))
    BY <2>2, <1>n DEF CallMoves
  <2>4. UNCHANGED <<reqVars, rest>>
    BY <1>4 DEF NetworkFails, ContextEnds, RawForgets, Move
  <2> QED
    BY Zenon, <2>1, <2>2, <2>3, <2>4, <1>m
<1>5. CASE Replies(c)
  <2>1. calls' = [calls EXCEPT ![c] = New("replied", "open")] /\ New("replied", "open") \in CallType
    BY <1>3, <1>5 DEF Replies
  <2>2. old.at = "sent" /\ UNCHANGED <<reqVars, rest>>
    BY <1>5 DEF Replies, old
  <2>3. CallMoves(old, New("replied", "open"))
    BY <2>2, <1>n DEF CallMoves
  <2> QED
    BY Zenon, <2>1, <2>2, <2>3, <1>m
<1>6. CASE LogResponse(c)
  <2> DEFINE body == IF ep.logPayload THEN "closed" ELSE old.body
  <2>1. body \in {None, "open", "closed"}
    BY <1>0 DEF CallType
  <2>2. [calls EXCEPT ![c].at = "read"][c].body = old.body
    <3> DEFINE f == [calls EXCEPT ![c].at = "read"]
    <3>1. f = [calls EXCEPT ![c] = New("read", old.body)]
      BY <1>2
    <3> HIDE DEF f
    <3>2. f[c].body = old.body
      BY <3>1, <1>0, <1>n
    <3> QED
      BY <3>2 DEF f
  <2>3. calls' = [[calls EXCEPT ![c].at = "read"] EXCEPT ![c].body = body]
    BY Zenon, <1>6, <2>2 DEF LogResponse
  <2> HIDE DEF body
  <2>4. calls' = [calls EXCEPT ![c] = New("read", body)] /\ New("read", body) \in CallType
    BY Zenon, <1>3, <2>1, <2>3
  <2>5. old.at = "replied" /\ UNCHANGED <<reqVars, rest>>
    BY <1>6 DEF LogResponse, old
  <2>6. CallMoves(old, New("read", body))
    BY <2>5, <1>n DEF CallMoves
  <2> QED
    BY Zenon, <2>4, <2>5, <2>6, <1>m
<1>7. CASE ReadReply(c)
  <2>1. PICK at \in {"body", "done"} :
          calls' = [calls EXCEPT ![c].at = at, ![c].body = "closed"]
    BY Zenon, <1>7 DEF ReadReply
  <2>2. calls' = [calls EXCEPT ![c] = New(at, "closed")] /\ New(at, "closed") \in CallType
    BY Zenon, <1>3, <2>1
  <2>3. old.at = "read" /\ old.via = "client" /\ UNCHANGED <<reqVars, rest>>
    BY <1>7 DEF ReadReply, old
  <2>4. CallMoves(old, New(at, "closed"))
    BY <2>3, <1>n DEF CallMoves
  <2> QED
    BY Zenon, <2>2, <2>3, <2>4, <1>m
<1>8. CASE SetRestResult(c)
  <2>1. ASSUME NEW at \in {"body", "headers", "status"}, NEW next \in {"headers", "status", "done"},
               <<at, next>> \in {<<"body", "headers">>, <<"headers", "status">>, <<"status", "done">>},
               SetRest(c, at, Field(at), next)
        PROVE  CallStep(c)
    <3>1. calls' = [calls EXCEPT ![c] = New(next, old.body)] /\ New(next, old.body) \in CallType
      BY Zenon, <1>2, <2>1 DEF SetRest
    <3>2. old.at = at /\ rest' = [rest EXCEPT ![Field(at)] = c] /\ UNCHANGED reqVars
      BY <2>1 DEF SetRest, old
    <3>3. CallMoves(old, New(next, old.body))
      BY <2>1, <3>2, <1>n DEF CallMoves
    <3> QED
      BY Zenon, <3>1, <3>2, <3>3, <2>1 DEF CallStep, old
  <2> QED
    BY <2>1, <1>8 DEF SetRestResult, Field
<1>9. CASE RawCloses(c)
  <2>1. calls' = [calls EXCEPT ![c] = New("done", "closed")] /\ New("done", "closed") \in CallType
    BY <1>3, <1>9 DEF RawCloses
  <2>2. old.at = "read" /\ old.via = "raw" /\ UNCHANGED <<reqVars, rest>>
    BY <1>9 DEF RawCloses, old
  <2>3. CallMoves(old, New("done", "closed"))
    BY <2>2, <1>n DEF CallMoves
  <2> QED
    BY Zenon, <2>1, <2>2, <2>3, <1>m
<1> QED
  BY <1>1, <1>4, <1>5, <1>6, <1>7, <1>8, <1>9 DEF CallSteps

\* The request's first state is of the declared types.
LEMMA InitBase == Init => Base
<1> SUFFICES ASSUME Init PROVE Base
  OBVIOUS
<1>1. PICK q \in Requests : ep = q.ep /\ header = q.header
  BY DEF Init
<1>2. /\ q \in [ep : EpType, header : HeaderType]
      /\ q = [ep |-> ep, header |-> header]
  BY <1>1, RequestsAssumption DEF Request, EpType, HeaderType
<1>3. Len(ep.mw) \in Nat
  BY <1>1, <1>2 DEF EpType
<1>4. calls \in [Calls -> CallType]
  BY DEF Init, Idle, CallType, None
<1>5. w \in WriterType
  BY DEF Init, WriterType
<1>6. fatal \in Causes /\ handled \subseteq [late : BOOLEAN, fresh : BOOLEAN, cause : Causes]
  BY DEF Init, Causes
<1>7. /\ expired \subseteq {"outer", "inner"} /\ counted \subseteq Int /\ alarm \subseteq Calls
      /\ client \in Int
      /\ rest \in [{"Body", "Headers", "StatusCode"} -> Calls \cup {None}]
  BY DEF Init
<1>8. Honest(claims)
  BY DEF Init, Honest
<1>9. [ep |-> ep, header |-> header] \in Requests
  BY <1>2
<1>10. passed \in 0..Len(ep.mw)
  BY <1>3 DEF Init
<1>11. /\ pc = "enter" /\ ctx = "outer"
       /\ served \in BOOLEAN /\ panicked \in BOOLEAN /\ gone \in BOOLEAN
       /\ conn \in {None, "open", "closed"} /\ tx \in {None, "open", "committed", "rolledback"}
  BY Zenon DEF Init
<1> QED
  BY <1>4, <1>5, <1>6, <1>7, <1>8, <1>9, <1>10, <1>11 DEF Base, TypeOK, CallType, WriterType, Causes

\* Types and the claims' honesty are kept by every step.
LEMMA NextBase ==
    ASSUME Base, [Next]_vars
    PROVE  Base'
<1> USE DEF Base
<1>0. ep \in EpType /\ header \in HeaderType
  BY RequestType
<1> DEFINE reqType == /\ w' \in WriterType /\ ctx' \in Contexts
                      /\ handled' \subseteq [late : BOOLEAN, fresh : BOOLEAN, cause : Causes]
                      /\ pc' \in Early \cup {"recover", "unwind", "count", "check", "exit"}
                      /\ panicked' \in BOOLEAN /\ fatal' \in Causes
           authType == /\ UNCHANGED <<ep, header>>
                       /\ passed' \in 0..Len(ep.mw) /\ Honest(claims)' /\ served' \in BOOLEAN
           restType == /\ expired' \subseteq {"outer", "inner"}
                       /\ conn' \in {None, "open", "closed"}
                       /\ tx' \in {None, "open", "committed", "rolledback"}
                       /\ counted' \subseteq Int /\ alarm' \subseteq Calls
                       /\ gone' \in BOOLEAN /\ client' \in Int
                       /\ calls' \in [Calls -> CallType]
                       /\ rest' \in [{"Body", "Headers", "StatusCode"} -> Calls \cup {None}]
<1>a. reqType /\ authType /\ restType => Base'
  BY DEF TypeOK, WriterType, Contexts, Causes, CallType, Early
<1>b. UNCHANGED <<errVars, pc, ctx>> => reqType
  BY DEF TypeOK, WriterType, Contexts, Causes, Early, errVars
<1>c. UNCHANGED authVars => authType
  BY DEF TypeOK, authVars, Honest, IsGood
<1>d. UNCHANGED <<expired, dbVars, endVars, callVars>> => restType
  BY DEF TypeOK, CallType, dbVars, endVars, callVars
<1>e. \A c \in Contexts : \A kind : \A cause \in Causes : HandleIn(c, kind, cause) => reqType
  BY HandleEffect DEF Early
<1>f. Contexts = {"outer", "nil", "inner"} /\ ctx \in Contexts /\ Plain \in Causes
      /\ NilError \in Causes /\ fatal \in Causes /\ ServiceErrors \subseteq Causes
  BY DEF TypeOK, Contexts, Causes
<1> HIDE DEF reqType, authType, restType
<1>g. \A kind : \A cause \in Causes : Handle(kind, cause) => reqType
  BY <1>e, <1>f DEF Handle
<1>h. UNCHANGED <<errVars, ctx>> /\ pc' \in Early => reqType
  BY Zenon DEF TypeOK, WriterType, Contexts, Causes, Early, errVars, reqType
<1>1. CASE Enter
  <2> DEFINE next == Admit(ep.mw[passed + 1], claims, header)
  <2>1. restType
    BY <1>1, <1>d DEF Enter
  <2>2. CASE passed < Len(ep.mw)
    <3>1. ep.mw[passed + 1] \in [allowAnon : BOOLEAN, word : STRING]
      <4> DEFINE R == [allowAnon : BOOLEAN, word : STRING]
      <4>1. ep.mw \in Seq(R) /\ passed \in Nat
        BY <1>0 DEF EpType, TypeOK
      <4> HIDE DEF R
      <4>2. ep.mw[passed + 1] \in R
        BY <4>1, <2>2
      <4> QED
        BY <4>2 DEF R
    <3>2. next.code \in DOMAIN HTTPStatus /\ (next.ok => Honest(next.claims))
      BY Zenon, <1>0, <3>1, AdmitEffect
    <3>3. HTTPStatus[next.code] \in Int
      BY SMTT(30), <3>2 DEF HTTPStatus
    <3>4. WriteHeader(w, HTTPStatus[next.code]) \in WriterType
      BY Zenon, <3>3, WriterSteps DEF TypeOK, WriterType
    <3>5. reqType
      BY <1>1, <2>2, <3>4 DEF Enter, TypeOK, WriterType, Contexts, Causes, Early, reqType
    <3>6. authType
      BY <1>1, <2>2, <3>2 DEF Enter, TypeOK, Honest, IsGood, authType
    <3> QED
      BY <2>1, <3>5, <3>6, <1>a
  <2>3. CASE passed = Len(ep.mw)
    <3>1. reqType
      BY <1>1, <2>3 DEF Enter, TypeOK, WriterType, Contexts, Causes, Early, reqType
    <3>2. authType
      BY <1>1, <2>3 DEF Enter, TypeOK, Honest, IsGood, authType
    <3> QED
      BY <2>1, <3>1, <3>2, <1>a
  <2> QED
    BY <2>2, <2>3, <1>0 DEF TypeOK, EpType, authType
<1>2. CASE CheckImplemented
  <2>1. reqType
    BY <1>2, <1>f, <1>g, <1>h DEF CheckImplemented, Early
  <2> QED
    BY <1>2, <2>1, <1>a, <1>c, <1>d DEF CheckImplemented
<1>3. CASE CheckRule
  <2> DEFINE verdict == authorize(getBearer(header), RuleGrants(ep.rule, header.token.scope))
  <2>1. verdict.ok => IsGood(header) /\ verdict.claims = [scope |-> header.token.scope]
    BY <1>0, Authenticated DEF authorize, Ok, Refuse
  <2>2. reqType
    <3>1. \/ pc' = "parse" /\ UNCHANGED <<errVars, ctx>>
          \/ HandleIn("nil", "UnauthorizedError", Plain)
          \/ Handle("UnauthorizedError", Plain)
      BY <1>3 DEF CheckRule
    <3> QED
      BY <3>1, <1>e, <1>f, <1>g, <1>h DEF Early
  <2>3. claims' = claims \/ (verdict.ok /\ claims' = verdict.claims)
    BY <1>3 DEF CheckRule
  <2>4. authType
    BY <1>3, <2>1, <2>3 DEF CheckRule, TypeOK, Honest, IsGood, authType
  <2> QED
    BY Zenon, <1>3, <2>2, <2>4, <1>a, <1>d DEF CheckRule
<1>4. CASE Parse
  <2>1. reqType
    BY <1>4, <1>f, <1>g, <1>h DEF Parse, Early
  <2> QED
    BY <1>4, <2>1, <1>a, <1>c, <1>d DEF Parse
<1>5. CASE Validate
  <2>1. reqType
    <3>1. CASE HandleIn("inner", "BadRequestError", Plain)
      BY Zenon, <3>1, <1>e, <1>f
    <3>2. CASE ctx' = "inner" /\ pc' = "db" /\ UNCHANGED errVars
      BY <3>2 DEF TypeOK, WriterType, Contexts, Causes, Early, errVars, reqType
    <3> QED
      BY <1>5, <3>1, <3>2 DEF Validate
  <2> QED
    BY <1>5, <2>1, <1>a, <1>c, <1>d DEF Validate
<1>6. CASE OpenDB
  <2>1. reqType
    BY Zenon, <1>6, <1>f, <1>g, <1>h DEF OpenDB, Early
  <2>2. authType
    BY Zenon, <1>6 DEF OpenDB, TypeOK, Honest, IsGood, authType
  <2>3. restType
    BY <1>6 DEF OpenDB, TypeOK, CallType, endVars, callVars, restType
  <2> QED
    BY <2>1, <2>2, <2>3, <1>a
<1>7. CASE ServiceReturns \/ ServiceVanishes
  <2>1. reqType
    BY <1>7 DEF ServiceReturns, ServiceVanishes, TypeOK, WriterType, Contexts, Causes, Early, errVars, reqType
  <2>2. restType
    BY Zenon, <1>7 DEF ServiceReturns, ServiceVanishes, TypeOK, CallType, dbVars, endVars, callVars, restType
  <2> QED
    BY <1>7, <2>1, <2>2, <1>a, <1>c DEF ServiceReturns, ServiceVanishes
<1>8. ASSUME NEW err \in ServiceErrors, ServiceFails(err)
      PROVE  Base'
  <2>1. reqType
    BY <1>8, <1>f, <1>g DEF ServiceFails
  <2>2. restType
    BY <1>8 DEF ServiceFails, Rollback, TypeOK, CallType, endVars, callVars, restType
  <2> QED
    BY <1>8, <2>1, <2>2, <1>a, <1>c DEF ServiceFails
<1>9. ASSUME NEW err \in ServiceErrors, ServicePanics(err)
      PROVE  Base'
  <2>1. reqType
    BY <1>9, <1>f DEF ServicePanics, Raise, TypeOK, WriterType, Causes, Early, reqType
  <2> QED
    BY Zenon, <1>9, <2>1, <1>a, <1>c, <1>d DEF ServicePanics
<1>10. CASE Commit
  <2>1. reqType
    BY Zenon, <1>10, <1>f, <1>g, <1>h DEF Commit, CommitFails, Early
  <2>2. restType
    BY <1>10 DEF Commit, CommitFails, TypeOK, CallType, endVars, callVars, restType
  <2> QED
    BY <1>10, <2>1, <2>2, <1>a, <1>c DEF Commit
<1>11. CASE Respond
  <2>1. CASE Handle("InternalError", Plain)
    <3>1. reqType
      BY Zenon, <2>1, <1>f, <1>g
    <3> QED
      BY <1>11, <3>1, <1>a, <1>c, <1>d DEF Respond
  <2>2. ASSUME NEW status \in Statuses, SendHTTPResponse(status)
        PROVE  reqType
    <3> DEFINE v == WriteHeader(w, status)
    <3>1. v \in WriterType
      BY WriterSteps, StatusesAssumption DEF Numbered, TypeOK, WriterType
    <3>2. Write(v, "ok") \in WriterType
      BY <3>1, WriterSteps
    <3>3. w' \in WriterType
      BY <2>2, <3>1, <3>2 DEF SendHTTPResponse
    <3> QED
      BY Zenon, <2>2, <3>3, <1>f DEF SendHTTPResponse, Raise, Return, TypeOK, Causes, Early, reqType
  <2> QED
    BY <1>11, <2>1, <2>2, <1>a, <1>c, <1>d DEF Respond
<1>12. CASE Recover
  <2>1. reqType
    BY Zenon, <1>12, <1>f, <1>g DEF Recover
  <2>2. restType
    BY <1>12 DEF Recover, Rollback, TypeOK, CallType, endVars, callVars, restType
  <2> QED
    BY <1>12, <2>1, <2>2, <1>a, <1>c DEF Recover
<1>13. CASE Unwind
  <2>1. reqType
    BY Zenon, <1>13 DEF Unwind, TypeOK, WriterType, Contexts, Causes, Early, errVars, reqType
  <2>2. restType
    BY <1>13 DEF Unwind, TypeOK, CallType, endVars, callVars, restType
  <2> QED
    BY Zenon, <1>13, <2>1, <2>2, <1>a, <1>c DEF Unwind
<1>14. CASE Count
  <2>1. reqType
    BY Zenon, <1>14 DEF Count, TypeOK, WriterType, Contexts, Causes, Early, errVars, reqType
  <2>2. restType
    BY <1>14 DEF Count, TypeOK, CallType, dbVars, callVars, restType
  <2> QED
    BY Zenon, <1>14, <2>1, <2>2, <1>a, <1>c DEF Count
<1>15. CASE Check
  <2>1. reqType
    BY Zenon, <1>15 DEF Check, TypeOK, WriterType, Contexts, Causes, Early, reqType
  <2>2. restType
    BY <1>15 DEF Check, OpenBodies, TypeOK, CallType, dbVars, callVars, restType
  <2> QED
    BY Zenon, <1>15, <2>1, <2>2, <1>a, <1>c DEF Check
<1>16. ASSUME NEW c \in Calls,
              StartCall(c) \/ NetworkFails(c) \/ Replies(c) \/ CallSteps(c) \/ RawForgets(c)
       PROVE  Base'
  <2>1. CallStep(c)
    BY <1>16, CallEffect
  <2>2. UNCHANGED <<authVars, pc, ctx, expired, errVars, dbVars, endVars>>
    BY Zenon, <2>1 DEF CallStep, reqVars
  <2>3. calls' \in [Calls -> CallType]
    BY <2>1 DEF CallStep, TypeOK, CallType
  <2>4. rest' \in [{"Body", "Headers", "StatusCode"} -> Calls \cup {None}]
    BY Zenon, <2>1 DEF CallStep, TypeOK
  <2>5. restType
    BY <2>2, <2>3, <2>4 DEF TypeOK, dbVars, endVars, restType
  <2> QED
    BY <2>2, <2>5, <1>a, <1>b, <1>c
<1>17. ASSUME NEW d \in {"outer", "inner"}, Expire(d)
       PROVE  Base'
  <2>1. restType
    BY <1>17 DEF Expire, TypeOK, CallType, dbVars, endVars, callVars, restType
  <2> QED
    BY <1>17, <2>1, <1>a, <1>b, <1>c DEF Expire
<1>18. CASE TxAborted
  <2>1. restType
    BY <1>18 DEF TxAborted, TypeOK, CallType, endVars, callVars, restType
  <2> QED
    BY <1>18, <2>1, <1>a, <1>b, <1>c DEF TxAborted
<1>19. CASE UNCHANGED vars
  <2>1. UNCHANGED <<authVars, pc, ctx, expired, errVars, dbVars, endVars, callVars>>
    BY <1>19 DEF vars, authVars, errVars, dbVars, endVars, callVars
  <2> QED
    BY Zenon, <2>1, <1>a, <1>b, <1>c, <1>d
<1>20. CASE Deliver \/ TimeoutPage
  <2>1. client' \in Int
    BY <1>20 DEF Deliver, TimeoutPage, TypeOK
  <2>2. UNCHANGED <<expired, dbVars, gone, counted, alarm, callVars>>
    BY Zenon, <1>20 DEF Deliver, TimeoutPage
  <2>3. restType
    BY <2>1, <2>2 DEF TypeOK, CallType, dbVars, callVars, restType
  <2> QED
    BY Zenon, <1>20, <2>3, <1>a, <1>b, <1>c DEF Deliver, TimeoutPage
<1> QED
  BY <1>1, <1>2, <1>3, <1>4, <1>5, <1>6, <1>7, <1>8, <1>9, <1>10, <1>11, <1>12, <1>13, <1>14,
     <1>15, <1>16, <1>17, <1>18, <1>19, <1>20 DEF Next, Handler, ServiceEnds

-----------------------------------------------------------------------------
(* The answer *)

\* What the client has got is the timeout page, or what the handler left at its end.
Delivered ==
    client # 0 =>
        \/ TimedOut
        \/ pc = "exit" /\ client = IF panicked THEN 500 ELSE IF w.sent = 0 THEN 200 ELSE w.sent

\* A counted request has not panicked before the check for open bodies.
Counted ==
    counted # {} =>
        /\ counted = {w.code}
        /\ \/ pc = "check" /\ ~panicked
           \/ pc = "exit" /\ (panicked => alarm # {})

Answer ==
    /\ pc \in Early => ~w.wrote /\ handled = {}
    /\ Recorded(w)
    /\ Delivered
    /\ Counted
    /\ DeadlineIs504

\* HandleError after the deadline, on a writer nothing was written to, answers 504.
LEMMA HandleDeadline ==
    ASSUME TypeOK, Recorded(w), NEW c \in Contexts, NEW kind, NEW cause \in Causes,
           HandleIn(c, kind, cause), UNCHANGED ep
    PROVE  DeadlineIs504'
<1> DEFINE status == HandleStatus(Late(c), kind, cause, ep.mapped)
           h == [late |-> c # "nil" /\ Late(c), cause |-> cause, fresh |-> ~w.wrote /\ client = 0]
<1>1. handled' = {h}
  BY DEF HandleIn
<1> SUFFICES ASSUME h.late, h.fresh, ep.mapped = 0, ~WritesItself(cause),
                    cause.tag = "wrapped" => cause.marshals
             PROVE  w'.sent = 504
  BY <1>1 DEF DeadlineIs504
<1>2. c # "nil" /\ Late(c) /\ ~w.wrote /\ client = 0
  BY Zenon
<1>3. status = 504
  BY <1>2 DEF HandleStatus, resolveErrorAsHTTPError, CreateError, ServerError, MapError,
              IsErrorKinder, KindStatus
<1>4. w' = Write(WriteHeader(w, 504), "error")
  <2>1. ~WriteHeaderPanics(w, 504)
    BY DEF WriteHeaderPanics, ValidCode
  <2>2. ~WriteHeaderPanics(w, status)
    BY <2>1, <1>3
  <2>3. w' = Write(WriteHeader(w, status), "error")
    BY Zenon, <2>2, <1>2 DEF HandleIn
  <2> QED
    BY <2>3, <1>3
<1>5. w \in WriterType /\ w.sent = 0
  BY Zenon, <1>2 DEF TypeOK, WriterType, Recorded
<1> DEFINE v == WriteHeader(w, 504)
<1>6. v \in WriterType /\ v.wrote /\ v.sent = 504
  <2>1. v \in WriterType /\ v.wrote
    BY <1>5, WriterSteps
  <2>2. ValidCode(504)
    BY DEF ValidCode
  <2>3. v = [code |-> 504, wrote |-> TRUE, body |-> w.body, sent |-> 504]
    BY Zenon, <1>2, <1>5, <2>2 DEF WriteHeader
  <2> HIDE DEF v
  <2> QED
    BY <2>1, <2>3
<1> HIDE DEF v
<1>7. WriteHeader(v, 200) = v
  BY <1>6 DEF WriteHeader
<1>8. Write(v, "error").sent = 504
  BY <1>2, <1>6, <1>7 DEF Write, WriterType
<1> QED
  BY <1>4, <1>8 DEF v

\* The wrappers' record, the counter and the deadline's status, step by step.
LEMMA NextAnswer ==
    ASSUME Base, Answer, [Next]_vars
    PROVE  Answer'
<1>0. /\ ctx \in Contexts /\ Plain \in Causes /\ NilError \in Causes /\ fatal \in Causes
      /\ ServiceErrors \subseteq Causes /\ TypeOK /\ w \in WriterType
  BY DEF Base, TypeOK, Contexts, Causes, WriterType
<1>o. pc # "exit" => Open
  BY DEF Answer, Delivered, Open
<1>n. pc \notin {"check", "exit"} => counted = {}
  BY DEF Answer, Counted
<1>q. ASSUME UNCHANGED client, expired \subseteq expired', TimedOut
      PROVE  TimedOut'
  BY <1>q DEF TimedOut
<1>r. ASSUME UNCHANGED client, expired \subseteq expired', NEW v, Recorded(v)
      PROVE  /\ ~v.wrote => v.code = 0 /\ v.sent = 0 /\ v.body = << >>
             /\ v.wrote /\ ValidCode(v.code) => v.sent = v.code \/ TimedOut'
             /\ v.wrote /\ ~ValidCode(v.code) => v.sent \in {0, 200}
  BY Zenon, <1>r, <1>q DEF Recorded
<1>s. ASSUME UNCHANGED client, expired \subseteq expired', Recorded(w')
      PROVE  Recorded(w)'
  BY Zenon, <1>s, <1>r DEF Recorded
<1>t. ASSUME UNCHANGED client, expired \subseteq expired', Open
      PROVE  Delivered'
  BY Zenon, <1>t, <1>q DEF Delivered, Open
<1>a. ASSUME UNCHANGED <<ep, w, handled, counted, client>>, UNCHANGED expired,
             pc' \in Early => pc \in Early, pc \notin {"check", "exit"}
      PROVE  Answer'
  <2>1. Recorded(w)' /\ Delivered'
    BY Zenon, <1>a, <1>o, <1>s, <1>t DEF Answer
  <2>2. Counted'
    BY Zenon, <1>a, <1>n DEF Counted
  <2>3. DeadlineIs504'
    BY Zenon, <1>a DEF Answer, DeadlineIs504
  <2> QED
    BY Zenon, <2>1, <2>2, <2>3, <1>a DEF Answer
<1>e. ASSUME UNCHANGED <<ep, pc, w, handled, counted, client, panicked, alarm>>,
             expired \subseteq expired'
      PROVE  Answer'
  <2>1. Recorded(w)'
    BY Zenon, <1>e, <1>s DEF Answer
  <2>2. Delivered'
    BY Zenon, <1>e DEF Answer, Delivered, TimedOut
  <2>3. Counted'
    BY Zenon, <1>e DEF Answer, Counted
  <2>4. DeadlineIs504'
    BY Zenon, <1>e DEF Answer, DeadlineIs504
  <2> QED
    BY Zenon, <2>1, <2>2, <2>3, <2>4, <1>e DEF Answer
<1>b. ASSUME NEW c \in Contexts, NEW kind, NEW cause \in Causes, HandleIn(c, kind, cause),
             UNCHANGED <<ep, counted, client>>, UNCHANGED expired, pc \notin {"check", "exit"}
      PROVE  Answer'
  <2>1. pc' \notin Early
    BY <1>0, <1>b, HandleEffect DEF Early
  <2>2. Recorded(w')
    BY Zenon, <1>0, <1>b, <1>o, HandleEffect DEF Answer
  <2>3. DeadlineIs504'
    BY <1>0, <1>b, HandleDeadline DEF Answer
  <2>4. Recorded(w)' /\ Delivered'
    BY Zenon, <2>2, <1>b, <1>o, <1>s, <1>t
  <2>5. Counted'
    BY Zenon, <1>b, <1>n DEF Counted
  <2> QED
    BY Zenon, <2>1, <2>3, <2>4, <2>5 DEF Answer
<1>c. ASSUME NEW kind, NEW cause \in Causes, Handle(kind, cause),
             UNCHANGED <<ep, counted, client>>, UNCHANGED expired, pc \notin {"check", "exit"}
      PROVE  Answer'
  BY Zenon, <1>b, <1>c, <1>0 DEF Handle
<1>d. ASSUME pc \in Early, Recorded(w'), UNCHANGED <<ep, handled, counted, client>>,
             UNCHANGED expired, pc' \notin Early
      PROVE  Answer'
  <2>0. pc \notin {"check", "exit"} /\ handled = {}
    BY <1>d DEF Early, Answer
  <2>1. Recorded(w)' /\ Delivered'
    BY Zenon, <2>0, <1>d, <1>o, <1>s, <1>t
  <2>2. Counted'
    BY Zenon, <2>0, <1>d, <1>n DEF Counted
  <2>3. DeadlineIs504'
    BY Zenon, <2>0, <1>d DEF DeadlineIs504
  <2> QED
    BY Zenon, <2>1, <2>2, <2>3, <1>d DEF Answer
<1>1. CASE Enter
  <2> DEFINE next == Admit(ep.mw[passed + 1], claims, header)
  <2>1. CASE w' = w /\ pc' \in {"enter", "impl"}
    BY <1>1, <2>1, <1>a DEF Enter, Early, endVars, Answer
  <2>2. CASE w' = WriteHeader(w, HTTPStatus[next.code]) /\ pc' = "count"
    <3> DEFINE k == HTTPStatus[next.code]
               sent == IF client = 0 /\ w.sent = 0 /\ ValidCode(k) THEN k ELSE w.sent
    <3>2. pc = "enter" /\ ~w.wrote /\ w.sent = 0 /\ Open
      BY Zenon, <1>1, <1>o DEF Enter, Answer, Recorded, Early
    <3>3. w' = [code |-> k, wrote |-> TRUE, body |-> w.body, sent |-> sent]
      BY Zenon, <2>2, <3>2 DEF WriteHeader
    <3> HIDE DEF k
    <3>4. /\ ValidCode(k) => sent = k \/ TimedOut
          /\ ~ValidCode(k) => sent = 0
      BY Zenon, <3>2 DEF Open
    <3> HIDE DEF sent
    <3>5. w'.wrote /\ w'.code = k /\ w'.sent = sent
      BY <3>3
    <3>1. Recorded(w')
      BY Zenon, <3>4, <3>5 DEF Recorded
    <3> QED
      BY Zenon, <1>1, <2>2, <3>1, <1>d DEF Enter, Early, endVars
  <2> QED
    BY <1>1, <2>1, <2>2 DEF Enter
<1>2. CASE CheckImplemented
  BY <1>2, <1>a, <1>c, <1>0 DEF CheckImplemented, authVars, errVars, endVars, Early, Answer
<1>3. CASE CheckRule
  <2>1. \/ pc' = "parse" /\ UNCHANGED <<errVars, ctx>>
        \/ HandleIn("nil", "UnauthorizedError", Plain)
        \/ Handle("UnauthorizedError", Plain)
    BY <1>3 DEF CheckRule
  <2>2. pc = "auth" /\ UNCHANGED <<ep, counted, client>> /\ UNCHANGED expired
    BY <1>3 DEF CheckRule, endVars
  <2>3. "nil" \in Contexts
    BY DEF Contexts
  <2> QED
    BY <2>1, <2>2, <2>3, <1>a, <1>b, <1>c, <1>0 DEF errVars, Early, Answer
<1>4. CASE Parse
  BY <1>4, <1>a, <1>c, <1>0 DEF Parse, authVars, errVars, endVars, Early, Answer
<1>5. CASE Validate
  <2>1. "inner" \in Contexts
    BY DEF Contexts
  <2> QED
    BY <1>5, <2>1, <1>a, <1>b, <1>0 DEF Validate, authVars, errVars, endVars, Early, Answer
<1>6. CASE OpenDB
  BY Zenon, <1>6, <1>a, <1>c, <1>0 DEF OpenDB, errVars, endVars, Early, Answer
<1>7. CASE ServiceReturns \/ ServiceVanishes
  BY <1>7, <1>a DEF ServiceReturns, ServiceVanishes, authVars, errVars, endVars, Early, Answer
<1>8. ASSUME NEW err \in ServiceErrors, ServiceFails(err)
      PROVE  Answer'
  BY Zenon, <1>8, <1>c, <1>0 DEF ServiceFails, authVars, endVars
<1>9. ASSUME NEW err \in ServiceErrors, ServicePanics(err)
      PROVE  Answer'
  BY Zenon, <1>9, <1>a DEF ServicePanics, Raise, authVars, endVars, Early, Answer
<1>10. CASE Commit
  BY <1>10, <1>a, <1>c, <1>0 DEF Commit, CommitFails, authVars, errVars, endVars, Early, Answer
<1>11. CASE Respond
  <2>1. CASE Handle("InternalError", Plain)
    BY Zenon, <1>11, <2>1, <1>c, <1>0 DEF Respond, authVars, endVars
  <2>2. ASSUME NEW status \in Statuses, SendHTTPResponse(status)
        PROVE  Answer'
    <3> DEFINE v == WriteHeader(w, status)
    <3>1. v \in WriterType /\ Recorded(v)
      BY Zenon, <1>0, <1>11, <1>o, WriterSteps, StatusesAssumption DEF Respond, Numbered, Answer
    <3>2. Recorded(Write(v, "ok"))
      <4>1. Open
        BY Zenon, <1>11, <1>o DEF Respond
      <4> QED
        BY <3>1, <4>1, WriterSteps
    <3>3. Recorded(w')
      BY Zenon, <2>2, <3>1, <3>2 DEF SendHTTPResponse
    <3>4. pc' \in {"recover", "unwind"}
      BY <1>11, <2>2 DEF Respond, SendHTTPResponse, Raise, Return
    <3> QED
      BY Zenon, <1>11, <2>2, <3>3, <3>4, <1>d DEF Respond, SendHTTPResponse, Early, authVars, endVars
  <2> QED
    BY <1>11, <2>1, <2>2 DEF Respond
<1>12. CASE Recover
  BY Zenon, <1>12, <1>c, <1>0 DEF Recover, authVars, endVars
<1>13. CASE Unwind
  BY Zenon, <1>13, <1>a DEF Unwind, authVars, errVars, endVars, Early, Answer
<1>14. CASE Count
  <2>0. /\ pc = "count" /\ pc' = "check" /\ UNCHANGED <<ep, w, handled, client, expired, panicked>>
        /\ counted' = IF panicked \/ gone THEN {} ELSE {w.code}
    BY Zenon, <1>14 DEF Count, authVars, errVars
  <2>1. Recorded(w)' /\ Delivered'
    BY Zenon, <2>0, <1>o, <1>s, <1>t DEF Answer
  <2>2. Counted'
    BY <2>0 DEF Counted
  <2>3. DeadlineIs504'
    BY Zenon, <2>0 DEF Answer, DeadlineIs504
  <2> QED
    BY <2>0, <2>1, <2>2, <2>3 DEF Answer, Early
<1>15. CASE Check
  <2>0. /\ pc = "check" /\ pc' = "exit" /\ UNCHANGED <<ep, w, handled, client, expired, counted>>
        /\ alarm' = OpenBodies /\ panicked' = (panicked \/ OpenBodies # {})
    BY Zenon, <1>15 DEF Check, authVars
  <2>1. Recorded(w)' /\ Delivered'
    BY Zenon, <2>0, <1>o, <1>s, <1>t DEF Answer
  <2>2. Counted'
    BY Zenon, <2>0 DEF Answer, Counted
  <2>3. DeadlineIs504'
    BY Zenon, <2>0 DEF Answer, DeadlineIs504
  <2> QED
    BY <2>0, <2>1, <2>2, <2>3 DEF Answer, Early
<1>16. ASSUME NEW c \in Calls,
              StartCall(c) \/ NetworkFails(c) \/ Replies(c) \/ CallSteps(c) \/ RawForgets(c)
       PROVE  Answer'
  <2>1. UNCHANGED reqVars
    BY Zenon, <1>0, <1>16, CallEffect DEF CallStep
  <2> QED
    BY Zenon, <2>1, <1>e DEF reqVars, authVars, errVars, endVars
<1>17. ASSUME NEW d \in {"outer", "inner"}, Expire(d)
       PROVE  Answer'
  BY Zenon, <1>17, <1>e DEF Expire, authVars, errVars, endVars
<1>18. CASE TxAborted
  BY Zenon, <1>18, <1>e DEF TxAborted, authVars, errVars, endVars
<1>19. CASE UNCHANGED vars
  BY Zenon, <1>19, <1>e DEF vars
<1>20. CASE Deliver \/ TimeoutPage
  <2>0. /\ UNCHANGED <<ep, pc, w, handled, counted, panicked, alarm, expired>> /\ client = 0
    BY Zenon, <1>20 DEF Deliver, TimeoutPage, authVars, errVars
  <2>1. Recorded(w)'
    BY <2>0 DEF Answer, Recorded, TimedOut
  <2>2. Delivered'
    BY <1>20, <2>0 DEF Deliver, TimeoutPage, Delivered, TimedOut
  <2>3. Counted' /\ DeadlineIs504'
    BY Zenon, <2>0 DEF Answer, Counted, DeadlineIs504
  <2> QED
    BY Zenon, <2>0, <2>1, <2>2, <2>3 DEF Answer
<1> QED
  BY <1>1, <1>2, <1>3, <1>4, <1>5, <1>6, <1>7, <1>8, <1>9, <1>10, <1>11, <1>12, <1>13, <1>14,
     <1>15, <1>16, <1>17, <1>18, <1>19, <1>20 DEF Next, Handler, ServiceEnds

-----------------------------------------------------------------------------
(* The transaction *)

Transaction ==
    /\ pc = "respond" /\ ep.db => tx = "committed"
    /\ tx = "open" => pc \in {"service", "commit", "recover", "unwind"}
    /\ tx # None => ep.db
    /\ NoForgottenTx
    /\ SuccessIsCommitted

\* An open transaction and an "ok" in the answer, step by step.
LEMMA NextTransaction ==
    ASSUME Base, Answer, Transaction, [Next]_vars
    PROVE  Transaction'
<1>0. /\ ctx \in Contexts /\ Plain \in Causes /\ NilError \in Causes /\ fatal \in Causes
      /\ ServiceErrors \subseteq Causes /\ TypeOK /\ w \in WriterType
  BY DEF Base, TypeOK, Contexts, Causes, WriterType
<1>h. SuccessIsCommitted <=> (ep.db /\ HasOk(w) => tx = "committed")
  BY Zenon DEF SuccessIsCommitted, HasOk
<1>i. SuccessIsCommitted' <=> (ep.db /\ HasOk(w) => tx = "committed")'
  BY DEF SuccessIsCommitted, HasOk
<1>j. pc \in Early => ~HasOk(w)
  BY SMTT(30) DEF Answer, Recorded, HasOk
<1>a. ASSUME UNCHANGED <<ep, w, tx>>, tx # "open", pc' = "respond" => ~ep.db
      PROVE  Transaction'
  BY Zenon, <1>a, <1>h, <1>i DEF Transaction, NoForgottenTx, HasOk
<1>b. ASSUME NEW c \in Contexts, NEW kind, NEW cause \in Causes, HandleIn(c, kind, cause),
             UNCHANGED <<ep, expired>>, tx' = tx \/ pc \in Early \/ tx = "open",
             tx' = "open" => pc = "commit" /\ expired # {}, tx' # None => ep.db
      PROVE  Transaction'
  <2>1. pc' \in {"recover", "unwind"} /\ (HasOk(w)' => HasOk(w))
    BY <1>0, <1>b, HandleEffect
  <2>2. (ep.db /\ HasOk(w) => tx = "committed")'
    BY <2>1, <1>b, <1>h, <1>j DEF Transaction
  <2> QED
    BY Zenon, <2>1, <2>2, <1>b, <1>i DEF Transaction, NoForgottenTx
<1>c. ASSUME NEW kind, NEW cause \in Causes, Handle(kind, cause),
             UNCHANGED <<ep, expired>>, tx' = tx \/ pc \in Early \/ tx = "open",
             tx' = "open" => pc = "commit" /\ expired # {}, tx' # None => ep.db
      PROVE  Transaction'
  BY <1>b, <1>c, <1>0 DEF Handle
<1>1. CASE Enter
  <2> DEFINE next == Admit(ep.mw[passed + 1], claims, header)
  <2>1. tx # "open" /\ UNCHANGED <<ep, tx>>
    BY <1>1 DEF Enter, dbVars, Transaction
  <2>2. CASE w' = w /\ pc' \in {"enter", "impl"}
    BY Zenon, <2>1, <2>2, <1>a
  <2>3. CASE w' = WriteHeader(w, HTTPStatus[next.code]) /\ pc' = "count"
    <3>1. w'.body = w.body
      BY <1>0, <2>3 DEF WriteHeader, WriterType
    <3>2. HasOk(w)' => HasOk(w)
      BY Zenon, <3>1 DEF HasOk
    <3> QED
      BY Zenon, <2>1, <2>3, <3>2, <1>h, <1>i DEF Transaction, NoForgottenTx
  <2> QED
    BY <1>1, <2>2, <2>3 DEF Enter
<1>2. CASE CheckImplemented
  <2>1. tx # "open" /\ UNCHANGED <<ep, tx, expired>>
    BY Zenon, <1>2 DEF CheckImplemented, authVars, dbVars, Transaction
  <2> QED
    BY <1>2, <2>1, <1>a, <1>c, <1>0 DEF CheckImplemented, errVars, Transaction
<1>3. CASE CheckRule
  <2>1. \/ pc' = "parse" /\ UNCHANGED <<errVars, ctx>>
        \/ HandleIn("nil", "UnauthorizedError", Plain)
        \/ Handle("UnauthorizedError", Plain)
    BY <1>3 DEF CheckRule
  <2>2. tx # "open" /\ UNCHANGED <<ep, tx, expired>>
    BY <1>3 DEF CheckRule, dbVars, Transaction
  <2>3. "nil" \in Contexts
    BY Zenon DEF Contexts
  <2> QED
    BY <2>1, <2>2, <2>3, <1>a, <1>b, <1>c, <1>0 DEF errVars, Transaction
<1>4. CASE Parse
  <2>1. tx # "open" /\ UNCHANGED <<ep, tx, expired>>
    BY Zenon, <1>4 DEF Parse, authVars, dbVars, Transaction
  <2> QED
    BY <1>4, <2>1, <1>a, <1>c, <1>0 DEF Parse, errVars, Transaction
<1>5. CASE Validate
  <2>1. tx # "open" /\ UNCHANGED <<ep, tx, expired>> /\ "inner" \in Contexts
    BY Zenon, <1>5 DEF Validate, authVars, dbVars, Transaction, Contexts
  <2> QED
    BY <1>5, <2>1, <1>a, <1>b, <1>0 DEF Validate, errVars, Transaction
<1>6. CASE OpenDB
  <2>1. tx # "open" /\ UNCHANGED <<ep, expired>>
    BY Zenon, <1>6 DEF OpenDB, Transaction
  <2>2. CASE pc' = "service" /\ tx' = (IF ep.db THEN "open" ELSE tx) /\ UNCHANGED errVars
    <3>1. ~HasOk(w)'
      BY Zenon, <1>6, <2>2, <1>j DEF OpenDB, Early, errVars, HasOk
    <3> QED
      BY Zenon, <2>1, <2>2, <3>1, <1>i DEF Transaction, NoForgottenTx
  <2> QED
    BY <1>6, <2>1, <2>2, <1>c, <1>0 DEF OpenDB, Transaction
<1>7. CASE ServiceReturns
  BY Zenon, <1>7, <1>h, <1>i DEF ServiceReturns, Transaction, NoForgottenTx, authVars, errVars, dbVars, HasOk
<1>8. CASE ServiceVanishes
  <2>1. ~w'.wrote
    BY Zenon, <1>8 DEF ServiceVanishes, Answer, Early, errVars
  <2> QED
    BY <1>8, <2>1, <1>h, <1>i DEF ServiceVanishes, Transaction, NoForgottenTx, authVars, errVars, dbVars, HasOk
<1>9. ASSUME NEW err \in ServiceErrors, ServiceFails(err)
      PROVE  Transaction'
  BY Zenon, <1>9, <1>c, <1>0 DEF ServiceFails, Rollback, Transaction, authVars, None
<1>10. ASSUME NEW err \in ServiceErrors, ServicePanics(err)
       PROVE  Transaction'
  BY <1>10, <1>h, <1>i DEF ServicePanics, Raise, Transaction, NoForgottenTx, authVars, dbVars, HasOk
<1>11. CASE Commit
  <2>1. UNCHANGED <<ep, expired>> /\ pc = "commit" /\ pc \in Early
    BY Zenon, <1>11 DEF Commit, authVars, Early
  <2>2. CASE CommitFails
    BY Zenon, <2>1, <2>2, <1>c, <1>0 DEF CommitFails, Transaction
  <2>3. CASE pc' = "respond" /\ UNCHANGED <<errVars, ctx>>
             /\ ((ep.db /\ tx' = "committed") \/ (~ep.db /\ tx' = tx))
    <3>1. ~HasOk(w)'
      BY <2>1, <2>3, <1>j DEF errVars, HasOk
    <3> QED
      BY <2>1, <2>3, <3>1, <1>i DEF Transaction, NoForgottenTx, None
  <2> QED
    BY <1>11, <2>2, <2>3 DEF Commit
<1>12. CASE Respond
  <2>1. tx # "open" /\ UNCHANGED <<ep, tx, expired>> /\ (ep.db => tx = "committed")
    BY Zenon, <1>12 DEF Respond, Transaction, authVars, dbVars
  <2>2. CASE Handle("InternalError", Plain)
    BY <2>1, <2>2, <1>c, <1>0 DEF Transaction
  <2>3. ASSUME NEW status \in Statuses, SendHTTPResponse(status)
        PROVE  Transaction'
    <3>1. pc' \in {"recover", "unwind"}
      BY Zenon, <1>12, <2>3 DEF Respond, SendHTTPResponse, Raise, Return
    <3> QED
      BY Zenon, <2>1, <3>1, <1>i DEF Transaction, NoForgottenTx
  <2> QED
    BY <1>12, <2>2, <2>3 DEF Respond
<1>13. CASE Recover
  BY <1>13, <1>c, <1>0 DEF Recover, Rollback, Transaction, authVars, None
<1>14. CASE Unwind \/ Count \/ Check
  <2>1. tx # "open" /\ UNCHANGED <<ep, w, tx>> /\ pc' # "respond"
    BY Zenon, <1>14 DEF Unwind, Count, Check, Transaction, authVars, errVars, dbVars
  <2> QED
    BY Zenon, <2>1, <1>a
<1>15. ASSUME UNCHANGED <<ep, pc, w, tx, expired>>
       PROVE  Transaction'
  BY <1>15, <1>h, <1>i DEF Transaction, NoForgottenTx, HasOk
<1>16. ASSUME NEW c \in Calls,
              StartCall(c) \/ NetworkFails(c) \/ Replies(c) \/ CallSteps(c) \/ RawForgets(c)
       PROVE  Transaction'
  <2>1. UNCHANGED reqVars
    BY Zenon, <1>0, <1>16, CallEffect DEF CallStep
  <2> QED
    BY Zenon, <2>1, <1>15 DEF reqVars, authVars, errVars, dbVars
<1>17. ASSUME NEW d \in {"outer", "inner"}, Expire(d)
       PROVE  Transaction'
  BY Zenon, <1>17, <1>h, <1>i DEF Expire, Transaction, NoForgottenTx, authVars, errVars, dbVars, HasOk
<1>18. CASE TxAborted
  BY Zenon, <1>18, <1>h, <1>i DEF TxAborted, Transaction, NoForgottenTx, authVars, errVars, HasOk, None
<1>19. CASE Deliver \/ TimeoutPage \/ UNCHANGED vars
  BY Zenon, <1>19, <1>15 DEF Deliver, TimeoutPage, vars, authVars, errVars, dbVars
<1> QED
  BY Zenon, <1>1, <1>2, <1>3, <1>4, <1>5, <1>6, <1>7, <1>8, <1>9, <1>10, <1>11, <1>12, <1>13, <1>14,
     <1>16, <1>17, <1>18, <1>19 DEF Next, Handler, ServiceEnds

-----------------------------------------------------------------------------
(* The downstream calls *)

\* Calls in line end before the service does; a call has a body from its reply on, and
\* DoHTTPRequest has closed it before the result is stored.
Bodies ==
    \A c \in Calls :
        /\ calls[c].at = "idle" => calls[c] = Idle
        /\ calls[c].mode = "sync" /\ pc # "service" => calls[c].at \in {"idle", "done"}
        /\ calls[c].at = "sent" => calls[c].body = None
        /\ calls[c].at \in {"body", "headers", "status", "done"} /\ calls[c].via = "client"
             => calls[c].body # "open"
        /\ calls[c].at \in {"body", "headers", "status"} => calls[c].via = "client"

AllSync == \A c \in Calls : calls[c].mode = "sync"

Same == rest["Body"] = rest["Headers"] /\ rest["Headers"] = rest["StatusCode"]

\* While no call has been made in a goroutine, one is under way at most, and the fields
\* of the RestResult differ only while it stores its own.
OneByOne ==
    AllSync =>
      /\ \A c, d \in Calls : calls[c].at \notin {"idle", "done"} /\ calls[d].at \notin {"idle", "done"}
                            => c = d
      /\ \A c \in Calls :
           /\ calls[c].at = "headers" => rest["Body"] = c /\ rest["Headers"] = rest["StatusCode"]
           /\ calls[c].at = "status" => rest["Body"] = c /\ rest["Headers"] = c
      /\ (\A c \in Calls : calls[c].at \notin {"headers", "status"}) => Same

CallInv == Bodies /\ OneByOne /\ AlarmIsExact

\* A step of one call keeps the invariants of all of them.
LEMMA CallStepInv ==
    ASSUME TypeOK, CallInv, NEW c \in Calls, CallStep(c)
    PROVE  CallInv'
<1>0. /\ calls \in [Calls -> CallType]
      /\ rest \in [{"Body", "Headers", "StatusCode"} -> Calls \cup {None}]
  BY DEF TypeOK, CallType
<1>1. PICK new \in CallType : calls' = [calls EXCEPT ![c] = new] /\ CallMoves(calls[c], new)
  BY Zenon DEF CallStep
<1> DEFINE old == calls[c]
<1>2. calls'[c] = new /\ \A d \in Calls \ {c} : calls'[d] = calls[d]
  BY <1>0, <1>1
<1>3. UNCHANGED <<pc, alarm, panicked>>
  BY DEF CallStep, reqVars, errVars, endVars
<1>4. old.at = "idle" => old.mode = "sync" /\ pc = "service"
                        /\ \A d \in Calls : calls[d].mode = "sync" => calls[d].at \in {"idle", "done"}
  BY <1>1 DEF CallMoves, CallInv, Bodies, Idle, InLine
<1>5. old.at # "idle" => new.mode = old.mode /\ new.via = old.via
  BY <1>1 DEF CallMoves
<1>6. old.at # "done" /\ new.at # "idle"
  BY Zenon, <1>1 DEF CallMoves
<1>7. Bodies'
  <2>1. ASSUME NEW d \in Calls \ {c}
        PROVE  /\ calls'[d].at = "idle" => calls'[d] = Idle
               /\ calls'[d].mode = "sync" /\ pc' # "service" => calls'[d].at \in {"idle", "done"}
               /\ calls'[d].at = "sent" => calls'[d].body = None
               /\ calls'[d].at \in {"body", "headers", "status", "done"} /\ calls'[d].via = "client"
                    => calls'[d].body # "open"
               /\ calls'[d].at \in {"body", "headers", "status"} => calls'[d].via = "client"
    BY Zenon, <1>2, <1>3, <2>1 DEF CallInv, Bodies
  <2>2. new.mode = "sync" => pc = "service"
    BY Zenon, <1>4, <1>5, <1>6 DEF CallInv, Bodies
  <2>3. new.at = "sent" => new.body = None
    BY Zenon, <1>1 DEF CallMoves
  <2>4. new.at \in {"body", "headers", "status"} => new.via = "client"
    BY Zenon, <1>1 DEF CallMoves, CallInv, Bodies
  <2>5. new.at \in {"body", "headers", "status", "done"} /\ new.via = "client"
          => new.body # "open"
    BY Zenon, <1>1 DEF CallMoves, CallInv, Bodies, None
  <2> QED
    BY Zenon, <1>2, <1>3, <1>6, <2>1, <2>2, <2>3, <2>4, <2>5 DEF Bodies
<1>8. OneByOne'
  <2> SUFFICES ASSUME AllSync'
               PROVE  /\ \A d, e \in Calls : calls'[d].at \notin {"idle", "done"}
                                              /\ calls'[e].at \notin {"idle", "done"} => d = e
                      /\ \A d \in Calls :
                           /\ calls'[d].at = "headers"
                                => rest'["Body"] = d /\ rest'["Headers"] = rest'["StatusCode"]
                           /\ calls'[d].at = "status" => rest'["Body"] = d /\ rest'["Headers"] = d
                      /\ (\A d \in Calls : calls'[d].at \notin {"headers", "status"}) => Same'
    BY Zenon DEF OneByOne
  <2>1. AllSync
    BY Zenon, <1>2, <1>4, <1>5 DEF AllSync
  <2>2. \A d \in Calls \ {c} : calls[d].at \in {"idle", "done"}
    BY Zenon, <2>1, <1>4, <1>6 DEF AllSync, CallInv, OneByOne
  <2>3. \A d \in Calls \ {c} : calls'[d].at \in {"idle", "done"}
    BY Zenon, <2>2, <1>2
  <2>4. /\ old.at = "headers" => rest["Body"] = c /\ rest["Headers"] = rest["StatusCode"]
        /\ old.at = "status" => rest["Body"] = c /\ rest["Headers"] = c
        /\ old.at \notin {"headers", "status"} => Same
    BY Zenon, <2>1, <2>2 DEF CallInv, OneByOne
  <2>5. CASE old.at \notin {"body", "headers", "status"}
    <3>1. rest' = rest /\ new.at \notin {"headers", "status"}
      BY Zenon, <2>5, <1>1 DEF CallStep, CallMoves
    <3> QED
      BY Zenon, <3>1, <2>3, <2>4, <2>5, <1>2 DEF Same
  <2>6. CASE old.at = "body"
    <3>1. rest' = [rest EXCEPT !["Body"] = c] /\ new.at = "headers"
      BY <2>6, <1>1 DEF CallStep, CallMoves, Field
    <3>2. rest'["Body"] = c /\ rest'["Headers"] = rest'["StatusCode"]
      BY Zenon, <3>1, <2>4, <2>6, <1>0 DEF Same
    <3> QED
      BY <3>1, <3>2, <2>3, <1>2
  <2>7. CASE old.at = "headers"
    <3>1. rest' = [rest EXCEPT !["Headers"] = c] /\ new.at = "status"
      BY <2>7, <1>1 DEF CallStep, CallMoves, Field
    <3>2. rest'["Body"] = c /\ rest'["Headers"] = c
      BY Zenon, <3>1, <2>4, <2>7, <1>0
    <3> QED
      BY <3>1, <3>2, <2>3, <1>2
  <2>8. CASE old.at = "status"
    <3>1. rest' = [rest EXCEPT !["StatusCode"] = c] /\ new.at = "done"
      BY Zenon, <2>8, <1>1 DEF CallStep, CallMoves, Field
    <3>2. Same'
      BY Zenon, <3>1, <2>4, <2>8, <1>0 DEF Same
    <3> QED
      BY <3>1, <3>2, <2>3, <1>2
  <2> QED
    BY Zenon, <2>5, <2>6, <2>7, <2>8
<1>9. AlarmIsExact'
  <2> SUFFICES ASSUME pc = "exit"
               PROVE  /\ \A d \in Calls : calls'[d].mode = "sync" /\ calls'[d].body = "open" => d \in alarm
                      /\ \A d \in alarm : calls'[d].mode = "async"
                                          \/ (calls'[d].via = "raw" /\ calls'[d].body = "open")
                      /\ alarm # {} => panicked
    BY Zenon, <1>3 DEF AlarmIsExact
  <2>1. old.mode # "sync" /\ new.mode # "sync"
    BY <1>4, <1>5, <1>6 DEF CallInv, Bodies
  <2>2. new.mode = "async"
    BY <2>1 DEF CallType
  <2> QED
    BY SMTT(30), <2>1, <2>2, <1>2 DEF CallInv, AlarmIsExact, TypeOK
<1> QED
  BY Zenon, <1>7, <1>8, <1>9 DEF CallInv

\* The request's own steps: the service ends when its calls in line have, and the check
\* for open bodies finds what they left.
LEMMA NextCalls ==
    ASSUME Base, CallInv, [Next]_vars
    PROVE  CallInv'
<1>0. TypeOK
  BY Zenon DEF Base
<1>a. ASSUME UNCHANGED callVars, pc # "service" \/ pc' = "service" \/ InLine = {}, pc' # "exit"
      PROVE  CallInv'
  <2>1. Bodies'
    BY Zenon, <1>a DEF CallInv, Bodies, callVars, InLine
  <2>2. OneByOne'
    BY <1>a DEF CallInv, OneByOne, AllSync, Same, callVars
  <2> QED
    BY Zenon, <2>1, <2>2, <1>a DEF CallInv, AlarmIsExact
<1>1. CASE Enter
  BY <1>1, <1>a DEF Enter
<1>b. \A c : \A kind, cause : HandleIn(c, kind, cause) => pc' # "exit"
  BY DEF HandleIn, Raise, Return
<1>c. \A kind, cause : Handle(kind, cause) => pc' # "exit"
  BY Zenon, <1>b DEF Handle
<1>2. CASE CheckImplemented \/ Parse \/ Validate \/ OpenDB
  BY <1>2, <1>a, <1>b, <1>c DEF CheckImplemented, Parse, Validate, OpenDB
<1>3. CASE CheckRule
  <2>1. \/ pc' = "parse" \/ HandleIn("nil", "UnauthorizedError", Plain)
        \/ Handle("UnauthorizedError", Plain)
    BY Zenon, <1>3 DEF CheckRule
  <2> QED
    BY <1>3, <2>1, <1>a, <1>b, <1>c DEF CheckRule
<1>4. CASE ServiceEnds
  BY Zenon, <1>4, <1>a, <1>c DEF ServiceEnds, ServiceReturns, ServiceVanishes, ServiceFails,
                          ServicePanics, Raise
<1>5. CASE Commit \/ Recover \/ Unwind \/ Count
  BY Zenon, <1>5, <1>a, <1>c DEF Commit, CommitFails, Recover, Unwind, Count
<1>6. CASE Respond
  BY <1>6, <1>a, <1>c DEF Respond, SendHTTPResponse, Raise, Return
<1>7. CASE Check
  <2>1. UNCHANGED callVars /\ pc = "check" /\ pc' = "exit"
    BY Zenon, <1>7 DEF Check
  <2>2. Bodies'
    BY Zenon, <2>1 DEF CallInv, Bodies, callVars
  <2>3. OneByOne'
    BY Zenon, <2>1 DEF CallInv, OneByOne, AllSync, Same, callVars
  <2>4. \A c \in Calls : calls[c].body = "open"
                        => calls[c].mode = "async" \/ calls[c].via = "raw"
    BY <2>1 DEF CallInv, Bodies, TypeOK, Base, Idle, None
  <2>5. /\ alarm' = {c \in Calls : calls[c].body = "open"}
        /\ alarm' # {} => panicked'
    BY Zenon, <1>7 DEF Check, OpenBodies
  <2>6. AlarmIsExact'
    BY <2>1, <2>4, <2>5 DEF AlarmIsExact, callVars
  <2> QED
    BY <2>2, <2>3, <2>6 DEF CallInv
<1>8. ASSUME NEW c \in Calls,
             StartCall(c) \/ NetworkFails(c) \/ Replies(c) \/ CallSteps(c) \/ RawForgets(c)
      PROVE  CallInv'
  BY <1>0, <1>8, CallEffect, CallStepInv
<1>9. ASSUME UNCHANGED <<pc, callVars, alarm, panicked>>
      PROVE  CallInv'
  <2>1. Bodies'
    BY Zenon, <1>9 DEF CallInv, Bodies, callVars
  <2>2. OneByOne'
    BY Zenon, <1>9 DEF CallInv, OneByOne, AllSync, Same, callVars
  <2> QED
    BY <2>1, <2>2, <1>9 DEF CallInv, AlarmIsExact, callVars
<1>10. CASE \/ TxAborted \/ Deliver \/ TimeoutPage \/ UNCHANGED vars
            \/ \E d \in {"outer", "inner"} : Expire(d)
  BY Zenon, <1>9, <1>10 DEF TxAborted, Deliver, TimeoutPage, Expire, vars, callVars, errVars,
                            endVars
<1> QED
  BY <1>1, <1>2, <1>3, <1>4, <1>5, <1>6, <1>7, <1>8, <1>10 DEF Next, Handler

-----------------------------------------------------------------------------
(* Middleware and rule *)

Ruled == ep.rule # None /\ ~ep.rulesDisabled
Granted == IsGood(header) /\ RuleMeans(ep.rule, header.token.scope)

\* The rules' expressions say what they were written to say.
RulesHold ==
    \A q \in Requests : q.ep.rule # None =>
        (RuleGrants(q.ep.rule, q.header.token.scope) <=> RuleMeans(q.ep.rule, q.header.token.scope))

Admission ==
    /\ \A i \in 1..passed : Passes(ep.mw[i])
    /\ pc \in Early \ {"enter"} \/ served => passed = Len(ep.mw)
    /\ pc \in Early \ {"enter", "impl", "auth"} \/ served => (Ruled => Granted)
    /\ pc \in {"service", "commit", "respond", "recover"} => served
    /\ Ruled /\ ~served /\ w.sent = 401 /\ ep.mapped # 401 => ~Granted

\* An error the handler itself makes before the service is called is answered 401 only
\* when it is an UnauthorizedError, or MapError makes it one.
LEMMA HandleDenies ==
    ASSUME TypeOK, Recorded(w), ~w.wrote, NEW c \in Contexts, NEW cause \in {Plain, NilError},
           NEW kind \in {"InternalError", "BadRequestError", "DownstreamUnavailableError"},
           HandleIn(c, kind, cause), ep.mapped # 401
    PROVE  w'.sent # 401
<1> DEFINE status == HandleStatus(Late(c), kind, cause, ep.mapped)
<1>1. status # 401
  BY DEF HandleStatus, resolveErrorAsHTTPError, CreateError, ServerError, MapError,
         IsErrorKinder, KindStatus, Plain, NilError
<1>2. ~WritesItself(cause)
  BY SMTT(30) DEF WritesItself, Plain, NilError
<1>3. w \in WriterType /\ w.sent = 0
  BY DEF TypeOK, WriterType, Recorded
<1> HIDE DEF status
<1>4. w' = w \/ w' = WriteHeader(w, status) \/ w' = Write(WriteHeader(w, status), "error")
  BY Zenon, <1>2 DEF HandleIn, status
<1> DEFINE v == WriteHeader(w, status)
<1>5. v = [code |-> status, wrote |-> TRUE, body |-> w.body,
           sent |-> IF client = 0 /\ ValidCode(status) THEN status ELSE 0]
  BY <1>3 DEF WriteHeader
<1> HIDE DEF v
<1>6. v.wrote /\ v.sent \in {0, status} /\ WriteHeader(v, 200) = v
  BY <1>5 DEF WriteHeader
<1>7. Write(v, "error").sent \in {v.sent, 200}
  <2>1. CASE client # 0
    BY Zenon, <2>1, <1>6 DEF Write
  <2>2. CASE client = 0
    BY <2>2, <1>5, <1>6 DEF Write
  <2> QED
    BY <2>1, <2>2
<1> QED
  BY <1>1, <1>3, <1>4, <1>6, <1>7 DEF v

\* Who has passed which middleware, and what the rule said, step by step.
LEMMA NextAdmission ==
    ASSUME RulesHold, Base, Answer, Admission, [Next]_vars
    PROVE  Admission'
<1>0. /\ ctx \in Contexts /\ Plain \in Causes /\ NilError \in Causes /\ fatal \in Causes
      /\ ServiceErrors \subseteq Causes /\ TypeOK /\ w \in WriterType
      /\ ep \in EpType /\ header \in HeaderType /\ Honest(claims)
  BY Zenon, RequestType DEF Base, TypeOK, Contexts, Causes, WriterType
<1>1a. passed \in Nat /\ Len(ep.mw) \in Nat /\ passed <= Len(ep.mw)
  BY SMTT(30), <1>0 DEF TypeOK, EpType
<1>a. ASSUME UNCHANGED <<ep, header, passed, served>>,
             pc' \in Early => pc' = pc \/ (pc \in Early \ {"enter", "impl", "auth"}),
             pc' \in {"service", "commit", "respond", "recover"} => served,
             Ruled /\ ~served /\ w'.sent = 401 /\ ep.mapped # 401 => ~Granted
      PROVE  Admission'
  <2>1. /\ \A x : Passes(x)' <=> Passes(x)
        /\ Ruled' <=> Ruled
        /\ Granted' <=> Granted
    BY Zenon, <1>a DEF Passes, Ruled, Granted, IsGood, HasRestBearer, HasScope
  <2>2. pc' \in Early \ {"enter"} \/ served' => passed' = Len(ep'.mw)
    BY Zenon, <1>a DEF Admission, Early
  <2>3. pc' \in Early \ {"enter", "impl", "auth"} \/ served' => (Ruled => Granted)
    BY Zenon, <1>a DEF Admission, Early
  <2> QED
    BY Zenon, <1>a, <2>1, <2>2, <2>3 DEF Admission
<1>b. ASSUME NEW c \in Contexts, NEW kind, NEW cause \in Causes, HandleIn(c, kind, cause),
             UNCHANGED <<ep, header, passed, served>>,
             Ruled /\ ~served /\ w'.sent = 401 /\ ep.mapped # 401 => ~Granted
      PROVE  Admission'
  <2>1. /\ pc' \in {"recover", "unwind"}
        /\ pc' = "recover" => pc \in {"service", "commit", "respond"}
    BY <1>0, <1>b, HandleEffect
  <2> QED
    BY Zenon, <2>1, <1>a, <1>b DEF Early, Admission
<1>c. ASSUME NEW c \in Contexts, NEW cause \in {Plain, NilError},
             NEW kind \in {"InternalError", "BadRequestError", "DownstreamUnavailableError"},
             HandleIn(c, kind, cause), pc \in Early, UNCHANGED <<ep, header, passed, served>>
      PROVE  Admission'
  <2>1. ep.mapped # 401 => w'.sent # 401
    BY <1>c, <1>0, HandleDenies DEF Answer
  <2> QED
    BY SMTT(30), <2>1, <1>b, <1>c, <1>0
<1>d. ASSUME NEW kind, NEW cause \in Causes, Handle(kind, cause), served,
             UNCHANGED <<ep, header, passed, served>>
      PROVE  Admission'
  BY <1>b, <1>d, <1>0 DEF Handle
<1>1. CASE Enter
  <2> DEFINE m == ep.mw[passed + 1]
             next == Admit(m, claims, header)
  <2>1. UNCHANGED <<ep, header, served>> /\ pc = "enter"
    BY Zenon, <1>1 DEF Enter
  <2>2. CASE passed = Len(ep.mw)
    <3>1. pc' = "impl" /\ UNCHANGED <<passed, w>>
      BY <1>1, <2>2 DEF Enter
    <3> QED
      BY ZenonT(40), <2>1, <2>2, <3>1 DEF Admission, Passes, Ruled, Granted, IsGood, Early, HasRestBearer, HasScope
  <2>3. CASE passed < Len(ep.mw)
    <3>1. m \in [allowAnon : BOOLEAN, word : STRING]
      <4> DEFINE R == [allowAnon : BOOLEAN, word : STRING]
      <4>1. ep.mw \in Seq(R)
        BY <1>0 DEF EpType
      <4> HIDE DEF R
      <4>2. m \in R
        BY SMTT(30), <4>1, <2>3, <1>1a
      <4> QED
        BY <4>2 DEF R
    <3>2. /\ next.code \in DOMAIN HTTPStatus /\ (next.ok => Passes(m))
          /\ ~next.ok /\ HTTPStatus[next.code] = 401 => ~IsGood(header)
      BY Zenon, <1>0, <3>1, AdmitEffect
    <3> HIDE DEF m, next
    <3>3. CASE next.ok
      <4>1. passed' = passed + 1 /\ UNCHANGED <<pc, w>>
        BY <1>1, <2>3, <3>3, <1>1a DEF Enter, m, next
      <4>2. \A i \in 1..passed' : Passes(ep.mw[i])
        <5> TAKE i \in 1..passed'
        <5>1. i \in 1..passed \/ i = passed + 1
          BY <4>1, <1>1a
        <5>2. Passes(ep.mw[passed + 1])
          BY Zenon, <3>2, <3>3 DEF m
        <5> QED
          BY Zenon, <5>1, <5>2 DEF Admission
      <4>3. \A x : Passes(x)' <=> Passes(x)
        BY <2>1 DEF Passes, IsGood, HasRestBearer, HasScope
      <4>4. ~served
        BY SMTT(30), <2>1, <2>3, <1>1a DEF Admission
      <4> QED
        BY ZenonT(40), <2>1, <4>1, <4>2, <4>3, <4>4 DEF Admission, Ruled, Granted, IsGood
    <3>4. CASE ~next.ok
      <4>1. pc' = "count" /\ w' = WriteHeader(w, HTTPStatus[next.code]) /\ UNCHANGED passed
        BY <1>1, <2>3, <3>4, <1>1a DEF Enter, m, next
      <4>2. w'.sent \in {0, HTTPStatus[next.code]}
        BY Zenon, <4>1, <2>1 DEF WriteHeader, Answer, Recorded, Early
      <4> QED
        BY <2>1, <4>1, <4>2, <3>2, <3>4, <1>a DEF Early, Granted
    <3> QED
      BY <3>3, <3>4
  <2> QED
    BY <2>2, <2>3, <1>1a
<1>2. CASE CheckImplemented
  <2>1. UNCHANGED <<ep, header, passed, served>> /\ pc = "impl" /\ pc \in Early
    BY Zenon, <1>2 DEF CheckImplemented, authVars, Early
  <2>2. CASE pc' = "auth" /\ UNCHANGED <<errVars, ctx>>
    BY ZenonT(30), <2>1, <2>2 DEF Admission, Passes, Ruled, Granted, IsGood, Early, errVars, HasRestBearer, HasScope
  <2> QED
    BY <1>2, <2>1, <2>2, <1>c, <1>0 DEF CheckImplemented, Handle
<1>3. CASE CheckRule
  <2> DEFINE granted == RuleGrants(ep.rule, header.token.scope)
             verdict == authorize(getBearer(header), granted)
  <2>1. UNCHANGED <<ep, header, passed, served>> /\ pc = "auth" /\ pc \in Early
    BY <1>3 DEF CheckRule, Early
  <2>2. Ruled => (granted <=> RuleMeans(ep.rule, header.token.scope))
    BY Zenon, <1>0 DEF RulesHold, TypeOK, Ruled
  <2>3. Ruled => (verdict.ok <=> Granted)
    BY Zenon, <1>0, <2>2, Authenticated DEF authorize, Ok, Refuse, Granted
  <2>4. ~HasRestBearer(header) => ~Granted
    <3> SUFFICES ASSUME IsGood(header) PROVE HasRestBearer(header)
      BY Zenon DEF Granted
    <3>1. getBearer(header) = header.token /\ header.token.form = "good"
      BY DEF getBearer, IsGood
    <3>2. EmptyToken.form # "good"
      BY DEF EmptyToken
    <3> QED
      BY Zenon, <3>1, <3>2 DEF HasRestBearer
  <2> HIDE DEF verdict, granted
  <2>5. \/ pc' = "parse" /\ UNCHANGED <<errVars, ctx>> /\ (Ruled => verdict.ok)
        \/ ~HasRestBearer(header) /\ HandleIn("nil", "UnauthorizedError", Plain)
        \/ Ruled /\ ~verdict.ok /\ Handle("UnauthorizedError", Plain)
    BY Zenon, <1>3 DEF CheckRule, Ruled, verdict, granted
  <2>6. CASE pc' = "parse" /\ UNCHANGED <<errVars, ctx>> /\ (Ruled => verdict.ok)
    BY ZenonT(30), <2>1, <2>3, <2>6 DEF Admission, Passes, Ruled, Granted, IsGood, Early, errVars, HasRestBearer, HasScope
  <2>7. "nil" \in Contexts
    BY DEF Contexts
  <2> QED
    BY <2>1, <2>3, <2>4, <2>5, <2>6, <2>7, <1>b, <1>0 DEF Handle
<1>4. CASE Parse
  <2>1. UNCHANGED <<ep, header, passed, served>> /\ pc = "parse" /\ pc \in Early
    BY Zenon, <1>4 DEF Parse, authVars, Early
  <2>2. CASE pc' = "validate" /\ UNCHANGED <<errVars, ctx>>
    BY Zenon, <2>1, <2>2, <1>a DEF Admission, Early, errVars
  <2> QED
    BY <1>4, <2>1, <2>2, <1>c, <1>0 DEF Parse, Handle
<1>5. CASE Validate
  <2>1. UNCHANGED <<ep, header, passed, served>> /\ pc = "validate" /\ pc \in Early
    BY Zenon, <1>5 DEF Validate, authVars, Early
  <2>2. CASE ctx' = "inner" /\ pc' = "db" /\ UNCHANGED errVars
    BY ZenonT(30), <2>1, <2>2, <1>a DEF Admission, Early, errVars
  <2>3. "inner" \in Contexts
    BY DEF Contexts
  <2> QED
    BY Zenon, <1>5, <2>1, <2>2, <2>3, <1>c, <1>0 DEF Validate
<1>6. CASE OpenDB
  <2>1. UNCHANGED <<ep, header, passed>> /\ pc = "db" /\ pc \in Early
    BY <1>6 DEF OpenDB, Early
  <2>2. CASE pc' = "service" /\ served' = TRUE /\ UNCHANGED <<errVars, ctx>>
    BY Zenon, <2>1, <2>2 DEF Admission, Passes, Ruled, Granted, IsGood, Early, errVars, HasRestBearer, HasScope
  <2> QED
    BY Zenon, <1>6, <2>1, <2>2, <1>c, <1>0 DEF OpenDB, Handle
<1>7. CASE ServiceReturns \/ ServiceVanishes
  BY ZenonT(30), <1>7, <1>a DEF ServiceReturns, ServiceVanishes, Admission, authVars, errVars, Early
<1>8. ASSUME NEW err \in ServiceErrors, ServiceFails(err)
      PROVE  Admission'
  BY Zenon, <1>8, <1>d, <1>0 DEF ServiceFails, Admission, authVars
<1>9. ASSUME NEW err \in ServiceErrors, ServicePanics(err)
      PROVE  Admission'
  BY Zenon, <1>9, <1>a DEF ServicePanics, Raise, Admission, authVars, Early
<1>10. CASE Commit
  BY Zenon, <1>10, <1>a, <1>d, <1>0 DEF Commit, CommitFails, Admission, authVars, errVars, Early
<1>11. CASE Respond
  <2>1. UNCHANGED <<ep, header, passed, served>> /\ pc = "respond" /\ served
    BY Zenon, <1>11 DEF Respond, Admission, authVars
  <2>2. ASSUME NEW status \in Statuses, SendHTTPResponse(status)
        PROVE  Admission'
    BY Zenon, <2>1, <2>2, <1>a DEF SendHTTPResponse, Raise, Return, Early
  <2> QED
    BY Zenon, <1>11, <2>1, <2>2, <1>d, <1>0 DEF Respond
<1>12. CASE Recover
  BY Zenon, <1>12, <1>d, <1>0 DEF Recover, Admission, authVars
<1>13. CASE Unwind \/ Count \/ Check
  BY ZenonT(40), <1>13, <1>a DEF Unwind, Count, Check, Admission, authVars, errVars, Early
<1>14. ASSUME NEW c \in Calls,
              StartCall(c) \/ NetworkFails(c) \/ Replies(c) \/ CallSteps(c) \/ RawForgets(c)
       PROVE  Admission'
  <2>1. UNCHANGED reqVars
    BY Zenon, <1>0, <1>14, CallEffect DEF CallStep
  <2> QED
    BY ZenonT(40), <2>1, <1>a DEF reqVars, authVars, errVars, Admission
<1>15. CASE \/ TxAborted \/ Deliver \/ TimeoutPage \/ UNCHANGED vars
            \/ \E d \in {"outer", "inner"} : Expire(d)
  <2>1. UNCHANGED <<ep, header, passed, served, pc, w>>
    BY Zenon, <1>15 DEF TxAborted, Deliver, TimeoutPage, Expire, vars, authVars, errVars
  <2> QED
    BY ZenonT(40), <2>1, <1>a DEF Admission
<1> QED
  BY Zenon, <1>1, <1>2, <1>3, <1>4, <1>5, <1>6, <1>7, <1>8, <1>9, <1>10, <1>11, <1>12, <1>13, <1>14,
     <1>15 DEF Next, Handler, ServiceEnds

-----------------------------------------------------------------------------
(* The theorems *)

\* The invariants hold of a request that has just arrived.
LEMMA InitRest == Init => Base /\ Answer /\ Transaction /\ CallInv /\ Admission
<1> SUFFICES ASSUME Init PROVE Base /\ Answer /\ Transaction /\ CallInv /\ Admission
  OBVIOUS
<1>1. Base
  BY InitBase
<1>2. Answer
  BY Zenon DEF Init, Answer, Recorded, Delivered, Counted, DeadlineIs504
<1>3. Transaction
  BY SMTT(30) DEF Init, Transaction, NoForgottenTx, SuccessIsCommitted, None
<1>4. CallInv
  BY Zenon DEF Init, CallInv, Bodies, OneByOne, AllSync, Same, AlarmIsExact, Idle
<1>5. Admission
  <2>1. passed = 0 /\ ~served /\ pc = "enter" /\ w.sent = 0
    BY Zenon DEF Init
  <2>2. 1..0 = {}
    OBVIOUS
  <2>3. pc \notin Early \ {"enter"} /\ pc \notin {"service", "commit", "respond", "recover"} /\ w.sent # 401
    BY <2>1
  <2> QED
    BY Zenon, <2>1, <2>2, <2>3 DEF Admission
<1> QED
  BY <1>1, <1>2, <1>3, <1>4, <1>5

\* The four invariants that do not depend on the rules, together.
LEMMA RestInvariance == Spec => [](Base /\ Answer /\ Transaction /\ CallInv)
<1>1. Init => Base /\ Answer /\ Transaction /\ CallInv
  BY InitRest
<1>2. Base /\ Answer /\ Transaction /\ CallInv /\ [Next]_vars
      => Base' /\ Answer' /\ Transaction' /\ CallInv'
  BY NextBase, NextAnswer, NextTransaction, NextCalls
<1> QED
  BY <1>1, <1>2, PTL DEF Spec

\* Every variable of a request keeps its type, whatever the service returns, panics
\* with or writes: statuses stay ints also where net/http will refuse them.
THEOREM TypeCorrect == Spec => []TypeOK
<1>1. Base => TypeOK
  BY DEF Base
<1> QED
  BY <1>1, RestInvariance, PTL

\* The service's answer is sent only when its transaction is committed: at "respond" the
\* generated handler has committed, and no later step takes a commit back.
THEOREM CommittedSuccess == Spec => []SuccessIsCommitted
<1>1. Transaction => SuccessIsCommitted
  BY DEF Transaction
<1> QED
  BY <1>1, RestInvariance, PTL

\* No request is answered with its transaction left open and its context alive.
THEOREM FinishedTransaction == Spec => []NoForgottenTx
<1>1. Transaction => NoForgottenTx
  BY DEF Transaction
<1> QED
  BY <1>1, RestInvariance, PTL

\* The request counter has the status the client gets, except for a page that takes the
\* place of the counted answer and for statuses that are none: of several WriteHeader
\* calls the wrappers record the first, the timeout writer keeps that one when it is
\* valid, and only a request that did not panic is counted.
THEOREM CountedStatus == Spec => []CountedAsAnswered
<1>1. Answer => CountedAsAnswered
  <2> SUFFICES ASSUME Answer, NEW code \in counted, client # 0,
                      ~(client = 500 /\ ("outer" \in expired \/ alarm # {}))
               PROVE  client = code \/ (client = 200 /\ ~ValidCode(code))
    BY Zenon DEF CountedAsAnswered
  <2>1. code = w.code /\ (pc = "exit" => (panicked => alarm # {}))
    BY DEF Answer, Counted
  <2>2. ~TimedOut
    BY Zenon DEF TimedOut
  <2>3. pc = "exit" /\ ~panicked /\ client = IF w.sent = 0 THEN 200 ELSE w.sent
    BY <2>1, <2>2 DEF Answer, Delivered
  <2>4. CASE w.wrote /\ ValidCode(w.code)
    <3>1. w.sent = w.code
      BY <2>2, <2>4 DEF Answer, Recorded
    <3> QED
      BY <3>1, <2>1, <2>3, <2>4 DEF ValidCode
  <2>5. CASE w.wrote /\ ~ValidCode(w.code)
    BY <2>1, <2>3, <2>5 DEF Answer, Recorded
  <2>6. CASE ~w.wrote
    <3>1. w.code = 0 /\ w.sent = 0
      BY Zenon, <2>6 DEF Answer, Recorded
    <3>2. ~ValidCode(0)
      BY DEF ValidCode
    <3> QED
      BY <3>1, <3>2, <2>1, <2>3
  <2> QED
    BY <2>4, <2>5, <2>6
<1> QED
  BY <1>1, RestInvariance, PTL

\* An error met after the deadline of its context is answered 504, whatever the error.
THEOREM LateErrors == Spec => []DeadlineIs504
<1>1. Answer => DeadlineIs504
  BY DEF Answer
<1> QED
  BY <1>1, RestInvariance, PTL

\* CheckForUnclosedResponses finds every body a call in line left open and accuses no
\* call that closed its own.
THEOREM ExactAlarm == Spec => []AlarmIsExact
<1>1. CallInv => AlarmIsExact
  BY Zenon DEF CallInv
<1> QED
  BY <1>1, RestInvariance, PTL

\* Calls made one after the other leave a RestResult of a single response.
THEOREM WholeResult == Spec => []RestResultIsWhole
<1>1. CallInv => RestResultIsWhole
  <2> SUFFICES ASSUME CallInv,
                      \A c \in Calls : calls[c].at = "idle"
                                      \/ (calls[c].at = "done" /\ calls[c].mode = "sync")
               PROVE  Same
    BY Zenon DEF RestResultIsWhole, Same
  <2>1. AllSync
    BY DEF CallInv, Bodies, AllSync, Idle
  <2> QED
    BY Zenon, <2>1 DEF CallInv, OneByOne
<1> QED
  BY <1>1, RestInvariance, PTL

\* The service runs only for a request that every jwthttp middleware and the endpoint's
\* rule admit, when the rules' expressions evaluate to what they were written to say.
THEOREM AdmittedRequests ==
    ASSUME RulesHold
    PROVE  Spec => []Admitted
<1> DEFINE Inv == Base /\ Answer /\ Admission
<1>1. Init => Inv
  BY InitRest
<1>2. Inv /\ [Next]_vars => Inv'
  BY Zenon, NextBase, NextAnswer, NextAdmission
<1>3. Inv => Admitted
  <2> SUFFICES ASSUME Inv PROVE Admitted
    OBVIOUS
  <2>1. KindStatus["UnauthorizedError"] = 401
    BY DEF KindStatus
  <2>2. DOMAIN ep.mw = 1..Len(ep.mw)
    BY RequestType DEF Base, EpType
  <2>3. served => /\ \A i \in DOMAIN ep.mw : Passes(ep.mw[i])
                  /\ Ruled => Granted
    BY Zenon, <2>2 DEF Admission
  <2>4. Ruled /\ ~served /\ w.sent = 401 /\ ep.mapped # w.sent => ~Granted
    BY DEF Admission
  <2> QED
    BY ZenonT(40), <2>1, <2>3, <2>4 DEF Admitted, Passes, Ruled, Granted, IsGood
<1> QED
  BY <1>1, <1>2, <1>3, PTL DEF Spec
=============================================================================
