-------------------------- MODULE TimedRequestProofs --------------------------
(***************************************************************************)
(* Proofs about TimedRequest: the composition implements both of its       *)
(* parts, so what is proved of the timeout middleware alone holds with a   *)
(* handler that waits on a Future, and the Future's own invariant holds    *)
(* under the middleware's context. For any number of calls on the Future.  *)
(***************************************************************************)
EXTENDS TimedRequest, TimeoutHandlerProofs, FiniteSetTheorems

\* What Async sends for what fn did: the deferred recover makes an error of a panic.
Answer == IF outcome = "panic" THEN "panicError" ELSE outcome

\* fn's goroutine has sent.
ResultSent == worker = "exited" /\ outcome # "silent"

\* The worker is where what fn did has brought it; the one result is not sent yet, in the
\* channel or with one call; a call that waits has nothing yet.
Ownership ==
    /\ worker = "running" <=> outcome = "none"
    /\ worker = "sending" => outcome \in {"value", "error"}
    /\ worker = "panicking" => outcome = "panic"
    /\ ~ResultSent => resultChan = << >> /\ A!Receivers = {}
    /\ ResultSent => \/ resultChan = <<Answer>> /\ A!Receivers = {}
                     \/ resultChan = << >> /\ \E g \in Getters : A!Receivers = {g}
    /\ \A g \in Getters : getter[g] \in {"idle", "get", "getChan"} => got[g] = "none"
    /\ \A g \in Getters : got[g] \in A!Results => got[g] = Answer
    /\ \A g \in Getters : got[g] = "ctxErr" => ctxDone

FutureInv == A!TypeOK /\ Ownership

-----------------------------------------------------------------------------
(* The composition implements its parts. *)

\* A step of the composition is a step of the timeout middleware, or leaves all of its
\* state alone: the Future's goroutines touch nothing of it.
LEMMA StepOfMiddleware == [TimedNext]_timedVars => [Next]_vars
<1> SUFFICES ASSUME [TimedNext]_timedVars PROVE Next \/ UNCHANGED vars
  OBVIOUS
<1>1. CASE HandlerRuns \/ MiddlewareRuns
  BY <1>1 DEF HandlerRuns, MiddlewareRuns, Next
<1>2. CASE HandlerCalls
  BY <1>2 DEF HandlerCalls, A!Get, A!GetChan, A!ReadChan, vars
<1>3. CASE FutureRuns
  BY <1>3 DEF FutureRuns, A!Worker, A!FnReturns, A!FnPanics, A!FnExitsSilently, A!SendResult,
     A!SendPanic, A!Send, A!Select, A!ReceiveResult, A!ReceiveDone, vars
<1>4. CASE UNCHANGED timedVars
  BY <1>4 DEF timedVars
<1> QED
  BY <1>1, <1>2, <1>3, <1>4 DEF TimedNext

\* The middleware and the handler reach the Future through its context only, which they
\* never bring back.
LEMMA StepOfFuture == TypeOK /\ [TimedNext]_timedVars => [A!Next]_(A!vars)
<1> SUFFICES ASSUME TypeOK, [TimedNext]_timedVars PROVE A!Next \/ UNCHANGED A!vars
  OBVIOUS
<1>1. ASSUME UNCHANGED asyncVars, ctxDone' = ctxDone \/ ctxDone' = TRUE
      PROVE  A!Next \/ UNCHANGED A!vars
  BY Zenon, <1>1 DEF asyncVars, TypeOK, A!Next, A!ContextDone, A!vars
<1>2. CASE HandlerRuns
  <2>1. ctxDone' = ctxDone
    BY <1>2 DEF HandlerRuns, HandlerStep, HandlerSetsHeader, WriteHeader, Write, HandlerReturns,
       HandlerPanics, HandlerExitsSilently
  <2> QED
    BY <1>1, <1>2, <2>1 DEF HandlerRuns
<1>3. CASE MiddlewareRuns
  <2>1. ctxDone' = ctxDone \/ ctxDone' = TRUE
    BY <1>3 DEF MiddlewareRuns, ContextDone, ServerStep, SelectPanic, SelectDone, SelectTimeout,
       CopyHeaders, SendHeader, SendBody, LockTimeout, TimeoutPageHeader, TimeoutPageBody,
       TimeoutReturn, Recover, RecoverReturn
  <2> QED
    BY Zenon, <1>1, <1>3, <2>1 DEF MiddlewareRuns
<1>4. CASE HandlerCalls
  BY <1>4 DEF HandlerCalls, A!Next
<1>5. CASE FutureRuns
  BY <1>5 DEF FutureRuns, A!Next
<1>6. CASE UNCHANGED timedVars
  BY <1>6 DEF timedVars, asyncVars, vars, A!vars
<1> QED
  BY SMTT(30), <1>2, <1>3, <1>4, <1>5, <1>6 DEF TimedNext

\* A request whose handler waits on a Future is still a request as TimeoutHandler
\* describes it: every theorem about that module holds of the composition.
THEOREM ImplementsMiddleware == TimedSpec => Spec
  BY StepOfMiddleware, PTL DEF TimedSpec, TimedInit, Spec

\* The Future is used as AsyncFuture allows: under the middleware its context is done
\* once and for all, by the timer or by the deferred cancelCtx.
THEOREM ImplementsFuture == TimedSpec => A!Spec
<1>1. TimedSpec => []TypeOK
  BY ImplementsMiddleware, TypeCorrect, PTL
<1> QED
  BY <1>1, StepOfFuture, PTL DEF TimedSpec, TimedInit, A!Spec

\* With a Future in the handler, the pages of the middleware keep being whole answers,
\* the buffer is read after the handler, and a timeout is final.
THEOREM TimedAnswers ==
    TimedSpec => [](TypeOK /\ BufferIsNotShared /\ AnswerIsWhole) /\ TimeoutIsFinal /\ ImplementsContract
  BY ImplementsMiddleware, TypeCorrect, NoSharing, WholeAnswer, TimeoutFinal, Refinement, PTL

-----------------------------------------------------------------------------
(* The Future *)

\* Async starts with an empty channel and no call on the Future.
LEMMA InitFuture == A!Init => FutureInv
<1> SUFFICES ASSUME A!Init PROVE FutureInv
  OBVIOUS
<1>1. A!TypeOK
  BY DEF A!Init, A!TypeOK, A!Cap, A!Results
<1>2. Ownership
  BY DEF A!Init, Ownership, ResultSent, A!Receivers, A!Results
<1> QED
  BY <1>1, <1>2 DEF FutureInv

\* A step that changes nothing of what the calls hold leaves the receivers as they are.
LEMMA SameReceivers == got' = got => A!Receivers' = A!Receivers
  BY SMTT(30) DEF A!Receivers

\* Every step of fn's goroutine, of the context and of the calls keeps the result with
\* its one owner.
LEMMA NextFuture == FutureInv /\ [A!Next]_(A!vars) => FutureInv'
<1> SUFFICES ASSUME FutureInv, [A!Next]_(A!vars) PROVE FutureInv'
  OBVIOUS
<1> USE DEF FutureInv, A!TypeOK, A!Results, A!Cap
<1>1. CASE A!FnReturns
  BY <1>1, SameReceivers DEF A!FnReturns, Ownership, ResultSent, Answer, A!Receivers
<1>2. CASE A!FnPanics
  BY <1>2, SameReceivers DEF A!FnPanics, Ownership, ResultSent, Answer, A!Receivers
<1>3. CASE A!FnExitsSilently
  BY <1>3, SameReceivers DEF A!FnExitsSilently, Ownership, ResultSent, Answer, A!Receivers
<1>4. CASE A!SendResult
  BY SMTT(30), <1>4, SameReceivers DEF A!SendResult, A!Send, Ownership, ResultSent, Answer
<1>5. CASE A!SendPanic
  BY SMTT(30), <1>5, SameReceivers DEF A!SendPanic, A!Send, Ownership, ResultSent, Answer
<1>6. CASE A!ContextDone
  BY SMTT(30), <1>6, SameReceivers DEF A!ContextDone, Ownership, ResultSent, Answer
<1>7. ASSUME NEW g \in Getters, A!Get(g) \/ A!GetChan(g) \/ A!ReadChan(g) PROVE FutureInv'
  BY SMTT(30), <1>7, SameReceivers DEF A!Get, A!GetChan, A!ReadChan, Ownership, ResultSent, Answer
<1>8. ASSUME NEW g \in Getters, A!ReceiveResult(g) PROVE FutureInv'
  <2>1. resultChan = <<Answer>> /\ A!Receivers = {} /\ ResultSent
    BY <1>8 DEF A!ReceiveResult, Ownership
  <2>2. /\ got' = [got EXCEPT ![g] = Answer] /\ resultChan' = << >>
        /\ UNCHANGED <<worker, outcome, ctxDone>>
        /\ getter[g] \in {"get", "getChan"}
        /\ getter' = [getter EXCEPT ![g] = IF @ = "get" THEN "returned" ELSE "buffered"]
    BY SMTT(30), <1>8, <2>1 DEF A!ReceiveResult, A!Deliver, A!Waiting
  <2>3. Answer \in {"value", "error", "panicError"} /\ Answer' = Answer /\ ResultSent'
    BY <2>1, <2>2 DEF Ownership, Answer, ResultSent
  <2>4. A!Receivers' = {g}
    BY <2>1, <2>2, <2>3 DEF A!Receivers
  <2>5. A!TypeOK'
    BY <2>2, <2>3
  <2> QED
    BY SMTT(30), <2>1, <2>2, <2>3, <2>4, <2>5 DEF Ownership, ResultSent
<1>9. ASSUME NEW g \in Getters, A!ReceiveDone(g) PROVE FutureInv'
  <2>1. got' = [got EXCEPT ![g] = "ctxErr"] /\ got[g] = "none" /\ ctxDone
    BY <1>9 DEF A!ReceiveDone, A!Deliver, A!Waiting, Ownership
  <2>2. A!Receivers' = A!Receivers
    BY <2>1 DEF A!Receivers
  <2> QED
    BY SMTT(30), <1>9, <2>1, <2>2 DEF A!ReceiveDone, A!Deliver, A!Waiting, Ownership, ResultSent, Answer
<1>10. CASE UNCHANGED A!vars
  BY <1>10, SameReceivers DEF A!vars, Ownership, ResultSent, Answer
<1> QED
  BY SMTT(30), <1>1, <1>2, <1>3, <1>4, <1>5, <1>6, <1>7, <1>8, <1>9, <1>10 DEF A!Next, A!Worker, A!Select

\* The Future's invariant holds throughout every request.
LEMMA FutureInvariance == TimedSpec => []FutureInv
  BY ImplementsFuture, InitFuture, NextFuture, PTL DEF A!Spec

\* FiniteSets reached through the instance is FiniteSets.
LEMMA SameCardinality == \A S : A!Cardinality(S) = Cardinality(S)
  BY DEF A!Cardinality, Cardinality

\* The result of fn is not sent yet, in the Future's channel or with exactly one of the
\* calls that share it, for any number of calls.
THEOREM OneOwner == TimedSpec => []ResultHasOneOwner
<1>1. FutureInv => ResultHasOneOwner
  <2> SUFFICES ASSUME FutureInv
               PROVE  Len(resultChan) + Cardinality(A!Receivers) = IF ResultSent THEN 1 ELSE 0
    BY SameCardinality DEF ResultHasOneOwner, A!ResultHasOneOwner, ResultSent
  <2>1. Cardinality({}) = 0 /\ \A g \in Getters : Cardinality({g}) = 1
    BY FS_EmptySet, FS_Singleton
  <2>2. Len(<< >>) = 0 /\ Len(<<Answer>>) = 1
    OBVIOUS
  <2>3. CASE ~ResultSent
    <3>1. resultChan = << >> /\ A!Receivers = {}
      BY <2>3 DEF FutureInv, Ownership
    <3> QED
      BY <2>1, <2>2, <2>3, <3>1
  <2>4. CASE ResultSent /\ resultChan = <<Answer>> /\ A!Receivers = {}
    BY <2>1, <2>2, <2>4
  <2>5. ASSUME NEW g \in Getters, ResultSent, resultChan = << >>, A!Receivers = {g}
        PROVE  Len(resultChan) + Cardinality(A!Receivers) = 1
    BY <2>1, <2>2, <2>5
  <2> QED
    BY <2>3, <2>4, <2>5 DEF FutureInv, Ownership
<1> QED
  BY FutureInvariance, <1>1, PTL

\* A call gets what fn did, or the error of a context that is done.
THEOREM ResultOfFn == TimedSpec => []ResultIsWhatFnDid
<1>1. FutureInv => ResultIsWhatFnDid
  BY DEF FutureInv, A!TypeOK, A!Results, Ownership, Answer, ResultIsWhatFnDid, A!ResultIsWhatFnDid
<1> QED
  BY FutureInvariance, <1>1, PTL
==============================================================================
