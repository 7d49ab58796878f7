----------------------------- MODULE AsyncFuture ------------------------------
(***************************************************************************)
(* common/async.go: Async runs fn in a goroutine of its own; Get and       *)
(* GetChan of the Future it returns wait for the result or for the         *)
(* context. Any number of goroutines may share the Future.                 *)
(***************************************************************************)
EXTENDS Naturals, FiniteSets, Sequences

CONSTANTS Getters  \* calls of Get or GetChan on the one Future

VARIABLES
    worker,      \* fn's goroutine: "running", "sending", "panicking", "exited"
    outcome,     \* what fn did: "none", "value", "error", "panic", "silent"
    resultChan,  \* buffered, capacity 1
    ctxDone,
    getter,      \* per call: "idle", "get", "getChan" (both wait in the select),
                 \* "buffered" (GetChan's own channel holds the result), "returned"
    got          \* per call: the result, or "none"

vars == <<worker, outcome, resultChan, ctxDone, getter, got>>

Cap     == 1
Results == {"value", "error", "panicError"}

TypeOK ==
    /\ worker \in {"running", "sending", "panicking", "exited"}
    /\ outcome \in {"none", "value", "error", "panic", "silent"}
    /\ resultChan \in Seq(Results) /\ Len(resultChan) <= Cap
    /\ ctxDone \in BOOLEAN
    /\ getter \in [Getters -> {"idle", "get", "getChan", "buffered", "returned"}]
    /\ got \in [Getters -> Results \cup {"none", "ctxErr"}]

Init ==
    /\ worker = "running"
    /\ outcome = "none"
    /\ resultChan = << >>
    /\ ctxDone \in BOOLEAN
    /\ getter = [g \in Getters |-> "idle"]
    /\ got = [g \in Getters |-> "none"]

-----------------------------------------------------------------------------

FnReturns ==
    /\ worker = "running"
    /\ worker' = "sending"
    /\ outcome' \in {"value", "error"}
    /\ UNCHANGED <<resultChan, ctxDone, getter, got>>

FnPanics ==
    /\ worker = "running"
    /\ worker' = "panicking"
    /\ outcome' = "panic"
    /\ UNCHANGED <<resultChan, ctxDone, getter, got>>

\* panic(nil) (recover() returns nil in Go 1.20) or runtime.Goexit: nothing is sent.
FnExitsSilently ==
    /\ worker = "running"
    /\ worker' = "exited"
    /\ outcome' = "silent"
    /\ UNCHANGED <<resultChan, ctxDone, getter, got>>

\* Slip: an unbuffered channel, where a send needs a waiting receiver.
SendUnbuffered(r) ==
    /\ resultChan = << >>
    /\ \E g \in Getters : getter[g] \in {"get", "getChan"}
    /\ resultChan' = <<r>>
    /\ worker' = "exited"
    /\ UNCHANGED <<outcome, ctxDone, getter, got>>

Send(r) ==
    /\ Len(resultChan) < Cap
    /\ resultChan' = Append(resultChan, r)
    /\ worker' = "exited"
    /\ UNCHANGED <<outcome, ctxDone, getter, got>>

SendResult == worker = "sending" /\ Send(outcome)

\* Slip: a recovered panic is reported as an empty result without an error.
SendPanicAsValue == worker = "panicking" /\ Send("value")

\* The deferred function turns the panic into a ServerError of kind InternalError.
SendPanic == worker = "panicking" /\ Send("panicError")

ContextDone ==
    /\ ~ctxDone
    /\ ctxDone' = TRUE
    /\ UNCHANGED <<worker, outcome, resultChan, getter, got>>

Get(g) ==
    /\ getter[g] = "idle"
    /\ getter' = [getter EXCEPT ![g] = "get"]
    /\ UNCHANGED <<worker, outcome, resultChan, ctxDone, got>>

GetChan(g) ==
    /\ getter[g] = "idle"
    /\ getter' = [getter EXCEPT ![g] = "getChan"]
    /\ UNCHANGED <<worker, outcome, resultChan, ctxDone, got>>

Waiting(g) == getter[g] \in {"get", "getChan"}

\* Leaving the select: Get returns, GetChan's goroutine fills its own channel.
Deliver(g, r) ==
    /\ getter' = [getter EXCEPT ![g] = IF @ = "get" THEN "returned" ELSE "buffered"]
    /\ got' = [got EXCEPT ![g] = r]

\* Slip: the result is looked at and left in the channel.
PeekResult(g) ==
    /\ Waiting(g)
    /\ resultChan # << >>
    /\ Deliver(g, Head(resultChan))
    /\ UNCHANGED <<worker, outcome, resultChan, ctxDone>>

ReceiveResult(g) ==
    /\ Waiting(g)
    /\ resultChan # << >>
    /\ Deliver(g, Head(resultChan))
    /\ resultChan' = Tail(resultChan)
    /\ UNCHANGED <<worker, outcome, ctxDone>>

\* Slip: only Get's select has the ctx.Done() case.
ReceiveDoneInGet(g) ==
    /\ getter[g] = "get"
    /\ ctxDone
    /\ Deliver(g, "ctxErr")
    /\ UNCHANGED <<worker, outcome, resultChan, ctxDone>>

ReceiveDone(g) ==
    /\ Waiting(g)
    /\ ctxDone
    /\ Deliver(g, "ctxErr")
    /\ UNCHANGED <<worker, outcome, resultChan, ctxDone>>

\* The caller of GetChan reads its channel, if it ever does.
ReadChan(g) ==
    /\ getter[g] = "buffered"
    /\ getter' = [getter EXCEPT ![g] = "returned"]
    /\ UNCHANGED <<worker, outcome, resultChan, ctxDone, got>>

Worker == FnReturns \/ FnPanics \/ FnExitsSilently \/ SendResult \/ SendPanic

Select(g) == ReceiveResult(g) \/ ReceiveDone(g)

Next ==
    \/ Worker
    \/ ContextDone
    \/ \E g \in Getters : Get(g) \/ GetChan(g) \/ Select(g) \/ ReadChan(g)

Spec == Init /\ [][Next]_vars

\* fn may run for ever and the context may never be done; what is runnable runs.
Fairness ==
    /\ WF_vars(SendResult \/ SendPanic)
    /\ \A g \in Getters : WF_vars(Select(g))

FairSpec == Spec /\ Fairness

-----------------------------------------------------------------------------
(* Properties *)

Receivers == {g \in Getters : got[g] \in Results}

\* The one result of fn goes to at most one of the calls sharing the Future, and is
\* never in two places: not yet sent, in the channel, or received.
ResultHasOneOwner ==
    Len(resultChan) + Cardinality(Receivers)
        = IF worker = "exited" /\ outcome # "silent" THEN 1 ELSE 0

\* A call gets what fn did (a panic as an error, never as a panic of the caller), or
\* the context's error when the context is done, and nothing else.
ResultIsWhatFnDid ==
    \A g \in Getters :
        /\ got[g] \in {"value", "error"} => outcome = got[g]
        /\ got[g] = "panicError" => outcome = "panic"
        /\ got[g] = "ctxErr" => ctxDone

\* fn's goroutine ends once fn has, whether or not anybody ever calls Get: the buffer
\* takes the result of a Future that was dropped.
NoWorkerLeak == (outcome # "none") ~> (worker = "exited")

\* Future's comment: Get "will block until the Async function either returns a value
\* or panics or the context is done". A second call waits on after fn has returned.
GetReturnsOnceFnHas ==
    \A g \in Getters : (Waiting(g) /\ outcome \in {"value", "error"}) ~> ~Waiting(g)
==============================================================================
