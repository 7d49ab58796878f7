---------------------------- MODULE TimeoutHandler ----------------------------
(***************************************************************************)
(* One request in timeoutHandler.ServeHTTP (common/timeout.go), called     *)
(* through core.Recoverer as prepareMiddleware arranges it. Two goroutines *)
(* share the timeoutWriter: the handler goroutine, which runs the          *)
(* application, and the serving goroutine, which waits in the select and   *)
(* is the only one that writes to the client's ResponseWriter.             *)
(***************************************************************************)
EXTENDS Naturals, Sequences

CONSTANTS Codes,      \* the final status codes a handler may pass to WriteHeader
          HeaderVals, \* what a handler may put in the header map
          NoHeader,   \* the header map nobody wrote to
          ErrHeader,  \* the headers of an error page
          Chunks,     \* what a handler may write to the body
          TimeoutMsg, PanicMsg,  \* bodies of the two error pages
          MaxWrites   \* bound on the handler's calls of Write

\* Informational codes (1xx), which net/http treats as no answer yet, are left out.
ASSUME CodesAssumption == Codes \subseteq Nat \ (100..199)

ASSUME HeadersAssumption == NoHeader \in HeaderVals

ASSUME WritesAssumption == MaxWrites \in Nat

OK       == 200  \* http.StatusOK
Error500 == 500  \* http.StatusInternalServerError
Unset    == 0    \* no WriteHeader yet

VARIABLES
    handler,      \* "running", "returned", "panicked" or "gone"
    done,         \* the done channel is closed
    panicChan,    \* a value waits in panicChan
    ctxDone,      \* ctx.Done() is closed
    server,       \* where the serving goroutine is
    mu,           \* timeoutWriter.mu: "free", "server"
    timedOut, wroteHeader, code, h, wbuf,   \* the timeoutWriter
    writes,       \* the calls of Write that have returned
    writeErr,     \* the last of them returned ErrHandlerTimeout
    resp          \* what reached the client's ResponseWriter

handlerVars == <<handler, done, panicChan>>
writerVars  == <<timedOut, wroteHeader, code, h, wbuf, writes, writeErr>>
vars == <<handlerVars, ctxDone, server, mu, writerVars, resp>>

checkWriteHeaderCode(c) == c \in 100..999

ValidCodes == {c \in Codes : checkWriteHeaderCode(c)} \cup {OK}
Bodies     == {b \in Seq(Chunks) : Len(b) <= MaxWrites}
Responses  == [code : ValidCodes, header : HeaderVals, body : Bodies]

TypeOK ==
    /\ handler \in {"running", "returned", "panicked", "gone"}
    /\ done \in BOOLEAN
    /\ panicChan \in BOOLEAN
    /\ ctxDone \in BOOLEAN
    /\ server \in {"select", "panic", "lockDone", "copied", "headed", "lockTimeout",
                   "timeout", "timeoutHeaded", "timeoutWritten", "recovered", "returned"}
    /\ mu \in {"free", "server"}
    /\ timedOut \in BOOLEAN
    /\ wroteHeader \in BOOLEAN
    /\ code \in ValidCodes \cup {Unset}
    /\ h \in HeaderVals
    /\ wbuf \in Bodies
    /\ writes \in 0..MaxWrites
    /\ writeErr \in BOOLEAN
    /\ resp \in [code : ValidCodes \cup {Unset, Error500},
                header : HeaderVals \cup {ErrHeader},
                body : Seq(Chunks \cup {TimeoutMsg, PanicMsg})]

Blank == [code |-> Unset, header |-> NoHeader, body |-> << >>]

\* The request may arrive with its context already cancelled.
Init ==
    /\ handler = "running"
    /\ done = FALSE
    /\ panicChan = FALSE
    /\ ctxDone \in BOOLEAN
    /\ server = "select"
    /\ mu = "free"
    /\ timedOut = FALSE
    /\ wroteHeader = FALSE
    /\ code = Unset
    /\ h = NoHeader
    /\ wbuf = << >>
    /\ writes = 0
    /\ writeErr = FALSE
    /\ resp = Blank

-----------------------------------------------------------------------------
(* The handler goroutine *)

\* panicChan has room for the one value the deferred recover can send.
Panicked ==
    /\ handler' = "panicked"
    /\ panicChan' = TRUE
    /\ UNCHANGED done

\* tw.Header() hands out the map itself: no lock, no timedOut test.
HandlerSetsHeader ==
    /\ handler = "running"
    /\ h' \in HeaderVals
    /\ UNCHANGED <<handlerVars, ctxDone, server, mu, timedOut, wroteHeader, code, wbuf,
                   writes, writeErr, resp>>

writeHeaderLocked(c) ==
    IF timedOut \/ wroteHeader
    THEN UNCHANGED <<wroteHeader, code>>
    ELSE wroteHeader' = TRUE /\ code' = c

\* Slip: any code is taken.
WriteHeaderUnchecked ==
    /\ handler = "running"
    /\ mu = "free"
    /\ \E c \in Codes : writeHeaderLocked(c)
    /\ UNCHANGED <<handlerVars, ctxDone, server, mu, timedOut, h, wbuf, writes, writeErr, resp>>

\* An invalid code panics; the deferred Unlock runs on the way out.
WriteHeader ==
    /\ handler = "running"
    /\ mu = "free"
    /\ \E c \in Codes :
          \/ /\ checkWriteHeaderCode(c)
             /\ writeHeaderLocked(c)
             /\ UNCHANGED handlerVars
          \/ /\ ~checkWriteHeaderCode(c)
             /\ Panicked
             /\ UNCHANGED <<wroteHeader, code>>
    /\ UNCHANGED <<ctxDone, server, mu, timedOut, h, wbuf, writes, writeErr, resp>>

\* Slip: a Write after the timeout is dropped without a word.
WriteDropped ==
    /\ handler = "running"
    /\ mu = "free"
    /\ writes < MaxWrites
    /\ writes' = writes + 1
    /\ writeErr' = FALSE
    /\ \/ timedOut /\ UNCHANGED <<wroteHeader, code, wbuf>>
       \/ /\ ~timedOut
          /\ writeHeaderLocked(OK)
          /\ \E p \in Chunks : wbuf' = Append(wbuf, p)
    /\ UNCHANGED <<handlerVars, ctxDone, server, mu, timedOut, h, resp>>

Write ==
    /\ handler = "running"
    /\ mu = "free"
    /\ writes < MaxWrites
    /\ writes' = writes + 1
    /\ \/ /\ timedOut
          /\ writeErr' = TRUE
          /\ UNCHANGED <<wroteHeader, code, wbuf>>
       \/ /\ ~timedOut
          /\ writeHeaderLocked(OK)
          /\ \E p \in Chunks : wbuf' = Append(wbuf, p)
          /\ writeErr' = FALSE
    /\ UNCHANGED <<handlerVars, ctxDone, server, mu, timedOut, h, resp>>

\* Slip: done is closed before the handler runs its deferred work.
DoneTooEarly ==
    /\ handler = "running"
    /\ ~done
    /\ done' = TRUE
    /\ UNCHANGED <<handler, panicChan, ctxDone, server, mu, writerVars, resp>>

HandlerReturns ==
    /\ handler = "running"
    /\ handler' = "returned"
    /\ done' = TRUE
    /\ UNCHANGED <<panicChan, ctxDone, server, mu, writerVars, resp>>

HandlerPanics ==
    /\ handler = "running"
    /\ Panicked
    /\ UNCHANGED <<ctxDone, server, mu, writerVars, resp>>

\* runtime.Goexit, or panic(nil), for which recover() returns nil in Go 1.20:
\* neither channel is used.
HandlerExitsSilently ==
    /\ handler = "running"
    /\ handler' = "gone"
    /\ UNCHANGED <<done, panicChan, ctxDone, server, mu, writerVars, resp>>

-----------------------------------------------------------------------------
(* The context: its timeout expires or the client goes away. *)

\* Slip: the context has no timeout, and ends only after the handler.
NoTimeout ==
    /\ ~ctxDone
    /\ handler = "returned"
    /\ ctxDone' = TRUE
    /\ UNCHANGED <<handlerVars, server, mu, writerVars, resp>>

ContextDone ==
    /\ ~ctxDone
    /\ ctxDone' = TRUE
    /\ UNCHANGED <<handlerVars, server, mu, writerVars, resp>>

-----------------------------------------------------------------------------
(* The serving goroutine. The select picks any ready case. *)

Goto(from, to) == server = from /\ server' = to

SelectPanic ==
    /\ Goto("select", "panic")
    /\ panicChan
    /\ panicChan' = FALSE
    /\ UNCHANGED <<handler, done, ctxDone, mu, writerVars, resp>>

SelectDone ==
    /\ Goto("select", "lockDone")
    /\ done
    /\ UNCHANGED <<handlerVars, ctxDone, mu, writerVars, resp>>

SelectTimeout ==
    /\ Goto("select", "lockTimeout")
    /\ ctxDone
    /\ UNCHANGED <<handlerVars, ctxDone, mu, writerVars, resp>>

\* case <-done: lock, copy the header map, default the code ...
CopyHeaders ==
    /\ Goto("lockDone", "copied")
    /\ mu = "free"
    /\ mu' = "server"
    /\ resp' = [resp EXCEPT !.header = h]
    /\ code' = IF wroteHeader THEN code ELSE OK
    /\ UNCHANGED <<handlerVars, ctxDone, timedOut, wroteHeader, h, wbuf, writes, writeErr>>

\* Slip: the status code goes out before its default is set.
SendHeaderUnset ==
    /\ Goto("copied", "headed")
    /\ resp' = [resp EXCEPT !.code = IF wroteHeader THEN code ELSE Unset]
    /\ UNCHANGED <<handlerVars, ctxDone, mu, writerVars>>

\* ... w.WriteHeader(tw.code) ...
SendHeader ==
    /\ Goto("copied", "headed")
    /\ resp' = [resp EXCEPT !.code = code]
    /\ UNCHANGED <<handlerVars, ctxDone, mu, writerVars>>

\* Slip: the body is flushed in two goes, the second after the unlock.
SendBodyTwice ==
    /\ server \in {"headed", "returned"}
    /\ server' = "returned"
    /\ Len(resp.body) < Len(wbuf)
    /\ resp' = [resp EXCEPT !.body = Append(@, wbuf[Len(@) + 1])]
    /\ mu' = "free"
    /\ ctxDone' = TRUE
    /\ UNCHANGED <<handlerVars, writerVars>>

\* ... w.Write(tw.wbuf.Bytes()), and the deferred Unlock and cancelCtx.
SendBody ==
    /\ Goto("headed", "returned")
    /\ resp' = [resp EXCEPT !.body = wbuf]
    /\ mu' = "free"
    /\ ctxDone' = TRUE
    /\ UNCHANGED <<handlerVars, writerVars>>

\* case <-ctx.Done(): lock, then core's timeoutHandler writes its error page
\* through common.HandleError ...
LockTimeout ==
    /\ Goto("lockTimeout", "timeout")
    /\ mu = "free"
    /\ mu' = "server"
    /\ UNCHANGED <<handlerVars, ctxDone, writerVars, resp>>

TimeoutPageHeader ==
    /\ Goto("timeout", "timeoutHeaded")
    /\ resp' = [code |-> Error500, header |-> ErrHeader, body |-> resp.body]
    /\ UNCHANGED <<handlerVars, ctxDone, mu, writerVars>>

TimeoutPageBody ==
    /\ Goto("timeoutHeaded", "timeoutWritten")
    /\ resp' = [resp EXCEPT !.body = <<TimeoutMsg>>]
    /\ UNCHANGED <<handlerVars, ctxDone, mu, writerVars>>

\* ... and only then timedOut is set, and the lock released.
TimeoutReturn ==
    /\ Goto("timeoutWritten", "returned")
    /\ timedOut' = TRUE
    /\ mu' = "free"
    /\ UNCHANGED <<handlerVars, ctxDone, wroteHeader, code, h, wbuf, writes, writeErr, resp>>

\* case p := <-panicChan: the panic is raised again (cancelCtx runs) and
\* Recoverer answers with http.Error.
Recover ==
    /\ Goto("panic", "recovered")
    /\ ctxDone' = TRUE
    /\ resp' = [code |-> Error500, header |-> ErrHeader, body |-> resp.body]
    /\ UNCHANGED <<handlerVars, mu, writerVars>>

RecoverReturn ==
    /\ Goto("recovered", "returned")
    /\ resp' = [resp EXCEPT !.body = <<PanicMsg>>]
    /\ UNCHANGED <<handlerVars, ctxDone, mu, writerVars>>

-----------------------------------------------------------------------------

HandlerStep ==
    \/ HandlerSetsHeader \/ WriteHeader \/ Write
    \/ HandlerReturns \/ HandlerPanics \/ HandlerExitsSilently

ServerStep ==
    \/ SelectPanic \/ SelectDone \/ SelectTimeout
    \/ CopyHeaders \/ SendHeader \/ SendBody
    \/ LockTimeout \/ TimeoutPageHeader \/ TimeoutPageBody \/ TimeoutReturn
    \/ Recover \/ RecoverReturn

Next == HandlerStep \/ ContextDone \/ ServerStep

Spec == Init /\ [][Next]_vars

\* The runtime schedules the serving goroutine and fires the context's timer. The
\* handler may run for ever.
FairSpec == Spec /\ WF_vars(ServerStep) /\ WF_vars(ContextDone)
-----------------------------------------------------------------------------
(* Properties *)

TimeoutPage == [code |-> Error500, header |-> ErrHeader, body |-> <<TimeoutMsg>>]
PanicPage   == [code |-> Error500, header |-> ErrHeader, body |-> <<PanicMsg>>]

\* The response the timeoutWriter holds.
Buffered == [code |-> IF wroteHeader THEN code ELSE OK, header |-> h, body |-> wbuf]

\* ServeHTTP reads the header map and the buffer only when the handler goroutine
\* is done with them: tw.Header() hands the map out with no lock, so this is what
\* keeps "for k, vv := range tw.h" free of a race with the handler.
BufferIsNotShared ==
    server \in {"lockDone", "copied", "headed"} => handler = "returned"

\* When the middleware has returned, the client has the whole response of a handler
\* that returned, with every chunk it was not told had failed, or the whole timeout
\* page, or the recoverer's page for a handler that panicked: never parts of two of
\* them, nor a page with nothing behind it.
AnswerIsWhole ==
    server = "returned" =>
        \/ handler = "returned" /\ ~timedOut /\ resp = Buffered /\ Len(resp.body) = writes
        \/ handler = "panicked" /\ ~timedOut /\ resp = PanicPage
        \/ timedOut /\ ctxDone /\ resp = TimeoutPage

\* TimeoutHandler's comment: "After such a timeout, writes by h to its
\* ResponseWriter will return ErrHandlerTimeout". No step after the timeout changes
\* what is buffered or sent, and every Write that returns then returns the error
\* (timeout.go:166-168).
TimeoutIsFinal ==
    [][timedOut => /\ UNCHANGED <<timedOut, wroteHeader, code, wbuf, resp>>
                   /\ writes' # writes => writeErr']_vars

\* Seen from outside, the select, the lock and the piecewise writes of either page
\* are one atomic answer: ServeHTTP under Recoverer implements ResponseContract.
C == INSTANCE ResponseContract WITH
        Responses <- Responses,
        EmptyResponse <- [code |-> OK, header |-> NoHeader, body |-> << >>],
        TimeoutAnswer <- TimeoutPage,
        PanicAnswer <- PanicPage,
        NoAnswer <- Blank,
        offer <- Buffered,
        outcome <- handler,
        expired <- ctxDone,
        answer <- IF server = "returned" THEN resp ELSE Blank

ImplementsContract == C!Contract

\* Every request is answered, even when the handler never returns, exits without a
\* word or panics with nil: the context's timeout ends the select.
RequestAnswered == <>(server = "returned")
==============================================================================
