------------------------ MODULE TimeoutHandlerProofs --------------------------
(***************************************************************************)
(* Proofs about TimeoutHandler for every set of codes, headers and chunks  *)
(* and every bound on the body: the inductive invariant, the properties it *)
(* implies, and that ServeHTTP under Recoverer implements ResponseContract.*)
(***************************************************************************)
EXTENDS TimeoutHandler, TLAPS

\* Who may be where: the channels and the serving goroutine's position tell how the
\* handler ended, the lock is held exactly while a page is being sent, and timedOut is
\* set on returning; until then no Write has failed.
Control ==
    /\ done <=> handler = "returned"
    /\ panicChan => handler = "panicked"
    /\ server \in {"panic", "recovered"} => handler = "panicked"
    /\ server \in {"lockDone", "copied", "headed"} => handler = "returned"
    /\ (mu = "server") <=> server \in {"copied", "headed", "timeout", "timeoutHeaded", "timeoutWritten"}
    /\ server \in {"lockTimeout", "timeout", "timeoutHeaded", "timeoutWritten",
                   "recovered", "returned"} => ctxDone
    /\ timedOut => server = "returned"
    /\ wroteHeader => code \in ValidCodes
    /\ server \in {"copied", "headed"} => code = Buffered.code
    /\ ~timedOut => Len(wbuf) = writes

\* How much of which answer has been sent.
Progress ==
    /\ server \in {"select", "panic", "lockDone", "lockTimeout", "timeout"} => resp = Blank
    /\ server = "copied" => resp = [code |-> Unset, header |-> h, body |-> << >>]
    /\ server = "headed" => resp = [code |-> code, header |-> h, body |-> << >>]
    /\ server \in {"timeoutHeaded", "recovered"} =>
            resp = [code |-> Error500, header |-> ErrHeader, body |-> << >>]
    /\ server = "timeoutWritten" => resp = TimeoutPage
    /\ AnswerIsWhole

IInv == TypeOK /\ Control /\ Progress

Sent == Seq(Chunks \cup {TimeoutMsg, PanicMsg})

\* What may be sent as a body: nothing, a page's message, what the handler wrote.
LEMMA BodiesAreSent ==
    /\ << >> \in Sent /\ <<TimeoutMsg>> \in Sent /\ <<PanicMsg>> \in Sent
    /\ \A b \in Bodies : b \in Sent
    /\ << >> \in Bodies
<1>1. \A b \in Bodies : b \in Sent
  BY DEF Bodies, Sent
<1>2. << >> \in Sent /\ <<TimeoutMsg>> \in Sent /\ <<PanicMsg>> \in Sent
  BY DEF Sent
<1>3. << >> \in Bodies
  BY WritesAssumption DEF Bodies
<1> QED
  BY <1>1, <1>2, <1>3

\* timeoutHandler.ServeHTTP starts with nothing written and nothing locked.
LEMMA InitIInv == Init => IInv
<1> SUFFICES ASSUME Init PROVE IInv
  OBVIOUS
<1>1. TypeOK
  <2>1. writes \in 0..MaxWrites
    BY WritesAssumption DEF Init
  <2> QED
    BY Zenon, <2>1, HeadersAssumption, BodiesAreSent DEF Init, TypeOK, Blank, Sent
<1>2. Control
  BY DEF Init, Control
<1>3. Progress
  BY DEF Init, Progress, AnswerIsWhole
<1> QED
  BY <1>1, <1>2, <1>3 DEF IInv

\* Every step of the handler goroutine, of the serving goroutine and of the context
\* preserves the invariant.
LEMMA NextIInv == IInv /\ [Next]_vars => IInv'
<1> SUFFICES ASSUME IInv, [Next]_vars PROVE IInv'
  OBVIOUS
<1> USE DEF IInv, TypeOK, Control, Progress, AnswerIsWhole, Blank, Buffered, TimeoutPage,
            handlerVars, writerVars
<1>1. CASE HandlerSetsHeader
  BY <1>1 DEF HandlerSetsHeader
<1>2. CASE WriteHeader
  <2>1. TypeOK'
    BY ZenonT(40), <1>2 DEF WriteHeader, writeHeaderLocked, Panicked, ValidCodes
  <2>2. Control'
    BY <1>2 DEF WriteHeader, writeHeaderLocked, Panicked, ValidCodes
  <2>3. Progress'
    BY <1>2 DEF WriteHeader, writeHeaderLocked, Panicked, ValidCodes
  <2> QED
    BY <2>1, <2>2, <2>3
<1>3. CASE Write
  <2>1. TypeOK'
    <3>1. wbuf' \in Bodies
      BY SMTT(30), <1>3, WritesAssumption DEF Write, Bodies
    <3>3. writes' \in 0..MaxWrites
      BY <1>3, WritesAssumption DEF Write
    <3>2. code' \in ValidCodes \cup {Unset} /\ wroteHeader' \in BOOLEAN
      BY Zenon, <1>3 DEF Write, writeHeaderLocked, ValidCodes
    <3> QED
      BY Zenon, <1>3, <3>1, <3>2, <3>3 DEF Write
  <2>2. Control'
    <3>1. (~timedOut => Len(wbuf) = writes)'
      BY <1>3 DEF Write, Bodies
    <3> QED
      BY <1>3, <3>1 DEF Write, writeHeaderLocked, ValidCodes
  <2>3. Progress'
    BY <1>3 DEF Write, writeHeaderLocked, ValidCodes
  <2> QED
    BY <2>1, <2>2, <2>3
<1>4. CASE HandlerReturns
  BY <1>4 DEF HandlerReturns
<1>5. CASE HandlerPanics
  BY <1>5 DEF HandlerPanics, Panicked
<1>6. CASE HandlerExitsSilently
  BY <1>6 DEF HandlerExitsSilently
<1>7. CASE ContextDone
  BY <1>7 DEF ContextDone
<1>8. CASE SelectPanic
  BY ZenonT(40), <1>8 DEF SelectPanic, Goto
<1>9. CASE SelectDone
  BY <1>9 DEF SelectDone, Goto
<1>10. CASE SelectTimeout
  BY <1>10 DEF SelectTimeout, Goto
<1>11. CASE CopyHeaders
  BY <1>11 DEF CopyHeaders, Goto, ValidCodes
<1>12. CASE SendHeader
  BY <1>12 DEF SendHeader, Goto, ValidCodes
<1>13. CASE SendBody
  BY <1>13 DEF SendBody, Goto, Bodies
<1>14. CASE LockTimeout
  BY <1>14 DEF LockTimeout, Goto
<1>15. CASE TimeoutPageHeader
  <2>1. TypeOK'
    BY <1>15, BodiesAreSent DEF TimeoutPageHeader, Goto, Sent
  <2>2. Control'
    BY <1>15 DEF TimeoutPageHeader, Goto
  <2>3. Progress'
    BY <1>15 DEF TimeoutPageHeader, Goto
  <2> QED
    BY <2>1, <2>2, <2>3
<1>16. CASE TimeoutPageBody
  <2>1. TypeOK'
    BY Zenon, <1>16, BodiesAreSent DEF TimeoutPageBody, Goto, Sent
  <2>2. Control'
    BY <1>16 DEF TimeoutPageBody, Goto
  <2>3. Progress'
    BY <1>16 DEF TimeoutPageBody, Goto
  <2> QED
    BY <2>1, <2>2, <2>3
<1>17. CASE TimeoutReturn
  BY <1>17 DEF TimeoutReturn, Goto
<1>18. CASE Recover
  <2>1. TypeOK'
    BY <1>18, BodiesAreSent DEF Recover, Goto, Sent
  <2>2. Control'
    BY <1>18 DEF Recover, Goto
  <2>3. Progress'
    BY <1>18 DEF Recover, Goto
  <2> QED
    BY <2>1, <2>2, <2>3
<1>19. CASE RecoverReturn
  <2>1. TypeOK'
    BY Zenon, <1>19, BodiesAreSent DEF RecoverReturn, Goto, PanicPage, Sent
  <2>2. Control'
    BY <1>19 DEF RecoverReturn, Goto, PanicPage
  <2>3. Progress'
    BY <1>19 DEF RecoverReturn, Goto, PanicPage
  <2> QED
    BY <2>1, <2>2, <2>3
<1>20. CASE UNCHANGED vars
  BY <1>20 DEF vars
<1> QED
  BY Zenon, <1>1, <1>2, <1>3, <1>4, <1>5, <1>6, <1>7, <1>8, <1>9, <1>10, <1>11, <1>12, <1>13,
     <1>14, <1>15, <1>16, <1>17, <1>18, <1>19, <1>20
     DEF Next, HandlerStep, ServerStep

\* The invariant holds throughout every request.
LEMMA Invariance == Spec => []IInv
  BY InitIInv, NextIInv, PTL DEF Spec

-----------------------------------------------------------------------------

\* No request leaves the types of the middleware's state.
THEOREM TypeCorrect == Spec => []TypeOK
<1>1. IInv => TypeOK
  BY DEF IInv
<1> QED
  BY Invariance, <1>1, PTL

\* ServeHTTP reads the header map and the buffer only after the handler has returned.
THEOREM NoSharing == Spec => []BufferIsNotShared
<1>1. IInv => BufferIsNotShared
  BY DEF IInv, Control, BufferIsNotShared
<1> QED
  BY Invariance, <1>1, PTL

\* What the client has when the middleware returns is one whole answer with a reason.
THEOREM WholeAnswer == Spec => []AnswerIsWhole
<1>1. IInv => AnswerIsWhole
  BY DEF IInv, Progress
<1> QED
  BY Invariance, <1>1, PTL

\* Once the timeout page is out, nothing the handler writes is kept or sent, and every
\* Write tells it so.
THEOREM TimeoutFinal == Spec => TimeoutIsFinal
<1>1. IInv /\ [Next]_vars =>
        [timedOut => /\ UNCHANGED <<timedOut, wroteHeader, code, wbuf, resp>>
                     /\ writes' # writes => writeErr']_vars
  <2> SUFFICES ASSUME IInv, Next, timedOut
               PROVE  /\ UNCHANGED <<timedOut, wroteHeader, code, wbuf, resp>>
                      /\ writes' # writes => writeErr'
    OBVIOUS
  <2>1. server = "returned" /\ writeErr \in BOOLEAN
    BY DEF IInv, Control, TypeOK
  <2>2. CASE HandlerStep
    BY Zenon, <2>1, <2>2 DEF HandlerStep, HandlerSetsHeader, WriteHeader, Write, HandlerReturns,
       HandlerPanics, HandlerExitsSilently, writeHeaderLocked, writerVars
  <2>3. CASE ContextDone
    BY <2>3 DEF ContextDone, writerVars
  <2>4. ~ServerStep
    BY <2>1 DEF ServerStep, SelectPanic, SelectDone, SelectTimeout, CopyHeaders, SendHeader,
       SendBody, LockTimeout, TimeoutPageHeader, TimeoutPageBody, TimeoutReturn, Recover,
       RecoverReturn, Goto
  <2> QED
    BY Zenon, <2>2, <2>3, <2>4 DEF Next
<1> QED
  BY Invariance, <1>1, PTL DEF Spec, TimeoutIsFinal

\* The select, the lock and the piecewise writes of either page together implement the
\* one atomic answer of ResponseContract.
THEOREM Refinement == Spec => ImplementsContract
<1>1. Init => C!ContractInit
  BY DEF Init, C!ContractInit, Buffered
<1>2. IInv /\ IInv' /\ [Next]_vars => [C!ContractNext]_(C!contractVars)
  <2> SUFFICES ASSUME IInv, IInv', [Next]_vars
               PROVE  C!ContractNext \/ UNCHANGED C!contractVars
    OBVIOUS
  <2>1. ASSUME handler = "running", UNCHANGED <<handler, ctxDone, server, resp>>
        PROVE  C!Offer
    <3>1. Buffered' \in Responses
      BY DEF IInv, TypeOK, Control, Buffered, Responses, ValidCodes
    <3> QED
      BY <2>1, <3>1 DEF C!Offer
  <2>2. CASE HandlerSetsHeader
    BY <2>1, <2>2 DEF HandlerSetsHeader, handlerVars, C!ContractNext
  <2>3. CASE WriteHeader /\ UNCHANGED handler
    BY <2>1, <2>3 DEF WriteHeader, C!ContractNext
  <2>4. CASE WriteHeader /\ handler' # handler
    BY <2>4 DEF WriteHeader, Panicked, handlerVars, Buffered, C!Finish, C!ContractNext
  <2>5. CASE Write
    BY <2>1, <2>5 DEF Write, handlerVars, C!ContractNext
  <2>6. CASE HandlerReturns \/ HandlerPanics \/ HandlerExitsSilently
    BY <2>6 DEF HandlerReturns, HandlerPanics, HandlerExitsSilently, Panicked, writerVars,
       Buffered, C!Finish, C!ContractNext
  <2>7. CASE ContextDone
    BY <2>7 DEF ContextDone, handlerVars, writerVars, Buffered, C!Expire, C!ContractNext
  <2>8. CASE SelectPanic \/ SelectDone \/ SelectTimeout
    BY <2>8 DEF SelectPanic, SelectDone, SelectTimeout, Goto, handlerVars, writerVars,
       Buffered, C!contractVars
  <2>9. CASE CopyHeaders \/ SendHeader
    BY <2>9 DEF CopyHeaders, SendHeader, Goto, handlerVars, writerVars, Buffered, C!contractVars
  <2>10. CASE SendBody
    BY <2>10 DEF SendBody, Goto, handlerVars, writerVars, IInv, Control, Progress,
       AnswerIsWhole, Buffered, C!Answer, C!ContractNext
  <2>11. CASE LockTimeout \/ TimeoutPageHeader \/ TimeoutPageBody
    BY <2>11 DEF LockTimeout, TimeoutPageHeader, TimeoutPageBody, Goto, handlerVars,
       writerVars, Buffered, C!contractVars
  <2>12. CASE TimeoutReturn
    BY <2>12 DEF TimeoutReturn, Goto, handlerVars, IInv, Control, Progress, Buffered,
       C!Answer, C!ContractNext
  <2>13. CASE Recover
    BY <2>13 DEF Recover, Goto, handlerVars, writerVars, Buffered, C!Expire, C!ContractNext
  <2>14. CASE RecoverReturn
    BY <2>14 DEF RecoverReturn, Goto, handlerVars, writerVars, IInv, Control, Progress,
       PanicPage, Buffered, C!Answer, C!ContractNext
  <2>15. CASE UNCHANGED vars
    BY <2>15 DEF vars, handlerVars, writerVars, Buffered, C!contractVars
  <2> QED
    BY <2>2, <2>3, <2>4, <2>5, <2>6, <2>7, <2>8, <2>9, <2>10, <2>11, <2>12, <2>13, <2>14,
       <2>15 DEF Next, HandlerStep, ServerStep
<1> QED
  BY Invariance, <1>1, <1>2, PTL DEF Spec, ImplementsContract, C!Contract
==============================================================================
