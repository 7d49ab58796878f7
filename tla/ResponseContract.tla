-------------------------- MODULE ResponseContract ---------------------------
(***************************************************************************)
(* What the timeout middleware (common/timeout.go) under core.Recoverer    *)
(* promises for one request: the client gets one answer, all at once. It   *)
(* is the whole response of a handler that returned, or the timeout        *)
(* handler's answer once the context is done, or the recoverer's answer to *)
(* a handler that panicked.                                                *)
(***************************************************************************)
CONSTANTS Responses,      \* what a handler can have put together
          EmptyResponse,  \* of a handler that wrote nothing
          TimeoutAnswer, PanicAnswer, NoAnswer

VARIABLES offer,    \* the response the handler has put together so far
          outcome,  \* "running", "returned", "panicked" or "gone" (neither of the two)
          expired,  \* the request's context is done
          answer    \* what the client has received

contractVars == <<offer, outcome, expired, answer>>

ContractInit ==
    /\ offer = EmptyResponse
    /\ outcome = "running"
    /\ expired \in BOOLEAN
    /\ answer = NoAnswer

Offer ==
    /\ outcome = "running"
    /\ offer' \in Responses
    /\ UNCHANGED <<outcome, expired, answer>>

Finish ==
    /\ outcome = "running"
    /\ outcome' \in {"returned", "panicked", "gone"}
    /\ UNCHANGED <<offer, expired, answer>>

Expire ==
    /\ expired' = TRUE
    /\ UNCHANGED <<offer, outcome, answer>>

\* Returning from the middleware cancels the context.
Answer ==
    /\ answer = NoAnswer
    /\ \/ outcome = "returned" /\ answer' = offer
       \/ outcome = "panicked" /\ answer' = PanicAnswer
       \/ expired /\ answer' = TimeoutAnswer
    /\ expired' = TRUE
    /\ UNCHANGED <<offer, outcome>>

ContractNext == Offer \/ Finish \/ Expire \/ Answer

Contract == ContractInit /\ [][ContractNext]_contractVars
==============================================================================
