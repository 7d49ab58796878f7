---------------------------- MODULE MCRestEndpoint ----------------------------
(* RestEndpoint for TLC: the rules are authexpr expressions, each with the     *)
(* scope claims it is meant to grant.                                          *)
EXTENDS RestEndpoint

X == INSTANCE AuthExpr

Scope(word) == X!Atom("jwtHasScope", <<word>>)

Expressions ==
    [either  |-> X!Op("any", <<Scope("a"), Scope("b")>>),
     justOne |-> X!Op("all", <<Scope("a"), X!Op("not", <<Scope("b")>>)>>)]

Scopes == {<< >>, <<"a">>, <<"b">>, <<"a", "b">>}

\* The scopes each rule is meant to grant
Meaning == [either |-> {<<"a">>, <<"b">>, <<"a", "b">>}, justOne |-> {<<"a">>}]

MCRuleMeans(rule, scope) == scope \in Meaning[rule]

MCRuleGrants(rule, scope) == X!Valid(Expressions[rule]) /\ X!Evaluate(Expressions[rule], scope)

MCCalls == {"c1", "c2"}

\* An implemented endpoint with neither middleware, rule nor database
Basic == [impl |-> TRUE, mw |-> << >>, rule |-> None, rulesDisabled |-> FALSE,
          db |-> FALSE, uses |-> {}, logPayload |-> FALSE, mapped |-> 0]

NoHeader == [scheme |-> None, token |-> EmptyToken]

Bearer(form, scope) == [scheme |-> "bearer", token |-> [form |-> form, scope |-> scope]]

MCHeaders ==
    {NoHeader} \cup {Bearer(form, <<"a">>) : form \in Forms \ {"good"}}
    \cup {Bearer("good", scope) : scope \in Scopes}

Needs(word) == [allowAnon |-> FALSE, word |-> word]
Anonymous(word) == [allowAnon |-> TRUE, word |-> word]

Guarded ==
    {[Basic EXCEPT !.rule = "either"], [Basic EXCEPT !.rule = "justOne"],
     [Basic EXCEPT !.rule = "either", !.rulesDisabled = TRUE],
     [Basic EXCEPT !.mw = <<Needs("a"), Needs("b")>>],
     [Basic EXCEPT !.mw = <<Anonymous("a")>>],
     [Basic EXCEPT !.mw = <<Anonymous(None), Needs("a")>>, !.rule = "justOne"],
     [Basic EXCEPT !.mw = <<Anonymous(None)>>, !.rule = "either"]}

Working ==
    {[Basic EXCEPT !.impl = FALSE], [Basic EXCEPT !.mapped = 418],
     [Basic EXCEPT !.db = TRUE, !.uses = {"c1"}],
     [Basic EXCEPT !.uses = MCCalls], [Basic EXCEPT !.uses = {"c1"}, !.logPayload = TRUE]}

\* Every header to the endpoints that look at it, none to those that do the work.
MCRequests == [ep : Guarded, header : MCHeaders] \cup [ep : Working, header : {NoHeader}]

MCServiceErrors ==
    {Plain, ServerError("BadRequestError"), DownstreamError("DownstreamResponseError"),
     CustomError(404), CustomError(BadStatus), CustomError(99),
     Wrapped(CustomError(404), TRUE), Wrapped(Plain, FALSE), Writer(TRUE), Writer(FALSE)}

MCStatuses == {200, 1000}
=============================================================================
