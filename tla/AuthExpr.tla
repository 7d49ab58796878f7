------------------------------- MODULE AuthExpr -------------------------------
(***************************************************************************)
(* authexpr/expr.go and eval_context.go: the boolean expressions of        *)
(* authorization rules. An operator expression and an atom are records of  *)
(* their name and arguments; the grammar gives an operator one argument or *)
(* more, and an atom any number of string literals.                        *)
(***************************************************************************)
EXTENDS Naturals, Sequences

Op(name, args)   == [kind |-> "op", name |-> name, args |-> args]
Atom(name, args) == [kind |-> "atom", name |-> name, args |-> args]

\* Validate, which CompileExpression applies to every expression it parses
RECURSIVE Valid(_)
Valid(e) ==
    IF e.kind = "op"
    THEN /\ e.name \in {"not", "all", "any"}
         /\ e.name = "not" => Len(e.args) = 1
         /\ \A i \in DOMAIN e.args : Valid(e.args[i])
    ELSE e.name = "jwtHasScope" /\ Len(e.args) = 1

\* MakeStandardJWTHasScope: scope is the claim split at its spaces
JWTHasScope(scope, word) == \E i \in DOMAIN scope : scope[i] = word

OpValue(name, values) ==
    CASE name = "not" -> ~values[1]
      [] name = "any" -> \E i \in DOMAIN values : values[i]
      [] name = "all" -> \A i \in DOMAIN values : values[i]

\* Evaluate, for an expression Validate accepts
RECURSIVE Evaluate(_, _)
Evaluate(e, scope) ==
    IF e.kind = "op"
    THEN OpValue(e.name, [i \in DOMAIN e.args |-> Evaluate(e.args[i], scope)])
    ELSE JWTHasScope(scope, e.args[1])
=============================================================================
