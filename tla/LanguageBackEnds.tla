--------------------------- MODULE LanguageBackEnds ---------------------------
(***************************************************************************)
(* The two back ends of the compiler, and the programs made of works.      *)
(* lower_reactive (reactive.rs) keeps the conditions that need a signal    *)
(* and inlines every call; SemanticResolver (resolver.rs) makes a flat     *)
(* list of operations and knows no signals; specialize_work                *)
(* (reactive_process.rs) puts the arguments of a request in the body of a  *)
(* work, which then is the main function.  Neither back end ends on a      *)
(* function that calls itself: the model has no such program.              *)
(***************************************************************************)
EXTENDS LanguageCompiler

\* RuntimeValue::from_constant with as_f64: other constants are no numbers.
AsNumber(value) ==
  IF IsNumber(value.type) \/ value.type = "Bool" THEN value.v ELSE Unknown

Extend(env, name, value) ==
  [n \in DOMAIN env \cup {name} |-> IF n = name THEN value ELSE env[n]]

Operation(stmt, value) ==
  CASE stmt.op = "move" -> [do |-> stmt.kind, via |-> stmt.via, target |-> value.v]
    [] stmt.op = "wait" -> [do |-> "Wait", seconds |-> value.v]

\* The type of value an operation needs.
Expected == [move |-> "Position", wait |-> "Duration"]

OutputOperation(stmt) ==
  [do |-> "SetOutput", name |-> stmt.name, value |-> stmt.value = True]

-----------------------------------------------------------------------------
(* lower_reactive                                                          *)

\* A name bound at runtime hides a constant of that name.
RECURSIVE TryEval(_, _, _, _)
TryEval(x, env, runtime, code) ==
  CASE x.kind = "value" -> x.value
    [] x.kind \in {"param", "local"} ->
         IF x.name \in DOMAIN env \ runtime THEN env[x.name] ELSE NoValue
    [] x.kind = "target" ->
         IF x.name \in DOMAIN code.targets THEN code.targets[x.name] ELSE NoValue
    [] x.kind = "compare" ->
         BinaryValue(x.op, TryEval(x.left, env, runtime, code),
                           TryEval(x.right, env, runtime, code))
    [] OTHER -> NoValue

Signal(key, code) ==
  IF key \in DOMAIN code.schema
  THEN [kind |-> "signal", signal |-> code.schema[key].signal, type |-> code.schema[key].type]
  ELSE Rejected

\* A parameter or local named as a signal node is that node.
RECURSIVE RuntimeExpr(_, _, _, _)
RuntimeExpr(x, env, runtime, code) ==
  LET constant == TryEval(x, env, runtime, code)
  IN  CASE constant # NoValue -> [kind |-> "const", value |-> AsNumber(constant)]
        [] constant = NoValue /\ x.kind = "channel" -> Signal(x.key, code)
        [] constant = NoValue /\ x.kind = "access" ->
             IF x.object.kind \in {"param", "local"} /\ KnowsModule(x.object.name, code.schema)
             THEN Signal(<<x.object.name, x.member>>, code) ELSE Rejected
        [] constant = NoValue /\ x.kind = "compare" ->
             LET left  == RuntimeExpr(x.left, env, runtime, code)
                 right == RuntimeExpr(x.right, env, runtime, code)
             IN  IF Rejected \in {left, right} THEN Rejected
                 ELSE [x EXCEPT !.left = left, !.right = right]
        [] constant = NoValue /\ x.kind \in {"param", "local"} ->
             [kind |-> "local", name |-> x.name]
        [] OTHER -> Rejected

\* Mutant: the parameter of an inlined call is runtime, but nothing binds it.
BindRuntimeUnbound(s, name, value) ==
  [s EXCEPT !.runtime = @ \cup {name}, !.ok = @ /\ value # Rejected]

\* What is not constant is bound when the program runs.
BindRuntime(s, name, value) ==
  IF value = Rejected THEN [s EXCEPT !.ok = FALSE]
  ELSE [s EXCEPT !.runtime = @ \cup {name},
                 !.out = Append(@, [op |-> "let", name |-> name, value |-> value])]

\* A condition known now is decided now.  The branches of any other condition
\* each start from the bindings before it, and what they bind is forgotten
\* behind it.
RECURSIVE LowerStatements(_, _, _)
LowerStatements(body, start, code) ==
  LET Lower(s, stmt) ==
        LET eval(x) == TryEval(x, s.env, s.runtime, code)
            expr(x) == RuntimeExpr(x, s.env, s.runtime, code)
            emit(operation) ==
              [s EXCEPT !.out = Append(@, [op |-> "operate", operation |-> operation])]
            evaluated(x) ==
              LET value == eval(x)
              IN  IF value # NoValue /\ value.type = Expected[stmt.op]
                  THEN emit(Operation(stmt, value)) ELSE [s EXCEPT !.ok = FALSE]
            branch(stmts) == LowerStatements(stmts, [s EXCEPT !.out = <<>>], code)
            \* Arguments are lowered where the call stands, the body of the
            \* function sees nothing but its parameters.
            called(f) ==
              LET Bind(t, i) ==
                    LET value == eval(stmt.args[i])
                    IN  IF value # NoValue
                        THEN [t EXCEPT !.env = Extend(@, f.params[i], value)]
                        ELSE BindRuntime(t, f.params[i], expr(stmt.args[i]))
                  entered == FoldLeft(Bind, [s EXCEPT !.env = <<>>, !.runtime = {}],
                                      [i \in DOMAIN f.params |-> i])
                  left == LowerStatements(f.body, entered, code)
              IN  [left EXCEPT !.env = s.env, !.runtime = s.runtime]
        IN  CASE stmt.op = "let" ->
                   LET value == eval(stmt.value)
                   IN  IF value # NoValue THEN [s EXCEPT !.env = Extend(@, stmt.name, value)]
                       ELSE BindRuntime(s, stmt.name, expr(stmt.value))
              [] stmt.op = "move" -> evaluated(stmt.target)
              [] stmt.op = "wait" -> evaluated(stmt.value)
              [] stmt.op = "output" -> emit(OutputOperation(stmt))
              [] stmt.op = "if" /\ eval(stmt.cond) = True ->
                   LowerStatements(stmt.then, s, code)
              [] stmt.op = "if" /\ eval(stmt.cond) = False ->
                   IF stmt.else = NoElse THEN s ELSE LowerStatements(stmt.else, s, code)
              [] stmt.op = "if" /\ eval(stmt.cond) \notin {True, False} ->
                   LET then == branch(stmt.then)
                       else == IF stmt.else = NoElse THEN [s EXCEPT !.out = NoElse]
                               ELSE branch(stmt.else)
                   IN  IF expr(stmt.cond) = Rejected THEN [s EXCEPT !.ok = FALSE]
                       ELSE [s EXCEPT !.ok = then.ok /\ else.ok,
                                      !.out = Append(@, [op |-> "if", cond |-> expr(stmt.cond),
                                                         then |-> then.out, else |-> else.out])]
              [] stmt.op = "call" ->
                   IF /\ stmt.callee \in DOMAIN code.functions
                      /\ Len(code.functions[stmt.callee].params) = Len(stmt.args)
                   THEN called(code.functions[stmt.callee]) ELSE [s EXCEPT !.ok = FALSE]
  IN  FoldLeft(Lower, start, body)

\* The statements ReactiveEvaluator runs.
LowerReactive(code) ==
  IF code = Rejected \/ "main" \notin DOMAIN code.functions THEN Rejected
  ELSE LET lowered == LowerStatements(code.functions["main"].body,
                                      [env |-> <<>>, runtime |-> {}, out |-> <<>>, ok |-> TRUE],
                                      code)
       IN  IF lowered.ok THEN lowered.out ELSE Rejected

-----------------------------------------------------------------------------
(* SemanticResolver                                                        *)

RECURSIVE EvalValue(_, _, _)
EvalValue(x, env, code) ==
  CASE x.kind = "value" -> x.value
    [] x.kind \in {"param", "local"} -> IF x.name \in DOMAIN env THEN env[x.name] ELSE NoValue
    [] x.kind = "target" ->
         IF x.name \in DOMAIN code.targets THEN code.targets[x.name] ELSE NoValue
    [] x.kind = "compare" ->
         BinaryValue(x.op, EvalValue(x.left, env, code), EvalValue(x.right, env, code))
    [] OTHER -> NoValue

\* Mutant: a condition that does not hold adds its branch all the same.
BranchesAppended(stmt, condition) ==
  LET else == IF stmt.else = NoElse THEN <<>> ELSE stmt.else
  IN  IF condition = True THEN stmt.then ELSE stmt.then \o else

\* The branches of a condition to resolve.
Branches(stmt, condition) ==
  LET else == IF stmt.else = NoElse THEN <<>> ELSE stmt.else
  IN  CASE condition = True -> stmt.then
        [] condition = False -> else
        [] OTHER -> stmt.then \o else

RECURSIVE ResolveStatements(_, _, _)
ResolveStatements(body, start, code) ==
  LET Resolve(s, stmt) ==
        LET eval(x) == EvalValue(x, s.env, code)
            failed == [s EXCEPT !.ok = FALSE]
            emit(operation) == [s EXCEPT !.out = Append(@, operation)]
            evaluated(x) ==
              LET value == eval(x)
              IN  IF value # NoValue /\ value.type = Expected[stmt.op]
                  THEN emit(Operation(stmt, value)) ELSE failed
            called(f) ==
              LET args == [i \in DOMAIN stmt.args |-> eval(stmt.args[i])]
                  env == [n \in Range(f.params) |->
                            args[CHOOSE i \in DOMAIN f.params : f.params[i] = n]]
              IN  IF NoValue \in Range(args) \/ Len(args) # Len(f.params) THEN failed
                  ELSE [ResolveStatements(f.body, [s EXCEPT !.env = env], code)
                          EXCEPT !.env = s.env]
        IN  CASE stmt.op = "let" ->
                   LET value == eval(stmt.value)
                   IN  IF value = NoValue THEN failed
                       ELSE [s EXCEPT !.env = Extend(@, stmt.name, value)]
              [] stmt.op = "move" -> evaluated(stmt.target)
              [] stmt.op = "wait" -> evaluated(stmt.value)
              [] stmt.op = "output" -> emit(OutputOperation(stmt))
              [] stmt.op = "if" ->
                   ResolveStatements(Branches(stmt, eval(stmt.cond)), s, code)
              [] stmt.op = "call" ->
                   IF stmt.callee \in DOMAIN code.functions
                   THEN called(code.functions[stmt.callee]) ELSE failed
  IN  FoldLeft(Resolve, start, body)

\* The operations that are planned.
ResolveProgram(code) ==
  IF code = Rejected \/ "main" \notin DOMAIN code.functions THEN Rejected
  ELSE LET resolved == ResolveStatements(code.functions["main"].body,
                                         [env |-> <<>>, out |-> <<>>, ok |-> TRUE], code)
       IN  IF resolved.ok THEN resolved.out ELSE Rejected

-----------------------------------------------------------------------------
(* specialize_work                                                         *)

\* Numbers and truth values are all an argument can be; a number is written as
\* a literal, so a whole one is an integer from then on.
ValueToExpr(value) ==
  CASE value.type = "Bool" -> [kind |-> "bool", v |-> value.v]
    [] IsNumber(value.type) -> [kind |-> "number", v |-> value.v]
    [] OTHER -> Rejected

\* The node of a member is not a name of an expression.
RECURSIVE SubstituteExpr(_, _)
SubstituteExpr(e, bindings) ==
  CASE e.kind = "id" /\ e.name \in DOMAIN bindings -> bindings[e.name]
    [] e.kind = "compare" ->
         [e EXCEPT !.left = SubstituteExpr(@, bindings), !.right = SubstituteExpr(@, bindings)]
    [] OTHER -> e

\* A let that binds a parameter's name again does not stop the substitution.
RECURSIVE SubstituteStatements(_, _)
SubstituteStatements(body, bindings) ==
  LET expr(e) == SubstituteExpr(e, bindings)
      Substitute(stmt) ==
        CASE stmt.op \in {"let", "wait", "output"} -> [stmt EXCEPT !.value = expr(@)]
          [] stmt.op \in {"MoveJ", "MoveL"} -> [stmt EXCEPT !.target = expr(@)]
          [] stmt.op = "MoveC" -> [stmt EXCEPT !.via = expr(@), !.target = expr(@)]
          [] stmt.op = "if" ->
               [stmt EXCEPT !.cond = expr(@),
                            !.then = SubstituteStatements(@, bindings),
                            !.else = IF @ = NoElse THEN NoElse
                                     ELSE SubstituteStatements(@, bindings)]
          [] stmt.op = "call" -> [stmt EXCEPT !.args = [i \in DOMAIN @ |-> expr(@[i])]]
          [] stmt.op = "reactive" -> stmt
  IN  [i \in DOMAIN body |-> Substitute(body[i])]

\* Arguments are bound by name and no parameter may be without one; an argument
\* that names no parameter is substituted as well.
SpecializeWork(p, work, args) ==
  LET bindings == [n \in DOMAIN args |-> ValueToExpr(args[n])]
      params   == {p.works[work].params[i].name : i \in DOMAIN p.works[work].params}
      main     == [params |-> <<>>, body |-> SubstituteStatements(p.works[work].body, bindings)]
  IN  IF \/ work \notin DOMAIN p.works
         \/ \E n \in DOMAIN bindings : bindings[n] = Rejected
         \/ \E n \in params : n \notin DOMAIN bindings
      THEN Rejected
      ELSE [p EXCEPT !.functions = [f \in DOMAIN @ \cup {"main"} |->
                                      IF f = "main" THEN main ELSE @[f]]]
=============================================================================
