--------------------------- MODULE LanguageCompiler ---------------------------
(***************************************************************************)
(* From the syntax tree of a program to what runs (thalos-language-service):*)
(* symbols and types (compiler.rs, checker.rs), semantic statements        *)
(* (compiler.rs), and then one of two back ends: statements for the        *)
(* reactive evaluator, with constants folded and calls inlined             *)
(* (reactive.rs), or the flat list of operations that is planned           *)
(* (resolver.rs).  A work becomes a program by substitution                *)
(* (reactive_process.rs).                                                  *)
(*                                                                         *)
(* A program is a record: items (constants and targets, in order), aliases *)
(* (local name -> module), functions and works (name -> parameters and     *)
(* body).  Expressions are literals, names, members and comparisons;       *)
(* arithmetic, geometry, functions that return a value and named arguments *)
(* are left out.                                                           *)
(***************************************************************************)
EXTENDS ReactiveProgram, SequencesExt

CONSTANTS
  NoValue,     \* not a compile-time constant
  Rejected     \* the program has errors

Value(type, v) == [type |-> type, v |-> v]

Number(v) == Value(IF v % Scale = 0 THEN "Int" ELSE "Float", v)

True == Value("Bool", Truth(TRUE))
False == Value("Bool", Truth(FALSE))

IsNumber(type) == type \in {"Int", "Float"}

\* Types a comparison accepts; a truth value can only be equal or not.
Comparable(op, l, r) ==
  \/ IsNumber(l) /\ IsNumber(r)
  \/ l = "Duration" /\ r = "Duration"
  \/ l = "Bool" /\ r = "Bool" /\ op \in {"eq", "neq"}

BinaryValue(op, l, r) ==
  IF NoValue \in {l, r} THEN NoValue
  ELSE IF Comparable(op, l.type, r.type) THEN Value("Bool", Compare(op, l.v, r.v))
  ELSE NoValue

-----------------------------------------------------------------------------
(* Symbols and types                                                       *)

\* A name declared at top level has its value wherever it occurs, whatever a
\* parameter or a local of that name is bound to.
RECURSIVE EvalExpr(_, _)
EvalExpr(e, values) ==
  CASE e.kind = "number" -> Number(e.v)
    [] e.kind = "bool" -> Value("Bool", e.v)
    [] e.kind = "duration" -> Value("Duration", e.v)
    [] e.kind = "position" -> Value("Position", e.v)
    [] e.kind = "id" /\ e.name \in DOMAIN values -> values[e.name]
    [] e.kind = "compare" ->
         BinaryValue(e.op, EvalExpr(e.left, values), EvalExpr(e.right, values))
    [] OTHER -> NoValue

\* Declarations are evaluated in order; one may use those before it.
Declared(symbols, item) ==
  LET value == EvalExpr(item.value, symbols.values)
      ok    == value # NoValue /\ (item.target => value.type = "Position")
  IN  [values |-> IF ok THEN [n \in DOMAIN symbols.values \cup {item.name} |->
                                IF n = item.name THEN value ELSE symbols.values[n]]
                  ELSE symbols.values,
       targets |-> IF ok /\ item.target THEN symbols.targets \cup {item.name}
                   ELSE symbols.targets,
       ok |-> symbols.ok /\ ok]

PrepareSymbols(p) ==
  FoldLeft(Declared, [values |-> <<>>, targets |-> {}, ok |-> TRUE], p.items)

\* Node a local name stands for; a name that is no alias names the node itself.
ModuleOf(name, aliases) == IF name \in DOMAIN aliases THEN aliases[name] ELSE name

KnowsModule(module, schema) == \E key \in DOMAIN schema : key[1] = module

TypeName == [bool |-> "Bool", int |-> "Int", float |-> "Float"]

\* A member of a signal node is read with the type its schema declares.
RECURSIVE InferExpr(_, _, _)
InferExpr(e, scope, c) ==
  CASE e.kind \in {"number", "bool", "duration", "position"} -> EvalExpr(e, <<>>).type
    [] e.kind = "id" ->
         IF e.name \in DOMAIN scope THEN scope[e.name]
         ELSE IF e.name \in DOMAIN c.values THEN c.values[e.name].type ELSE "Error"
    [] e.kind = "compare" ->
         IF Comparable(e.op, InferExpr(e.left, scope, c), InferExpr(e.right, scope, c))
         THEN "Bool" ELSE "Error"
    [] e.kind = "member" ->
         LET key == <<ModuleOf(e.object, c.aliases), e.member>>
         IN  IF key \in DOMAIN c.schema THEN TypeName[c.schema[key].type] ELSE "Error"

Accepts(expected, actual) ==
  expected = actual \/ (expected = "Float" /\ actual = "Int")

\* A local is declared in the scope of its function, whichever branch it stands
\* in; of two declarations of a name the first gives the type.  Outputs and the
\* statements of processes are not checked.
RECURSIVE CheckBlock(_, _, _)
CheckBlock(body, checked, c) ==
  LET CheckStatement(s, stmt) ==
        LET type(e) == InferExpr(e, s.scope, c)
            expects(T) == [s EXCEPT !.ok = @ /\ T]
        IN  CASE stmt.op = "let" ->
                   [scope |-> [n \in DOMAIN s.scope \cup {stmt.name} |->
                                 IF n \in DOMAIN s.scope THEN s.scope[n] ELSE type(stmt.value)],
                    ok |-> s.ok /\ type(stmt.value) # "Error"]
              [] stmt.op \in {"MoveJ", "MoveL"} -> expects(type(stmt.target) = "Position")
              [] stmt.op = "wait" -> expects(type(stmt.value) = "Duration")
              [] stmt.op = "if" ->
                   LET then == CheckBlock(stmt.then, expects(type(stmt.cond) = "Bool"), c)
                   IN  IF stmt.else = NoElse THEN then ELSE CheckBlock(stmt.else, then, c)
              [] stmt.op = "call" ->
                   expects(/\ stmt.callee \in DOMAIN c.functions
                           /\ stmt.callee \notin DOMAIN s.scope
                           /\ LET params == c.functions[stmt.callee].params
                              IN  /\ Len(params) = Len(stmt.args)
                                  /\ \A i \in DOMAIN params :
                                       Accepts(params[i].type, type(stmt.args[i])))
              [] OTHER -> s
  IN  FoldLeft(CheckStatement, checked, body)

Checks(f, c) ==
  LET params == [n \in {f.params[i].name : i \in DOMAIN f.params} |->
                   f.params[CHOOSE i \in DOMAIN f.params : f.params[i].name = n].type]
  IN  CheckBlock(f.body, [scope |-> params, ok |-> TRUE], c).ok

-----------------------------------------------------------------------------
(* Semantic statements                                                     *)

\* What a name refers to; a name bound by nothing is taken for a target.
Reference(name, params, locals) ==
  [kind |-> CASE name \in params -> "param"
              [] name \notin params /\ name \in locals -> "local"
              [] OTHER -> "target",
   name |-> name]

RECURSIVE LowerExpr(_, _, _, _)
LowerExpr(e, params, locals, c) ==
  LET value == EvalExpr(e, c.values)
  IN  CASE value # NoValue -> [kind |-> "value", value |-> value]
        [] value = NoValue /\ e.kind = "id" -> Reference(e.name, params, locals)
        [] value = NoValue /\ e.kind = "compare" ->
             [e EXCEPT !.left = LowerExpr(@, params, locals, c),
                       !.right = LowerExpr(@, params, locals, c)]
        [] value = NoValue /\ e.kind = "member" ->
             [kind |-> "access", member |-> e.member,
              object |-> LowerExpr([kind |-> "id", name |-> e.object], params, locals, c)]

\* A member of something bound by nothing is read from a signal node, when the
\* schema has that channel.
RECURSIVE RewriteAccess(_, _)
RewriteAccess(x, c) ==
  CASE x.kind = "access" /\ x.object.kind = "target" ->
         LET key == <<ModuleOf(x.object.name, c.aliases), x.member>>
         IN  IF key \in DOMAIN c.schema THEN [kind |-> "channel", key |-> key] ELSE x
    [] x.kind = "compare" ->
         [x EXCEPT !.left = RewriteAccess(@, c), !.right = RewriteAccess(@, c)]
    [] OTHER -> x

\* A value that is no constant truth value is taken for FALSE, a via point that
\* is no constant for the origin.
ConstantOutput(e, c) ==
  LET value == EvalExpr(e, c.values)
  IN  IF value \in {True, False} THEN value ELSE False

ConstantVia(e, c) ==
  LET value == EvalExpr(e, c.values)
  IN  IF value # NoValue /\ value.type = "Position" THEN value ELSE Value("Position", 0)

\* The locals declared so far are one list for the whole function.  Statements
\* of processes become calls of functions no program declares.
RECURSIVE LowerBlock(_, _, _, _)
LowerBlock(body, params, locals, c) ==
  LET LowerStatement(s, stmt) ==
        LET expr(e, names) == RewriteAccess(LowerExpr(e, params, names, c), c)
            add(lowered) == [s EXCEPT !.code = Append(@, lowered)]
        IN  CASE stmt.op = "let" ->
                   LET names == s.locals \cup {stmt.name}
                   IN  [locals |-> names,
                        code |-> Append(s.code,
                                        [stmt EXCEPT !.value = expr(@, names)])]
              [] stmt.op \in {"MoveJ", "MoveL"} ->
                   add([op |-> "move", kind |-> stmt.op, via |-> NoValue,
                        target |-> expr(stmt.target, s.locals)])
              [] stmt.op = "MoveC" ->
                   add([op |-> "move", kind |-> "MoveC", via |-> ConstantVia(stmt.via, c),
                        target |-> expr(stmt.target, s.locals)])
              [] stmt.op = "wait" -> add([stmt EXCEPT !.value = expr(@, s.locals)])
              [] stmt.op = "output" -> add([stmt EXCEPT !.value = ConstantOutput(@, c)])
              [] stmt.op = "if" ->
                   LET then == LowerBlock(stmt.then, params, s.locals, c)
                       else == IF stmt.else = NoElse THEN [then EXCEPT !.code = NoElse]
                               ELSE LowerBlock(stmt.else, params, then.locals, c)
                   IN  [locals |-> else.locals,
                        code |-> Append(s.code, [op |-> "if", cond |-> expr(stmt.cond, s.locals),
                                                 then |-> then.code, else |-> else.code])]
              [] stmt.op = "call" ->
                   add([stmt EXCEPT !.args = [i \in DOMAIN @ |-> expr(@[i], s.locals)]])
              [] stmt.op = "reactive" -> add([op |-> "call", callee |-> "request::", args |-> <<>>])
  IN  FoldLeft(LowerStatement, [locals |-> locals, code |-> <<>>], body)

LowerFunction(f, c) ==
  LET params == [i \in DOMAIN f.params |-> f.params[i].name]
  IN  [params |-> params, body |-> LowerBlock(f.body, Range(params), {}, c).code]

\* Everything is checked before anything is lowered.
CompileProgram(p, schema) ==
  LET symbols == PrepareSymbols(p)
      c == [values |-> symbols.values, aliases |-> p.aliases, schema |-> schema,
            functions |-> p.functions]
      ok == symbols.ok /\ \A f \in DOMAIN p.functions : Checks(p.functions[f], c)
  IN  IF ~ok THEN Rejected
      ELSE [functions |-> [f \in DOMAIN p.functions |-> LowerFunction(p.functions[f], c)],
            targets |-> [t \in symbols.targets |-> symbols.values[t]],
            schema |-> schema]
=============================================================================
