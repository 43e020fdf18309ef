---------------------------- MODULE ProcessCompiler ----------------------------
(***************************************************************************)
(* From the text of a process to the process a runtime holds               *)
(* (thalos-language-service, reactive_process.rs, compile_process).        *)
(*                                                                         *)
(* A document is a program with the names it imports (uses, in order), the *)
(* statements of main and its processes (name -> items, in order).  A      *)
(* process coordinates in truth values, compared for equality: numbers and *)
(* arithmetic are left out, and so are the bodies of works once accepted,  *)
(* for they are compiled again when one is requested (SpecializeWork).     *)
(***************************************************************************)
EXTENDS LanguageCompiler

CONSTANTS
  NoToken      \* a request without a token

\* RuntimeValue::from_constant of a truth value.
RuntimeConstant(value) == IF value = True THEN "true" ELSE "false"

\* A member of an imported node, or Rejected.
SignalKey(object, member, c) ==
  IF object \in DOMAIN c.aliases /\ <<c.aliases[object], member>> \in DOMAIN c.schema
  THEN <<c.aliases[object], member>> ELSE Rejected

Signal(key, c) ==
  IF key = Rejected THEN Rejected
  ELSE [kind |-> "signal", signal |-> c.schema[key].signal]

Binary(op, left, right) ==
  IF left = Rejected \/ right = Rejected THEN Rejected
  ELSE [kind |-> op, left |-> left, right |-> right]

\* A constant is known under its name wherever it occurs.
RECURSIVE ProcessExpr(_, _)
ProcessExpr(e, c) ==
  LET Of(value) ==
        CASE value # NoValue -> [kind |-> "const", value |-> RuntimeConstant(value)]
          [] value = NoValue /\ e.kind = "id" ->
               IF e.name \in c.states \cup c.locals
               THEN [kind |-> "ref", name |-> e.name] ELSE Rejected
          [] value = NoValue /\ e.kind = "member" ->
               Signal(SignalKey(e.object, e.member, c), c)
          [] value = NoValue /\ e.kind = "compare" ->
               Binary(e.op, ProcessExpr(e.left, c), ProcessExpr(e.right, c))
  IN  Of(EvalExpr(e, c.values))

\* Mutant: the else branch is lost.
ElseLost(stmt) == <<>>

\* No else branch and an empty one are alike to the runtime.
ElseOf(stmt) == IF stmt.else = NoElse THEN <<>> ELSE stmt.else

SetTo(name, value) ==
  IF value = Rejected THEN Rejected
  ELSE <<[op |-> "set", name |-> name, value |-> value]>>

Conditional(cond, then, else) ==
  IF cond = Rejected \/ then = Rejected \/ else = Rejected THEN Rejected
  ELSE <<[op |-> "if", cond |-> cond, then |-> then, else |-> else]>>

Requesting(stmt, args) ==
  IF \E i \in DOMAIN args : args[i].value = Rejected THEN Rejected
  ELSE <<[stmt EXCEPT !.args = args]>>

Joined(parts) ==
  IF \E i \in DOMAIN parts : parts[i] = Rejected THEN Rejected ELSE FlattenSeq(parts)

\* A physical operation stands in a work; a work holds no token and no local of
\* its own can be read.  The statements of a work that coordinate nothing are
\* accepted and kept for later.
RECURSIVE ProcessBlock(_, _, _)
ProcessBlock(body, scope, c) ==
  LET inWork == IF scope = "work" THEN <<>> ELSE Rejected
      Compile(stmt) ==
        CASE stmt.op = "assign" ->
               IF stmt.name \in c.states THEN SetTo(stmt.name, ProcessExpr(stmt.value, c))
               ELSE Rejected
          [] stmt.op = "request" ->
               IF scope = "work" /\ stmt.token # NoToken THEN Rejected
               ELSE Requesting(stmt, [i \in DOMAIN stmt.args |->
                                        [param |-> stmt.args[i].param,
                                         value |-> ProcessExpr(stmt.args[i].value, c)]])
          [] stmt.op = "if" ->
               Conditional(ProcessExpr(stmt.cond, c), ProcessBlock(stmt.then, scope, c),
                           ProcessBlock(ElseOf(stmt), scope, c))
          [] stmt.op = "output" ->
               IF EvalExpr(stmt.value, c.values) \in {True, False} THEN inWork ELSE Rejected
          [] stmt.op = "call" ->
               IF \A i \in DOMAIN stmt.args : ProcessExpr(stmt.args[i], c) # Rejected
               THEN inWork ELSE Rejected
          [] stmt.op \in {"MoveJ", "MoveL", "MoveC", "wait", "let"} -> inWork
          [] stmt.op = "start" -> Rejected
  IN  Joined([i \in DOMAIN body |-> Compile(body[i])])

-----------------------------------------------------------------------------
(* Tokens and events                                                       *)

\* Mutant: the tokens of else branches are forgotten.
ThenOnly(stmt) == stmt.then

BothBranches(stmt) == stmt.then \o ElseOf(stmt)

RECURSIVE StatementTokens(_)
StatementTokens(body) ==
  UNION {CASE body[i].op = "request" -> {body[i].token} \ {NoToken}
           [] body[i].op = "if" -> StatementTokens(BothBranches(body[i]))
           [] OTHER -> {} : i \in DOMAIN body}

\* A token is declared where it is requested.
ProcessTokens(items) ==
  UNION {StatementTokens(items[i].body) :
           i \in {j \in DOMAIN items : items[j].item # "state"}}

TokenEvents == {"admitted", "rejected", "completed", "failed", "unconfirmed", "busy"}

Level(expr) == IF expr = Rejected THEN Rejected ELSE [kind |-> "level", expr |-> expr]

Edge(kind, key, c) ==
  IF key = Rejected THEN Rejected
  ELSE IF c.schema[key].type # "bool" THEN Rejected
  ELSE [kind |-> kind, signal |-> c.schema[key].signal]

\* An edge is one of a truth value read from a node; a member of a token is an
\* outcome of what was requested.
CompileEvent(ev, c) ==
  CASE ev.kind = "level" /\ ev.expr.kind = "member" /\ ev.expr.object \in c.tokens ->
         IF ev.expr.member \in TokenEvents
         THEN [kind |-> "token", token |-> ev.expr.object, event |-> ev.expr.member]
         ELSE Rejected
    [] ev.kind # "level" /\ ev.expr.kind = "member" ->
         Edge(ev.kind, SignalKey(ev.expr.object, ev.expr.member, c), c)
    [] ev.kind # "level" /\ ev.expr.kind # "member" -> Rejected
    [] OTHER -> Level(ProcessExpr(ev.expr, c))

-----------------------------------------------------------------------------
(* Documents                                                               *)

\* Local names of the nodes imported; of two imports of a name the later holds.
Aliases(uses) ==
  [n \in {uses[i].local : i \in DOMAIN uses} |->
     uses[CHOOSE i \in DOMAIN uses :
            /\ uses[i].local = n
            /\ \A j \in DOMAIN uses : uses[j].local = n => j <= i].node]

\* Processes main starts.  The first is compiled.
Started(main) == SelectSeq(main, LAMBDA stmt : stmt.op = "start")

\* What the runtime starts with: a state whose initial value is no constant has
\* no value, and of two declarations of a state the later constant holds.
InitialValue(states, name) ==
  LET constants == SelectSeq(states, LAMBDA s : s.name = name /\ s.init.kind = "const")
  IN  IF constants = <<>> THEN "unknown" ELSE Last(constants).init.value

ItemsOf(items, kind) == SelectSeq(items, LAMBDA i : i.item = kind)

CompileStates(states, c) ==
  [i \in DOMAIN states |->
     [name |-> states[i].name, init |-> ProcessExpr(states[i].value, c)]]

CompileReactions(ons, c) ==
  [i \in DOMAIN ons |->
     [event |-> CompileEvent(ons[i].event, c), body |-> ProcessBlock(ons[i].body, "on", c)]]

CompileCycles(cycles, c) ==
  [i \in DOMAIN cycles |-> ProcessBlock(cycles[i].body, "cycle", c)]

\* The context of every expression: top-level constants, imported nodes, states
\* and tokens.
Context(d, items, values) ==
  [values |-> values, aliases |-> Aliases(d.uses), schema |-> d.schema,
   states |-> {items[i].name : i \in {j \in DOMAIN items : items[j].item = "state"}},
   tokens |-> ProcessTokens(items), locals |-> {}]

WorkAccepted(w, c) ==
  ProcessBlock(w.body, "work",
               [c EXCEPT !.locals = {w.params[i].name : i \in DOMAIN w.params}]) # Rejected

\* Of several cycles the last one stays.
Assembled(c, states, reactions, cycles) ==
  IF \/ \E i \in DOMAIN states : states[i].init = Rejected
     \/ \E i \in DOMAIN reactions :
          reactions[i].event = Rejected \/ reactions[i].body = Rejected
     \/ \E i \in DOMAIN cycles : cycles[i] = Rejected
  THEN Rejected
  ELSE [initial |-> [n \in c.states |-> InitialValue(states, n)],
        tokens |-> c.tokens,
        reactions |-> reactions,
        cycle |-> IF cycles = <<>> THEN <<>> ELSE Last(cycles)]

\* Every item and every work is compiled, whatever is wrong with another.
CompileItems(d, items, c) ==
  IF \/ \E i \in DOMAIN d.uses : ~KnowsModule(d.uses[i].node, d.schema)
     \/ c.tokens \cap (c.states \cup DOMAIN c.aliases) # {}
     \/ \E w \in DOMAIN d.works : ~WorkAccepted(d.works[w], c)
  THEN Rejected
  ELSE Assembled(c,
         CompileStates(ItemsOf(items, "state"), c),
         CompileReactions(ItemsOf(items, "on"), c),
         CompileCycles(ItemsOf(items, "cycle"), c))

CompileProcess(d) ==
  LET started == Started(d.main)
      symbols == PrepareSymbols(d)
      items == d.processes[started[1].process]
  IN  IF started = <<>> THEN Rejected
      ELSE IF started[1].process \notin DOMAIN d.processes \/ ~symbols.ok THEN Rejected
      ELSE CompileItems(d, items, Context(d, items, symbols.values))
=============================================================================
