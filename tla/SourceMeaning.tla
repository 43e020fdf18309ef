---------------------------- MODULE SourceMeaning ----------------------------
(***************************************************************************)
(* What a program of the language means, read off its text: calls open a   *)
(* frame with the values of their arguments, names are those of the        *)
(* function they stand in, and every condition is evaluated when it is     *)
(* reached, against the observations of that moment.  Nothing is folded,   *)
(* inlined or flattened: this is what the compiler is measured by.         *)
(*                                                                         *)
(* A source is a program with its signals and where it starts: the main    *)
(* function, or a work with its arguments (name -> value).                 *)
(***************************************************************************)
EXTENDS LanguageBackEnds

StartsAt(s) ==
  IF s.start = "main" THEN s.program.functions["main"] ELSE s.program.works[s.start]

Constants(s) == PrepareSymbols(s.program).values

RECURSIVE Meaning(_, _, _, _)
Meaning(e, env, o, s) ==
  CASE e.kind \in {"number", "bool", "duration", "position"} -> e.v
    [] e.kind = "id" -> IF e.name \in DOMAIN env THEN env[e.name]
                        ELSE IF e.name \in DOMAIN Constants(s) THEN Constants(s)[e.name].v
                        ELSE Unknown
    [] e.kind = "member" ->
         ReadSignal(s.schema[<<ModuleOf(e.object, s.program.aliases), e.member>>], o)
    [] e.kind = "compare" ->
         Compare(e.op, Meaning(e.left, env, o, s), Meaning(e.right, env, o, s))

Frame(f, values) ==
  [env |-> [n \in {f.params[i].name : i \in DOMAIN f.params} |->
              values[CHOOSE i \in DOMAIN f.params : f.params[i].name = n]],
   rest |-> f.body]

\* The innermost call stands first.
FirstFrames(s) ==
  LET f == StartsAt(s)
  IN  <<Frame(f, [i \in DOMAIN f.params |-> s.args[f.params[i].name].v])>>

\* Runs on to the next operation.
RECURSIVE Advance(_, _, _)
Advance(frames, o, s) ==
  IF frames = <<>> THEN [frames |-> <<>>, said |-> Completed]
  ELSE IF frames[1].rest = <<>> THEN Advance(Tail(frames), o, s)
  ELSE LET stmt == Head(frames[1].rest)
           after == [frames EXCEPT ![1].rest = Tail(@)]
           value(e) == Meaning(e, frames[1].env, o, s)
           says(operation) == [frames |-> after, said |-> operation]
       IN  CASE stmt.op = "let" ->
                  Advance([after EXCEPT ![1].env = Extend(@, stmt.name, value(stmt.value))], o, s)
             [] stmt.op = "if" ->
                  LET branch == IF Holds(value(stmt.cond)) THEN stmt.then
                                ELSE IF stmt.else = NoElse THEN <<>> ELSE stmt.else
                  IN  Advance([after EXCEPT ![1].rest = branch \o @], o, s)
             [] stmt.op = "call" ->
                  LET values == [i \in DOMAIN stmt.args |-> value(stmt.args[i])]
                  IN  Advance(<<Frame(s.program.functions[stmt.callee], values)>> \o after, o, s)
             [] stmt.op \in {"MoveJ", "MoveL"} ->
                  says([do |-> stmt.op, via |-> NoValue, target |-> value(stmt.target)])
             [] stmt.op = "MoveC" ->
                  says([do |-> "MoveC", via |-> Value("Position", value(stmt.via)),
                        target |-> value(stmt.target)])
             [] stmt.op = "wait" -> says([do |-> "Wait", seconds |-> value(stmt.value)])
             [] stmt.op = "output" ->
                  says([do |-> "SetOutput", name |-> stmt.name, value |-> Holds(value(stmt.value))])

-----------------------------------------------------------------------------
(* Programs whose names mean one thing each                                *)

\* Statements of a body, those in its branches included.
RECURSIVE Statements(_)
Statements(body) ==
  UNION {LET stmt == body[i]
         IN  {stmt} \cup (IF stmt.op # "if" THEN {}
                          ELSE Statements(stmt.then)
                               \cup IF stmt.else = NoElse THEN {} ELSE Statements(stmt.else)) :
           i \in DOMAIN body}

\* Names the lets of a body bind, as often as they bind them.
RECURSIVE LetNames(_)
LetNames(body) ==
  LET names(stmt) ==
        CASE stmt.op = "let" -> <<stmt.name>>
          [] stmt.op = "if" -> LetNames(stmt.then)
                               \o IF stmt.else = NoElse THEN <<>> ELSE LetNames(stmt.else)
          [] OTHER -> <<>>
  IN  FoldLeft(LAMBDA found, stmt : found \o names(stmt), <<>>, body)

BoundNames(f) == [i \in DOMAIN f.params |-> f.params[i].name] \o LetNames(f.body)

RECURSIVE NamesIn(_)
NamesIn(e) ==
  CASE e.kind = "id" -> {e.name}
    [] e.kind = "compare" -> NamesIn(e.left) \cup NamesIn(e.right)
    [] OTHER -> {}

NamesRead(body) ==
  UNION {CASE stmt.op \in {"let", "wait", "output"} -> NamesIn(stmt.value)
           [] stmt.op \in {"MoveJ", "MoveL"} -> NamesIn(stmt.target)
           [] stmt.op = "MoveC" -> NamesIn(stmt.via) \cup NamesIn(stmt.target)
           [] stmt.op = "if" -> NamesIn(stmt.cond)
           [] stmt.op = "call" -> UNION {NamesIn(stmt.args[i]) : i \in DOMAIN stmt.args}
           [] OTHER -> {} : stmt \in Statements(body)}

\* What a branch binds is read in that branch only.
RECURSIVE Confined(_)
Confined(body) ==
  \A i \in DOMAIN body :
    body[i].op = "if" =>
      LET then == body[i].then
          else == IF body[i].else = NoElse THEN <<>> ELSE body[i].else
          behind == SubSeq(body, i + 1, Len(body))
      IN  /\ Confined(then) /\ Confined(else)
          /\ Range(LetNames(then)) \cap NamesRead(else \o behind) = {}
          /\ Range(LetNames(else)) \cap NamesRead(then \o behind) = {}

\* Each name is bound once in the whole program, and stays in its branch.
WellScoped(s) ==
  LET p == s.program
      bodies == {p.functions[f] : f \in DOMAIN p.functions} \cup {StartsAt(s)}
      taken == {p.items[i].name : i \in DOMAIN p.items} \cup DOMAIN p.aliases
               \cup {key[1] : key \in DOMAIN s.schema}
  IN  /\ \A f \in bodies : /\ IsInjective(BoundNames(f))
                           /\ Range(BoundNames(f)) \cap taken = {}
                           /\ Confined(f.body)
      /\ \A f, g \in bodies :
           f # g => Range(BoundNames(f)) \cap Range(BoundNames(g)) = {}

\* Outputs and via points are constants once the arguments are in place.
ConstantOutputs(p) ==
  LET values == PrepareSymbols(p).values
      constant(e, of) == EvalExpr(e, values) # NoValue /\ EvalExpr(e, values).type = of
  IN  \A f \in DOMAIN p.functions : \A stmt \in Statements(p.functions[f].body) :
        /\ stmt.op = "output" => constant(stmt.value, "Bool")
        /\ stmt.op = "MoveC" => constant(stmt.via, "Position")
=============================================================================
