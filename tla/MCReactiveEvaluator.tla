------------------------- MODULE MCReactiveEvaluator -------------------------
(***************************************************************************)
(* Programs of statements with up to two at top level and two in each      *)
(* branch of a conditional, one conditional nested in another, empty       *)
(* branches and absent ones; and programs of the language that are         *)
(* compiled: works with arguments, calls whose argument is a signal or a   *)
(* constant, conditions known and unknown, locals in branches, names used  *)
(* twice, and programs the checker or a back end refuses.                  *)
(***************************************************************************)
EXTENDS CompiledEvaluator

CONSTANTS box, go, stay

Sig(type) == [kind |-> "signal", signal |-> box, type |-> type]
Local == [kind |-> "local", name |-> "t"]
Const(v) == [kind |-> "const", value |-> v]
Than(op, l, r) == [kind |-> "compare", op |-> op, left |-> l, right |-> r]

Let(e) == [op |-> "let", name |-> "t", value |-> e]
Op(o) == [op |-> "operate", operation |-> o]
Await == [op |-> "await", signal |-> box]
If(c, then, else) == [op |-> "if", cond |-> c, then |-> then, else |-> else]

Conditions ==
  {Sig("bool"), Sig("int"), Than("gte", Local, Const(1)),
   Than("neq", Sig("float"), Local)}

Leaves == {<<>>, <<Op(go)>>, <<Await, Op(stay)>>, <<Let(Sig("float")), Op(go)>>}

Flat == {If(c, t, e) : c \in Conditions, t \in Leaves,
                       e \in {<<>>, <<Op(stay)>>, NoElse}}

Nested ==
  {If(Sig("bool"), <<f, Op(stay)>>, e) :
     f \in Flat, e \in {<<Op(go)>>, NoElse}}
  \cup {If(Sig("int"), t, <<Await, f>>) : f \in Flat, t \in {<<>>, <<Op(go)>>}}

HandMade ==
  {<<Let(Sig("float")), f>> : f \in Flat}
  \cup {<<f, Op(go)>> : f \in Nested}
  \cup {<<Let(Sig("int")), f>> : f \in Nested}

SmallReadings == {-2, 0, 1, 3}

-----------------------------------------------------------------------------
(* Programs of the language                                                *)

Id(name) == [kind |-> "id", name |-> name]
Num(v) == [kind |-> "number", v |-> v]
Bool(b) == [kind |-> "bool", v |-> Truth(b)]
At(v) == [kind |-> "position", v |-> v]
Seconds(v) == [kind |-> "duration", v |-> v]
Level == [kind |-> "member", object |-> "eye", member |-> "level"]

Bind(name, e) == [op |-> "let", name |-> name, value |-> e]
Move(e) == [op |-> "MoveJ", target |-> e]
Around(e) == [op |-> "MoveC", via |-> e, target |-> Id("home")]
Pause(e) == [op |-> "wait", value |-> e]
Set(e) == [op |-> "output", name |-> "grip", value |-> e]
Use(f, args) == [op |-> "call", callee |-> f, args |-> args]
When(c, then, else) == [op |-> "if", cond |-> c, then |-> then, else |-> else]

Item(name, e, target) == [name |-> name, value |-> e, target |-> target]
Param(name, type) == [name |-> name, type |-> type]

Items == <<Item("limit", Num(2), FALSE), Item("brief", Seconds(1), FALSE),
           Item("home", At(2), TRUE)>>

\* approach moves by the value it is given; settle binds a local and passes it on.
Functions ==
  [approach |->
     [params |-> <<Param("x", "Float")>>,
      body |-> <<When(Than("gte", Id("x"), Id("limit")),
                      <<Move(Id("home"))>>, <<Move(At(0))>>)>>],
   settle |->
     [params |-> <<Param("y", "Bool"), Param("u", "Float")>>,
      body |-> <<Bind("z", Id("u")),
                 When(Id("y"), <<Use("approach", <<Id("z")>>)>>, NoElse),
                 When(Than("lt", Id("z"), Num(0)), <<Pause(Id("brief"))>>, NoElse)>>]]

\* A work that may be hurried.
Serve(body) ==
  [params |-> <<Param("fast", "Bool"), Param("n", "Float")>>,
   body |-> <<When(Id("fast"), <<Set(Id("fast"))>>, <<Pause(Id("brief"))>>)>> \o body]

Schemas == {<<"lens", "level">> :> [signal |-> box, type |-> t] : t \in {"bool", "int", "float"}}

Text(main, schema) ==
  [program |-> [items |-> Items, aliases |-> [eye |-> "lens"], works |-> <<>>,
                functions |-> Functions @@ ("main" :> [params |-> <<>>, body |-> main])],
   schema |-> schema, start |-> "main", args |-> <<>>]

Request(body, args, schema) ==
  [program |-> [items |-> Items, aliases |-> [eye |-> "lens"],
                works |-> [serve |-> Serve(body)], functions |-> Functions],
   schema |-> schema, start |-> "serve", args |-> args]

Arguments ==
  {[fast |-> IF b THEN True ELSE False, n |-> Number(v)] : b \in BOOLEAN, v \in {1, 4}}
  \cup {[fast |-> True]}

\* A local w, or one with the name of approach's parameter, and what reads it.
Locals == {Bind(name, e) : name \in {"w", "x"}, e \in {Level, Num(3)}}

Uses(name) ==
  {<<Use("approach", <<Level>>),
     When(Than("gt", Id(name), Num(1)), <<Around(Id("home"))>>, <<Set(Bool(TRUE))>>)>>,
   <<Use("settle", <<Than("neq", Level, Id(name)), Id(name)>>), Use("approach", <<Num(4)>>)>>,
   <<When(Than("lte", Id(name), Level), <<Bind("k", Num(2)), Use("approach", <<Id("k")>>)>>,
          NoElse)>>,
   <<When(Than("lte", Id(name), Level), <<Bind("k", Num(2))>>, <<Bind("k", Level)>>),
     Use("approach", <<Id("k")>>)>>,
   <<Bind(name, Num(0)), Use("approach", <<Id(name)>>)>>}

Reactive ==
  UNION {{Text(<<l>> \o u, s) : u \in Uses(l.name)} : l \in Locals, s \in Schemas}

Requests ==
  {Request(<<Bind("w", Id("n")),
             When(Than("gt", Level, Id("w")), <<Use("settle", <<Id("fast"), Level>>)>>,
                  <<Use("approach", <<Id("n")>>)>>)>>, args, s) :
     args \in Arguments, s \in Schemas}

\* Statements that need no signal, in any order; some are refused.
Plainest ==
  {Bind("w", Num(1)), Bind("w", Id("limit")), Bind("limit", Num(4)), Move(Id("home")),
   Move(Id("w")), Set(Than("eq", Id("w"), Num(1))), Use("approach", <<Id("limit")>>),
   Use("settle", <<Than("gt", Id("w"), Num(1)), Num(-1)>>), Use("absent", <<>>),
   When(Than("gt", Id("limit"), Num(1)), <<Bind("w", Num(3))>>, <<Pause(Id("brief"))>>),
   When(Than("eq", Id("w"), Num(1)), <<Move(Id("home"))>>, <<Around(At(4)), Bind("w", Num(1))>>),
   When(Id("w"), <<Pause(Seconds(3))>>, <<Pause(Id("w"))>>),
   When(Bool(FALSE), <<Move(At(4))>>, NoElse)}

Texts ==
  Reactive \cup Requests
  \cup {Text(<<a, b, c>>, <<>>) : a, b, c \in Plainest}

-----------------------------------------------------------------------------
(* What programs are made of                                               *)

RECURSIVE Parts(_), Weight(_)
Parts(body) ==
  {body} \cup IF body = <<>> THEN {}
              ELSE Parts(Tail(body)) \cup UNION {Parts(b) : b \in BranchesOf(Head(body))}

\* A statement weighs one and what its branches weigh.
Weight(body) ==
  IF body = <<>> THEN 0
  ELSE 1 + Weight(Tail(body))
       + IF Head(body).op # "if" THEN 0
         ELSE Weight(Head(body).then)
              + IF Head(body).else = NoElse THEN 0 ELSE Weight(Head(body).else)

AllBodies == UNION {Parts(p) : p \in HandMade \cup {c.program : c \in Compilations}}
AllSizes == [body \in AllBodies |-> Weight(body)]

\* A definition that is the value of a constant TLC computes once and keeps; a
\* constant so defined it computes at every use.  With the first two as values of
\* these constants, the second two find them computed.
CONSTANTS ComputedBodies, ComputedSizes

KnownBodies == AllBodies
KnownSizes == AllSizes

=============================================================================
