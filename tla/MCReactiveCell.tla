--------------------------- MODULE MCReactiveCell ---------------------------
(***************************************************************************)
(* Two processes beside an arbiter with room for one waiting job.  One     *)
(* asks for placing and probing work on the edges of a sensor, retries a   *)
(* placement that ended while another was wanted, and keeps a background   *)
(* cycle.  The other follows the level of the sensor in a state that has   *)
(* no value at first.  Beside them a process in which a constant hides a   *)
(* state, whose token is requested in an else branch only and never heard, *)
(* and texts that are no process.                                          *)
(***************************************************************************)
EXTENDS CompiledCell, TLC

CONSTANTS place, probe, box, again, seen, put, look, careful

MCTokens == {place, probe}
MCSignals == {box}
MCStateNames == {again, seen}

-----------------------------------------------------------------------------
(* Statements of a text                                                     *)

Id(n) == [kind |-> "id", name |-> n]
Bool(b) == [kind |-> "bool", v |-> IF b THEN 1 ELSE 0]
Member(o, m) == [kind |-> "member", object |-> o, member |-> m]
Than(op, l, r) == [kind |-> "compare", op |-> op, left |-> l, right |-> r]

Assign(n, e) == [op |-> "assign", name |-> n, value |-> e]
Ask(w, e, t) ==
  [op |-> "request", work |-> w, args |-> <<[param |-> careful, value |-> e]>>, token |-> t]
When(c, then, else) == [op |-> "if", cond |-> c, then |-> then, else |-> else]
Begin(p) == [op |-> "start", process |-> p]
Wait == [op |-> "wait", value |-> [kind |-> "duration", v |-> 1]]
Let(n, e) == [op |-> "let", name |-> n, value |-> e]
Grip(e) == [op |-> "output", name |-> "grip", value |-> e]

State(n, e) == [item |-> "state", name |-> n, value |-> e]
On(kind, e, body) == [item |-> "on", event |-> [kind |-> kind, expr |-> e], body |-> body]
Background(body) == [item |-> "cycle", body |-> body]

Schema == <<"lens", "box">> :> [signal |-> box, type |-> "bool"]
            @@ <<"lens", "size">> :> [signal |-> box, type |-> "float"]

Import(node, local) == [node |-> node, local |-> local]
Constant(n, e) == [name |-> n, value |-> e, target |-> FALSE]
Work(body) == [params |-> <<[name |-> careful, type |-> "Bool"]>>, body |-> body]

Document(items, uses, process) ==
  [items |-> items, uses |-> uses, main |-> <<Wait, Begin("tend"), Begin("none")>>,
   works |-> [put |-> Work(<<Grip(Bool(TRUE)), When(Id(careful), <<Wait>>, NoElse),
                             Ask(look, Id(careful), NoToken)>>)],
   processes |-> [tend |-> process, idle |-> <<>>], schema |-> Schema]

-----------------------------------------------------------------------------
(* The processes of the cell                                                *)

Retry == <<Assign(again, Bool(FALSE)), Ask(put, Id(again), place)>>

Tend ==
  Document(<<Constant("wanted", Bool(TRUE))>>, <<Import("lens", "eye")>>,
    << State(again, Bool(FALSE)),
       On("rising", Member("eye", "box"), <<Ask(put, Id(again), place)>>),
       On("falling", Member("eye", "box"), <<Ask(look, Id("wanted"), probe)>>),
       On("level", Member(place, "busy"), <<Assign(again, Id("wanted"))>>),
       On("level", Member(place, "completed"),
          <<When(Than("neq", Id(again), Id("wanted")), <<>>, Retry)>>),
       On("level", Member(place, "rejected"), <<When(Id(again), Retry, NoElse)>>),
       Background(<<Ask(put, Bool(TRUE), NoToken), Ask(look, Bool(FALSE), probe)>>) >>)

Watch ==
  Document(<<>>, <<Import("lens", "eye"), Import("lens", "ear")>>,
    << Background(<<Ask(put, Bool(TRUE), place)>>),
       State(seen, Id(again)), State(again, Bool(FALSE)), State(again, Bool(TRUE)),
       On("rising", Member("ear", "box"),
          <<When(Id(seen), <<Assign(again, Member("ear", "box"))>>,
                 <<Ask(look, Than("neq", Member("eye", "box"), Id(again)), probe)>>)>>),
       On("level", Than("eq", Member("eye", "box"), Id(again)),
          <<Assign(seen, Member("eye", "box"))>>),
       On("level", Member(probe, "admitted"), <<Assign(again, Than("neq", Id(again), Id(seen)))>>),
       On("level", Member(probe, "failed"), <<Assign(seen, Bool(TRUE))>>),
       Background(<<Ask(look, Id(seen), NoToken)>>) >>)

Hidden ==
  Document(<<Constant(again, Bool(TRUE))>>, <<Import("lens", "eye")>>,
    << State(again, Bool(FALSE)),
       On("rising", Member("eye", "box"),
          <<When(Than("neq", Member("eye", "box"), Id(again)), <<>>,
                 <<Ask(put, Id(again), place)>>)>>),
       On("falling", Member("eye", "box"), <<Assign(again, Bool(TRUE))>>) >>)

-----------------------------------------------------------------------------
(* Texts that are no process                                                *)

With(item) == [Tend EXCEPT !.processes.tend = Append(@, item)]
Handling(stmt) == With(On("rising", Member("eye", "box"), <<stmt>>))
Working(body) == [Tend EXCEPT !.works = ("put" :> Work(body))]

Refused ==
  {Handling(stmt) : stmt \in
     {Assign("odd", Bool(TRUE)), Assign(again, Id("odd")), Assign(again, Member("odd", "box")),
      Ask(look, Id("odd"), probe), Ask(look, Id(again), again), Ask(look, Id(again), "eye"),
      Grip(Bool(TRUE)), Let("odd", Bool(TRUE)), Wait,
      [op |-> "call", callee |-> "move", args |-> <<>>],
      When(Id(again), <<Begin("tend")>>, NoElse), When(Id("odd"), <<>>, NoElse)}}
  \cup {With(item) : item \in
     {State("odd", Id("even")), Background(<<Assign("odd", Bool(TRUE))>>),
      On("rising", Member("eye", "size"), <<>>), On("falling", Id(again), <<>>),
      On("level", Member(place, "over"), <<>>), On("level", Member("odd", "busy"), <<>>)}}
  \cup {Working(body) : body \in
     {<<Ask(look, Id(careful), probe)>>, <<Grip(Id(careful))>>,
      <<Let("odd", Bool(TRUE)), When(Id("odd"), <<>>, NoElse)>>}}
  \cup {[Tend EXCEPT !.uses = <<Import("ear", "eye")>>],
        [Tend EXCEPT !.main = <<Wait>>],
        [Tend EXCEPT !.main = <<Begin("none"), Begin("tend")>>],
        [Tend EXCEPT !.items = <<Constant("wanted", Id("odd"))>>]}

MCDocuments == {Tend, Watch, Hidden} \cup Refused

RECURSIVE Within(_)
Within(body) ==
  UNION {IF body[i].op = "if" THEN {body[i]} \cup Within(body[i].then \o body[i].else)
         ELSE {body[i]} : i \in DOMAIN body}

MCPrograms == {c.process : c \in Accepted}

MCStmtsOf ==
  [p \in MCPrograms |->
     Within(p.cycle) \cup UNION {Within(p.reactions[i].body) : i \in DOMAIN p.reactions}]

MCStmts == UNION {MCStmtsOf[p] : p \in MCPrograms}
=============================================================================
