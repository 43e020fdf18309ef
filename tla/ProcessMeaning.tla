---------------------------- MODULE ProcessMeaning ----------------------------
(***************************************************************************)
(* What one call of a process means, read off its text: every pending      *)
(* outcome that still speaks of a lease is told to the handlers of its     *)
(* token, then the handlers of observations run, top down, and a name is   *)
(* the state it stands for at that moment.  Nothing is resolved beforehand *)
(* and a call is one step: this is what compiler and runtime together are  *)
(* measured by.                                                            *)
(*                                                                         *)
(* A moment is the record [state, held, fresh, pending, last, said]: the   *)
(* states, the occurrence each token is held by, the next occurrence, the  *)
(* outcomes to be told, the last readings of the signals whose edges are   *)
(* handled, and the requests and refusals of the call.                     *)
(***************************************************************************)
EXTENDS SequencesExt, Naturals

CONSTANTS NoToken, NoOccurrence, NoElse

LOCAL Decided(b) == IF b THEN "true" ELSE "false"

Node(d, local) == d.uses[CHOOSE i \in DOMAIN d.uses : d.uses[i].local = local].node

IsImported(d, local) == \E i \in DOMAIN d.uses : d.uses[i].local = local

\* The channel a member of an imported node is read from.
Channel(d, e) == d.schema[<<Node(d, e.object), e.member>>].signal

Items(d, kind) ==
  SelectSeq(d.processes[Head(SelectSeq(d.main, LAMBDA s : s.op = "start")).process],
            LAMBDA i : i.item = kind)

\* A reading that is missing decides nothing.
RECURSIVE Says(_, _, _, _)
Says(e, moment, o, d) ==
  CASE e.kind = "bool" -> Decided(e.v # 0)
    [] e.kind = "id" ->
         IF e.name \in DOMAIN moment.state THEN moment.state[e.name]
         ELSE Says(d.items[CHOOSE i \in DOMAIN d.items : d.items[i].name = e.name].value,
                   moment, o, d)
    [] e.kind = "member" ->
         IF o[Channel(d, e)] = "absent" THEN "unknown" ELSE o[Channel(d, e)]
    [] e.kind = "compare" ->
         LET l == Says(e.left, moment, o, d)
             r == Says(e.right, moment, o, d)
         IN  IF l = "unknown" \/ r = "unknown" THEN "unknown"
             ELSE Decided(IF e.op = "eq" THEN l = r ELSE l # r)

RECURSIVE Does(_, _, _, _)
Does(body, start, o, d) ==
  LET Do(moment, stmt) ==
        LET says(e) == Says(e, moment, o, d)
            n == moment.fresh
            t == stmt.token
        IN  CASE stmt.op = "assign" ->
                   [moment EXCEPT !.state[stmt.name] = says(stmt.value)]
              [] stmt.op = "if" ->
                   IF says(stmt.cond) = "true" THEN Does(stmt.then, moment, o, d)
                   ELSE IF stmt.else = NoElse THEN moment ELSE Does(stmt.else, moment, o, d)
              [] stmt.op = "request" ->
                   LET asks == [kind |-> "request", work |-> stmt.work,
                                args |-> [i \in DOMAIN stmt.args |->
                                            [param |-> stmt.args[i].param,
                                             value |-> says(stmt.args[i].value)]],
                                token |-> t, occurrence |-> n]
                       refusal == [kind |-> "busy", token |-> t, occurrence |-> n]
                       next == [moment EXCEPT !.fresh = n + 1]
                   IN  CASE t = NoToken -> [next EXCEPT !.said = Append(@, asks)]
                         [] t # NoToken /\ moment.held[t] = NoOccurrence ->
                              [next EXCEPT !.said = Append(@, asks), !.held[t] = n]
                         [] OTHER ->
                              [next EXCEPT
                                 !.said = Append(@, refusal),
                                 !.pending = Append(@, [token |-> t, occurrence |-> n,
                                                        outcome |-> "busy"])]
  IN  FoldLeft(Do, start, body)

\* A handler's header: a member of what is not imported is an outcome.
IsOutcome(header, d) ==
  header.kind = "level" /\ header.expr.kind = "member"
    /\ ~IsImported(d, header.expr.object)

Fires(header, moment, o, d) ==
  CASE header.kind = "rising" ->
         moment.last[Channel(d, header.expr)] = "false" /\ Says(header.expr, moment, o, d) = "true"
    [] header.kind = "falling" ->
         moment.last[Channel(d, header.expr)] = "true" /\ Says(header.expr, moment, o, d) = "false"
    [] header.kind = "level" -> Says(header.expr, moment, o, d) = "true"

\* An outcome ends the lease it speaks of, unless it only says that the request
\* was admitted; of a lease that is over it is not told any more.
Told(start, p, o, d) ==
  LET ends == [start EXCEPT !.held[p.token] = NoOccurrence]
      heard == IF p.outcome \in {"busy", "admitted"} THEN start ELSE ends
      Tell(moment, on) ==
        IF /\ IsOutcome(on.event, d)
           /\ on.event.expr.object = p.token /\ on.event.expr.member = p.outcome
        THEN Does(on.body, moment, o, d) ELSE moment
  IN  IF p.outcome # "busy" /\ start.held[p.token] # p.occurrence THEN start
      ELSE FoldLeft(Tell, heard, Items(d, "on"))

MeansTick(start, o, d) ==
  LET told == FoldLeft(LAMBDA moment, p : Told(moment, p, o, d),
                       [start EXCEPT !.pending = <<>>], start.pending)
      Watch(moment, on) ==
        IF IsOutcome(on.event, d) \/ ~Fires(on.event, moment, o, d) THEN moment
        ELSE Does(on.body, moment, o, d)
      watched == FoldLeft(Watch, told, Items(d, "on"))
      edges == {Channel(d, on.event.expr) :
                  on \in {i \in Range(Items(d, "on")) : i.event.kind # "level"}}
  IN  [watched EXCEPT !.last = [s \in DOMAIN @ |->
                                  IF s \in edges /\ o[s] # "absent" THEN o[s] ELSE @[s]]]

MeansCycle(start, o, d) == Does(Last(Items(d, "cycle")).body, start, o, d)
=============================================================================
