-------------------------- MODULE MCProcessRuntime --------------------------
(***************************************************************************)
(* A palletising process with two tokens, small enough to explore under a  *)
(* host that delivers any outcome to any occurrence at any time.           *)
(***************************************************************************)
EXTENDS EdgeMonitor

CONSTANTS place, probe, box, admitting, again, put, look, careful

MCTokens == {place, probe}
MCSignals == {box}
MCStateNames == {admitting, again}

Const(v) == [kind |-> "const", value |-> v]
Ref(n) == [kind |-> "ref", name |-> n]
Sig(s) == [kind |-> "signal", signal |-> s]
Set(n, v) == [op |-> "set", name |-> n, value |-> v]
Req(t) ==
  [op |-> "request", work |-> IF t = probe THEN look ELSE put,
   args |-> <<[param |-> careful, value |-> Ref(again)]>>, token |-> t]
If(c, a, b) == [op |-> "if", cond |-> c, then |-> a, else |-> b]
On(ev, body) == [event |-> ev, body |-> body]
Tok(t, e) == [kind |-> "token", token |-> t, event |-> e]

RequestIfFree == If(Ref(admitting), <<Req(place)>>, <<Set(again, Const("true"))>>)
Retry == If([kind |-> "eq", left |-> Ref(again), right |-> Const("true")],
            <<Set(again, Const("false")), Req(place)>>, <<>>)

Handlers ==
  << On([kind |-> "rising", signal |-> box], <<RequestIfFree>>),
     On([kind |-> "falling", signal |-> box], <<Req(probe)>>),
     On([kind |-> "level", expr |-> Ref(again)], <<Set(admitting, Sig(box))>>),
     On(Tok(place, "completed"), <<Retry>>),
     On(Tok(place, "busy"), <<Set(again, Const("true"))>>),
     On(Tok(probe, "admitted"), <<Req(NoToken)>>) >>

Palletise ==
  [initial |-> [n \in MCStateNames |-> IF n = admitting THEN "true" ELSE "false"],
   tokens |-> MCTokens, reactions |-> Handlers, cycle |-> <<Req(probe)>>]

MCPrograms == {Palletise}

MCStmts ==
  {RequestIfFree, Retry, Req(place), Req(probe), Req(NoToken),
   Set(again, Const("true")), Set(again, Const("false")), Set(admitting, Sig(box))}
=============================================================================
