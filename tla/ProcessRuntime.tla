--------------------------- MODULE ProcessRuntime ---------------------------
(***************************************************************************)
(* The runtime of a reactive process (thalos-language-service,             *)
(* reactive_process.rs).  A compiled process owns coordination state, the  *)
(* edge memory of its signals and one occurrence slot per request token.   *)
(* The host delivers outcomes of requested work at any time; they are      *)
(* queued and drained first in first out by the next control tick, which   *)
(* then evaluates the observation reactions and records the edges.         *)
(*                                                                         *)
(* `tick` and `run_cycle` hold `&mut self`, so nothing else runs until     *)
(* they return.  They are unfolded here along the code's own loops: one    *)
(* step per drained outcome, per reaction evaluated and per statement      *)
(* executed, in the code's order and without a choice between them.  The   *)
(* variable phase says where the call stands; the host acts only in phase  *)
(* "idle".  Invariants therefore also hold between the statements of a     *)
(* tick, and a reader sees which of them frees or takes a token.           *)
(***************************************************************************)
EXTENDS Naturals, Sequences

CONSTANTS
  Tokens,         \* names of request tokens
  NoToken,        \* a request without a token
  NoOccurrence,   \* TokenSlot { current: None }
  Signals,        \* Boolean channels the process observes
  StateNames,     \* coordination states
  Works, Params,  \* works that are requested, and names of their arguments
  Stmts,          \* statements of processes, closed under branches
  Programs,       \* processes a runtime is started with
  HostEvents,     \* bound: the events the host delivers
  MaxOccurrence,  \* bound: the host feeds outcomes and readings below it
  MaxQueue        \* bound: the host delivers while the queue is shorter

Value == {"true", "false", "unknown"}
Reading == {"true", "false", "absent"}

TerminalEvent == {"rejected", "completed", "failed", "unconfirmed"}
TokenEvent == TerminalEvent \cup {"admitted", "busy"}

Atom ==
  [kind : {"const"}, value : Value]
    \cup [kind : {"ref"}, name : StateNames]
    \cup [kind : {"signal"}, signal : Signals]
Expr == Atom \cup [kind : {"eq", "neq"}, left : Atom, right : Atom]

SetStmt == [op : {"set"}, name : StateNames, value : Expr]
RequestStmt ==
  [op : {"request"}, work : Works, args : Seq([param : Params, value : Expr]),
   token : Tokens \cup {NoToken}]
IfStmt == [op : {"if"}, cond : Expr, then : Seq(Stmts), else : Seq(Stmts)]

Event ==
  [kind : {"rising", "falling"}, signal : Signals]
    \cup [kind : {"level"}, expr : Expr]
    \cup [kind : {"token"}, token : Tokens, event : TokenEvent]

\* A compiled process: initial states, declared tokens, reactions and the body of
\* the background cycle.
Program ==
  [initial : [StateNames -> Value], tokens : SUBSET Tokens,
   reactions : Seq([event : Event, body : Seq(Stmts)]), cycle : Seq(Stmts)]

ASSUME SlotAssumption == NoOccurrence \notin Nat /\ NoToken \notin Tokens
ASSUME BoundAssumption ==
  MaxOccurrence \in Nat /\ MaxQueue \in Nat /\ HostEvents \subseteq TokenEvent
ASSUME ProgramAssumption ==
  /\ \A s \in Stmts : s \in SetStmt \/ s \in RequestStmt \/ s \in IfStmt
  /\ Programs \subseteq Program

VARIABLES
  program,         \* the process
  state,           \* value of each coordination state
  prev,            \* last observed value per signal, "absent" before the first
  slot,            \* occurrence that occupies each token
  nextOccurrence,  \* monotonic occurrence counter
  outcomes,        \* delivered outcomes the next tick drains
  phase,           \* "idle", "drain", "notify", "react" or "cycle"
  obs,             \* observations of the running tick or cycle
  inbox,           \* drained outcomes; the head is the one being notified
  reaction,        \* index of the next reaction to evaluate
  agenda,          \* statements still to execute
  effects,         \* requests and busy rejections the call returns
  heard            \* history: <<occurrence, event>> applied to the process

hostVars == <<program, outcomes, phase, obs, inbox, reaction>>
vars == <<program, state, prev, slot, nextOccurrence, outcomes, phase, obs, inbox,
          reaction, agenda, effects, heard>>

Pending == [token : Tokens, occurrence : Nat, outcome : TokenEvent]
Effect ==
  [kind : {"request"}, work : Works, args : Seq([param : Params, value : Value]),
   token : Tokens \cup {NoToken}, occurrence : Nat]
  \cup [kind : {"busy"}, token : Tokens, occurrence : Nat]

Reactions == program.reactions
Cycle == program.cycle

Silent == [s \in Signals |-> "absent"]

-----------------------------------------------------------------------------
(* Expressions: a missing signal is Unknown and so is a comparison with it. *)

Truth(b) == IF b THEN "true" ELSE "false"

Observed(s) == IF obs[s] = "absent" THEN "unknown" ELSE obs[s]

EvalAtom(e) ==
  IF e.kind = "const" THEN e.value
  ELSE IF e.kind = "ref" THEN state[e.name] ELSE Observed(e.signal)

ApplyBinary(op, l, r) ==
  IF "unknown" \in {l, r} THEN "unknown" ELSE Truth((op = "eq") = (l = r))

Eval(e) ==
  IF e.kind \in {"eq", "neq"}
  THEN ApplyBinary(e.kind, EvalAtom(e.left), EvalAtom(e.right))
  ELSE EvalAtom(e)

\* Rising and falling need a recorded baseline; a level needs a definite truth.
EventFires(ev) ==
  \/ ev.kind = "rising"  /\ prev[ev.signal] = "false" /\ obs[ev.signal] = "true"
  \/ ev.kind = "falling" /\ prev[ev.signal] = "true" /\ obs[ev.signal] = "false"
  \/ ev.kind = "level"   /\ Eval(ev.expr) = "true"

EdgeSignals ==
  {s \in Signals : \E i \in DOMAIN Reactions :
     /\ Reactions[i].event.kind \in {"rising", "falling"}
     /\ Reactions[i].event.signal = s}

-----------------------------------------------------------------------------
(* The host: delivering an outcome, starting a tick, starting a cycle.      *)

\* Mutant: deliver_outcome without the correlation check.
DeliverableUnchecked(t, o, ev) == TRUE

\* Only Busy may name an occurrence that does not occupy the token.
Deliverable(t, o, ev) == t \in program.tokens /\ (ev = "busy" \/ slot[t] = o)

\* Otherwise deliver_outcome returns an error and changes nothing.
DeliverOutcome(t, o, ev) ==
  /\ phase = "idle"
  /\ Deliverable(t, o, ev)
  /\ outcomes' = Append(outcomes, [token |-> t, occurrence |-> o, outcome |-> ev])
  /\ UNCHANGED <<program, state, prev, slot, nextOccurrence, phase, obs, inbox,
                 reaction, agenda, effects, heard>>

\* Past MaxOccurrence only ticks without observations are explored.
WithinBound(o) == nextOccurrence < MaxOccurrence \/ o = Silent

Tick(o) ==
  /\ phase = "idle"
  /\ WithinBound(o)
  /\ phase' = "drain"
  /\ obs' = o
  /\ inbox' = outcomes
  /\ outcomes' = <<>>
  /\ UNCHANGED <<program, state, prev, slot, nextOccurrence, reaction, agenda, effects,
                 heard>>

RunCycle(o) ==
  /\ phase = "idle"
  /\ Cycle # <<>>
  /\ nextOccurrence < MaxOccurrence
  /\ phase' = "cycle"
  /\ obs' = o
  /\ agenda' = Cycle
  /\ UNCHANGED <<program, state, prev, slot, nextOccurrence, outcomes, inbox, reaction,
                 effects, heard>>

-----------------------------------------------------------------------------
(* Inside a tick: draining outcomes, then reactions, then the edge memory.  *)

\* Mutant: apply_outcome trusts the check made at delivery.
CurrentAtDelivery(p) == TRUE

\* Checked again when drained: an earlier outcome may have freed the token.
Current(p) == p.outcome = "busy" \/ slot[p.token] = p.occurrence

\* Mutants: a Busy frees the token; an admission does; a rejection or an
\* unconfirmed end does not.
FreesOnBusy(p) == p.outcome # "admitted"
FreesOnAdmission(p) == p.outcome # "busy"
FreesUnlessRejected(p) == p.outcome \in TerminalEvent \ {"rejected"}
FreesUnlessUnconfirmed(p) == p.outcome \in TerminalEvent \ {"unconfirmed"}

Frees(p) == p.outcome \in TerminalEvent

ApplyOutcome ==
  /\ phase = "drain" /\ inbox # <<>>
  /\ LET p == Head(inbox) IN
       /\ Current(p)
       /\ slot' = IF Frees(p) THEN [slot EXCEPT ![p.token] = NoOccurrence]
                              ELSE slot
       /\ heard' = heard \cup {<<p.occurrence, p.outcome>>}
  /\ phase' = "notify"
  /\ UNCHANGED <<program, state, prev, nextOccurrence, outcomes, obs, inbox, reaction,
                 agenda, effects>>

DropOutcome ==
  /\ phase = "drain" /\ inbox # <<>>
  /\ ~Current(Head(inbox))
  /\ inbox' = Tail(inbox)
  /\ UNCHANGED <<program, state, prev, slot, nextOccurrence, outcomes, phase, obs,
                 reaction, agenda, effects, heard>>

\* Token reactions answer the outcome being notified, the others observations.
Triggers(ev) ==
  IF phase = "notify"
  THEN /\ ev.kind = "token"
       /\ ev.token = Head(inbox).token
       /\ ev.event = Head(inbox).outcome
  ELSE ev.kind # "token" /\ EventFires(ev)

EvaluateReaction ==
  /\ phase \in {"notify", "react"}
  /\ agenda = <<>> /\ reaction <= Len(Reactions)
  /\ agenda' = IF Triggers(Reactions[reaction].event)
               THEN Reactions[reaction].body ELSE <<>>
  /\ reaction' = reaction + 1
  /\ UNCHANGED <<program, state, prev, slot, nextOccurrence, outcomes, phase, obs,
                 inbox, effects, heard>>

ReactionsDone == agenda = <<>> /\ reaction > Len(Reactions)

\* Mutant: the drain loop does not move on after its reactions.
EndNotifyStays ==
  /\ phase = "notify" /\ ReactionsDone
  /\ inbox' = Tail(inbox)
  /\ reaction' = 1
  /\ UNCHANGED <<program, state, prev, slot, nextOccurrence, outcomes, phase, obs,
                 agenda, effects, heard>>

EndNotify ==
  /\ phase = "notify" /\ ReactionsDone
  /\ inbox' = Tail(inbox)
  /\ phase' = "drain"
  /\ reaction' = 1
  /\ UNCHANGED <<program, state, prev, slot, nextOccurrence, outcomes, obs, agenda,
                 effects, heard>>

StartReactions ==
  /\ phase = "drain" /\ inbox = <<>>
  /\ phase' = "react"
  /\ UNCHANGED <<program, state, prev, slot, nextOccurrence, outcomes, obs, inbox,
                 reaction, agenda, effects, heard>>

\* Mutant: a missing reading is recorded too.
RecordGaps ==
  prev' = [s \in Signals |-> IF s \in EdgeSignals THEN obs[s] ELSE prev[s]]

\* A signal without a reading this tick keeps its recorded value.
RecordEdges ==
  prev' = [s \in Signals |->
             IF s \in EdgeSignals /\ obs[s] # "absent" THEN obs[s] ELSE prev[s]]

\* The effects collected are the return value and leave with the call.
EndTick ==
  /\ phase = "react" /\ ReactionsDone
  /\ RecordEdges
  /\ phase' = "idle"
  /\ obs' = Silent
  /\ reaction' = 1
  /\ effects' = <<>>
  /\ UNCHANGED <<program, state, slot, nextOccurrence, outcomes, inbox, agenda, heard>>

\* run_cycle neither drains outcomes nor records edges.
EndCycle ==
  /\ phase = "cycle" /\ agenda = <<>>
  /\ phase' = "idle"
  /\ obs' = Silent
  /\ effects' = <<>>
  /\ UNCHANGED <<program, state, prev, slot, nextOccurrence, outcomes, inbox, reaction,
                 agenda, heard>>

-----------------------------------------------------------------------------
(* Executing the statement at the head of the agenda.                       *)

\* Only a declared token has a slot.
Occupied(t) == t \in program.tokens /\ slot[t] # NoOccurrence

SetState ==
  /\ agenda # <<>> /\ Head(agenda).op = "set"
  /\ state' = [state EXCEPT ![Head(agenda).name] = Eval(Head(agenda).value)]
  /\ agenda' = Tail(agenda)
  /\ UNCHANGED <<prev, slot, nextOccurrence, effects, heard>>
  /\ UNCHANGED hostVars

\* Arguments have the values of this moment.
Evaluated(args) ==
  [i \in DOMAIN args |-> [param |-> args[i].param, value |-> Eval(args[i].value)]]

Request ==
  /\ agenda # <<>> /\ Head(agenda).op = "request"
  /\ ~Occupied(Head(agenda).token)
  /\ LET t == Head(agenda).token IN
       /\ slot' = IF t \in program.tokens
                  THEN [slot EXCEPT ![t] = nextOccurrence] ELSE slot
       /\ effects' = Append(effects, [kind |-> "request", work |-> Head(agenda).work,
                                      args |-> Evaluated(Head(agenda).args),
                                      token |-> t, occurrence |-> nextOccurrence])
  /\ nextOccurrence' = nextOccurrence + 1
  /\ agenda' = Tail(agenda)
  /\ UNCHANGED <<state, prev, heard>>
  /\ UNCHANGED hostVars

\* Mutant: the refusal is returned as an effect only.
RequestBusyUnqueued ==
  /\ agenda # <<>> /\ Head(agenda).op = "request"
  /\ Occupied(Head(agenda).token)
  /\ effects' = Append(effects, [kind |-> "busy", token |-> Head(agenda).token,
                                 occurrence |-> nextOccurrence])
  /\ nextOccurrence' = nextOccurrence + 1
  /\ agenda' = Tail(agenda)
  /\ UNCHANGED <<state, prev, slot, heard>>
  /\ UNCHANGED hostVars

\* The Busy outcome is queued behind the drained ones: the next tick hears it.
RequestBusy ==
  /\ agenda # <<>> /\ Head(agenda).op = "request"
  /\ Occupied(Head(agenda).token)
  /\ LET t == Head(agenda).token IN
       /\ effects' = Append(effects, [kind |-> "busy", token |-> t,
                                      occurrence |-> nextOccurrence])
       /\ outcomes' = Append(outcomes, [token |-> t,
                                        occurrence |-> nextOccurrence,
                                        outcome |-> "busy"])
  /\ nextOccurrence' = nextOccurrence + 1
  /\ agenda' = Tail(agenda)
  /\ UNCHANGED <<program, state, prev, slot, phase, obs, inbox, reaction, heard>>

\* Unknown takes the else branch.
Branch ==
  /\ agenda # <<>> /\ Head(agenda).op = "if"
  /\ agenda' = (IF Eval(Head(agenda).cond) = "true"
                THEN Head(agenda).then ELSE Head(agenda).else) \o Tail(agenda)
  /\ UNCHANGED <<state, prev, slot, nextOccurrence, effects, heard>>
  /\ UNCHANGED hostVars

Exec == SetState \/ Request \/ RequestBusy \/ Branch

-----------------------------------------------------------------------------

\* ProcessRuntime::new.
New(p) ==
  /\ program = p
  /\ state = p.initial
  /\ prev = Silent
  /\ slot = [t \in Tokens |-> NoOccurrence]
  /\ nextOccurrence = 0
  /\ outcomes = <<>>
  /\ phase = "idle"
  /\ obs = Silent
  /\ inbox = <<>>
  /\ reaction = 1
  /\ agenda = <<>>
  /\ effects = <<>>
  /\ heard = {}

Init == \E p \in Programs : New(p)

\* The steps of a call in progress.
Inside ==
  \/ ApplyOutcome
  \/ DropOutcome
  \/ EvaluateReaction
  \/ EndNotify
  \/ StartReactions
  \/ EndTick
  \/ EndCycle
  \/ Exec

\* What an arbitrary host may do between two calls.
Host ==
  \/ /\ Len(outcomes) < MaxQueue /\ nextOccurrence < MaxOccurrence
     /\ \E t \in Tokens, o \in 0 .. nextOccurrence, ev \in HostEvents :
          DeliverOutcome(t, o, ev)
  \/ \E o \in [Signals -> Reading] : Tick(o) \/ RunCycle(o)

Next == Inside \/ Host

Spec == Init /\ [][Next]_vars
-----------------------------------------------------------------------------
(* Properties                                                               *)

\* Every variable has its type, a call in progress stands at a reaction of the
\* program, and reactions are notified of a drained outcome only (tick).
TypeOK ==
  /\ program \in Program
  /\ state \in [StateNames -> Value]
  /\ prev \in [Signals -> Reading]
  /\ slot \in [Tokens -> Nat \cup {NoOccurrence}]
  /\ nextOccurrence \in Nat
  /\ outcomes \in Seq(Pending)
  /\ phase \in {"idle", "drain", "notify", "react", "cycle"}
  /\ obs \in [Signals -> Reading]
  /\ inbox \in Seq(Pending)
  /\ reaction \in 1 .. Len(Reactions) + 1
  /\ agenda \in Seq(Stmts)
  /\ effects \in Seq(Effect)
  /\ heard \in SUBSET (Nat \X TokenEvent)
  /\ phase = "notify" => inbox # <<>>

Ended == {h[1] : h \in {g \in heard : g[2] \in TerminalEvent}}

\* Every occurrence that holds a token was issued and has not ended.
LeasesLive ==
  \A t \in Tokens : slot[t] # NoOccurrence =>
    slot[t] < nextOccurrence /\ slot[t] \notin Ended

\* An occurrence holds one token at most.
LeasesDistinct ==
  \A t, u \in Tokens : slot[t] = slot[u] /\ slot[t] # NoOccurrence => t = u

EndedIssued == \A o \in Ended : o < nextOccurrence

Correlates(p) ==
  p.outcome # "busy" =>
    slot[p.token] = p.occurrence \/ p.occurrence \in Ended

\* A queued outcome that can free a token names the lease in force or one
\* that is over, never a lease still to come.
QueueCorrelates ==
  /\ \A i \in 1 .. Len(outcomes) : Correlates(outcomes[i])
  /\ \A i \in 1 .. Len(inbox) : Correlates(inbox[i])

\* Token leases stay sound in every state, inside a tick too: an occurrence
\* holds at most one token, was issued and has not ended, and no queued outcome
\* can strike a lease taken after it was delivered (deliver_outcome and
\* apply_outcome check the occurrence; exec issues the numbers).
LeaseInv == LeasesLive /\ LeasesDistinct /\ EndedIssued /\ QueueCorrelates

\* An outcome other than Busy is heard only while its occurrence is alive:
\* a duplicate terminal outcome, or an Admitted that arrives behind it in the
\* queue, starts no reaction (tick: "an older event cannot affect a newer
\* occurrence").
NoReactionAfterEnd ==
  [][ phase = "drain" /\ phase' = "notify" /\ Head(inbox).outcome # "busy"
        => Head(inbox).occurrence \notin Ended ]_vars

Lease == INSTANCE TokenLease WITH
  holder <- slot, fresh <- nextOccurrence, ended <- Ended

\* The runtime implements token leases: a token is taken only when free, with a
\* number never used before, and released only by the end of its own occurrence.
ImplementsTokenLease == Lease!LeaseSpec
=============================================================================
