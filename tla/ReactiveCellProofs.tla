------------------------- MODULE ReactiveCellProofs -------------------------
(***************************************************************************)
(* Token leases are sound for every program, every host and every bound;   *)
(* rising and falling reactions alternate whatever readings are missing;   *)
(* and between a runtime and its arbiter no lease is orphaned and no       *)
(* outcome is stale, for every process that declares its tokens and every  *)
(* length of the pending queue.                                            *)
(***************************************************************************)
EXTENDS ReactiveCell, EdgeMonitor, SequenceTheorems, TLAPS

-----------------------------------------------------------------------------
(* Expressions evaluate to values.                                          *)

\* An operand evaluates to one of the three truth values.
LEMMA EvalAtomType ==
  ASSUME TypeOK, NEW e \in Atom
  PROVE  EvalAtom(e) \in Value
<1>1. CASE e \in [kind : {"const"}, value : Value]
  BY <1>1 DEF EvalAtom
<1>2. CASE e \in [kind : {"ref"}, name : StateNames]
  BY <1>2 DEF EvalAtom, TypeOK
<1>3. CASE e \in [kind : {"signal"}, signal : Signals]
  BY <1>3 DEF EvalAtom, Observed, TypeOK, Value, Reading
<1>4. QED
  BY <1>1, <1>2, <1>3 DEF Atom

\* Whatever expression a reaction holds, eval returns a truth value.
LEMMA EvalType ==
  ASSUME TypeOK, NEW e \in Expr
  PROVE  Eval(e) \in Value
<1>1. CASE e \in Atom
  <2>1. e.kind \notin {"eq", "neq"}
    BY <1>1 DEF Atom
  <2>2. QED
    BY <1>1, <2>1, EvalAtomType DEF Eval
<1>2. CASE e \in [kind : {"eq", "neq"}, left : Atom, right : Atom]
  BY <1>2 DEF Eval, ApplyBinary, Truth, Value
<1>3. QED
  BY <1>1, <1>2 DEF Expr

\* A function on an initial segment of the naturals is a sequence.
LEMMA FunctionIsSeq ==
  ASSUME NEW S, NEW n \in Nat, NEW f \in [1 .. n -> S]
  PROVE  f \in Seq(S)
BY SeqDef

\* The arguments of a request evaluate to arguments with values.
LEMMA EvaluatedType ==
  ASSUME TypeOK, NEW args \in Seq([param : Params, value : Expr])
  PROVE  Evaluated(args) \in Seq([param : Params, value : Value])
<1>1. Len(args) \in Nat /\ DOMAIN args = 1 .. Len(args)
  BY LenProperties
<1>2. ASSUME NEW i \in 1 .. Len(args)
      PROVE  [param |-> args[i].param, value |-> Eval(args[i].value)]
               \in [param : Params, value : Value]
  <2>1. args[i] \in [param : Params, value : Expr]
    BY ElementOfSeq
  <2>2. Eval(args[i].value) \in Value
    BY <2>1, EvalType
  <2>3. QED
    BY <2>1, <2>2
<1>3. Evaluated(args) \in [1 .. Len(args) -> [param : Params, value : Value]]
  BY <1>1, <1>2 DEF Evaluated
<1>4. QED
  BY <1>1, <1>3, FunctionIsSeq

-----------------------------------------------------------------------------
(* Type correctness                                                         *)

\* The fields of a process.
LEMMA ProgramFields ==
  ASSUME NEW p \in Program
  PROVE  /\ p.initial \in [StateNames -> Value]
         /\ p.tokens \subseteq Tokens
         /\ p.reactions \in Seq([event : Event, body : Seq(Stmts)])
         /\ Len(p.reactions) \in Nat
         /\ p.cycle \in Seq(Stmts)
<1>1. p.reactions \in Seq([event : Event, body : Seq(Stmts)])
  BY DEF Program
<1>2. Len(p.reactions) \in Nat
  BY <1>1, LenProperties
<1>3. QED
  BY <1>1, <1>2 DEF Program

\* ProcessRuntime::new starts well typed.
LEMMA InitTypeOK == Init => TypeOK
<1> SUFFICES ASSUME NEW p \in Programs, New(p) PROVE TypeOK
  BY DEF Init
<1>1. p \in Program /\ Len(p.reactions) \in Nat /\ p.initial \in [StateNames -> Value]
  BY ProgramAssumption, ProgramFields
<1>2. Silent \in [Signals -> Reading]
  BY DEF Silent, Reading
<1>3. <<>> \in Seq(Pending) /\ <<>> \in Seq(Stmts) /\ <<>> \in Seq(Effect)
  BY EmptySeq
<1>4. QED
  BY <1>1, <1>2, <1>3 DEF New, TypeOK, Reactions

\* An event and a body read from the program are well typed.
LEMMA ReactionType ==
  ASSUME TypeOK, NEW i \in 1 .. Len(Reactions)
  PROVE  Reactions[i].event \in Event /\ Reactions[i].body \in Seq(Stmts)
<1>1. Reactions \in Seq([event : Event, body : Seq(Stmts)])
  BY ProgramFields DEF TypeOK, Reactions
<1>2. Reactions[i] \in [event : Event, body : Seq(Stmts)]
  BY <1>1, ElementOfSeq
<1>3. QED
  BY <1>2

\* The fields of the statement about to run, by its kind.
LEMMA HeadStmt ==
  ASSUME TypeOK, agenda # <<>>
  PROVE  /\ Head(agenda) \in Stmts
         /\ Tail(agenda) \in Seq(Stmts)
         /\ Head(agenda).op = "set" => Head(agenda) \in SetStmt
         /\ Head(agenda).op = "request" => Head(agenda) \in RequestStmt
         /\ Head(agenda).op = "if" => Head(agenda) \in IfStmt
<1>1. Head(agenda) \in Stmts /\ Tail(agenda) \in Seq(Stmts)
  BY HeadTailProperties DEF TypeOK
<1>2. QED
  BY <1>1, ProgramAssumption DEF SetStmt, RequestStmt, IfStmt

\* Every step of a call and every step of the host keeps the types.
LEMMA NextTypeOK == TypeOK /\ [Next]_vars => TypeOK'
<1> SUFFICES ASSUME TypeOK, [Next]_vars PROVE TypeOK'
  OBVIOUS
<1>0. Len(Reactions) \in Nat /\ Cycle \in Seq(Stmts)
  BY ProgramFields DEF TypeOK, Reactions, Cycle
<1>d. program.tokens \subseteq Tokens
  BY ProgramFields DEF TypeOK
<1> USE DEF TypeOK, Reactions
<1>a. <<>> \in Seq(Pending) /\ <<>> \in Seq(Stmts) /\ <<>> \in Seq(Effect)
  BY EmptySeq
<1>b. Silent \in [Signals -> Reading]
  BY DEF Silent, Reading
<1>c. inbox # <<>> => Head(inbox) \in Pending /\ Tail(inbox) \in Seq(Pending)
  BY HeadTailProperties
<1>1. CASE ApplyOutcome
  BY <1>1, <1>c DEF ApplyOutcome, Pending
<1>2. CASE DropOutcome
  BY <1>2, <1>c DEF DropOutcome
<1>3. CASE EvaluateReaction
  <2>1. reaction \in 1 .. Len(Reactions)
    BY <1>3, <1>0 DEF EvaluateReaction
  <2>2. Reactions[reaction].body \in Seq(Stmts)
    BY <2>1, ReactionType
  <2>3. QED
    BY <1>3, <1>0, <1>a, <2>2 DEF EvaluateReaction
<1>4. CASE EndNotify
  BY <1>4, <1>0, <1>c DEF EndNotify
<1>5. CASE StartReactions
  BY <1>5 DEF StartReactions
<1>6. CASE EndTick
  <2>1. prev' \in [Signals -> Reading]
    BY <1>6 DEF EndTick, RecordEdges
  <2>2. QED
    BY <1>6, <1>0, <1>a, <1>b, <2>1 DEF EndTick
<1>7. CASE EndCycle
  BY <1>7, <1>a, <1>b DEF EndCycle
<1>8. CASE SetState
  <2>1. Eval(Head(agenda).value) \in Value
    BY <1>8, HeadStmt, EvalType DEF SetState, SetStmt
  <2>2. QED
    BY <1>8, <2>1, HeadStmt DEF SetState, hostVars
<1>9. CASE Request
  <2> DEFINE s == Head(agenda)
  <2>1. s \in RequestStmt
    BY <1>9, HeadStmt DEF Request
  <2>2. s.work \in Works /\ s.token \in Tokens \cup {NoToken}
    BY <2>1 DEF RequestStmt
  <2>3. Evaluated(s.args) \in Seq([param : Params, value : Value])
    BY <2>1, EvaluatedType DEF RequestStmt
  <2>4. [kind |-> "request", work |-> s.work, args |-> Evaluated(s.args),
         token |-> s.token, occurrence |-> nextOccurrence] \in Effect
    BY <2>2, <2>3 DEF Effect
  <2>5. effects' \in Seq(Effect)
    BY <1>9, <2>4, AppendProperties DEF Request
  <2>6. slot' \in [Tokens -> Nat \cup {NoOccurrence}] /\ nextOccurrence' \in Nat
    <3>1. slot' = IF s.token \in program.tokens
                  THEN [slot EXCEPT ![s.token] = nextOccurrence] ELSE slot
      BY <1>9 DEF Request
    <3>2. nextOccurrence' = nextOccurrence + 1
      BY <1>9 DEF Request
    <3>3. slot \in [Tokens -> Nat \cup {NoOccurrence}] /\ nextOccurrence \in Nat
      OBVIOUS
    <3>4. \A x : [slot EXCEPT ![x] = nextOccurrence] \in [Tokens -> Nat \cup {NoOccurrence}]
      BY <3>3
    <3>5. QED
      BY <3>1, <3>2, <3>3, <3>4
  <2>7. agenda' \in Seq(Stmts) /\ UNCHANGED <<state, prev, heard>> /\ UNCHANGED hostVars
    BY <1>9, HeadStmt DEF Request
  <2>8. QED
    BY <2>5, <2>6, <2>7 DEF hostVars
<1>10. CASE RequestBusy
  <2>1. Head(agenda).token \in Tokens
    BY <1>10, <1>d DEF RequestBusy, Occupied
  <2>2. effects' \in Seq(Effect)
    BY <1>10, <2>1, AppendProperties DEF RequestBusy, Effect
  <2>3. outcomes' \in Seq(Pending)
    BY <1>10, <2>1, AppendProperties DEF RequestBusy, Pending, TokenEvent
  <2>4. QED
    BY <1>10, <2>2, <2>3, HeadStmt DEF RequestBusy
<1>11. CASE Branch
  <2>1. Head(agenda).then \in Seq(Stmts) /\ Head(agenda).else \in Seq(Stmts)
    BY <1>11, HeadStmt DEF Branch, IfStmt
  <2>2. agenda' \in Seq(Stmts)
    BY <1>11, <2>1, HeadStmt, ConcatProperties DEF Branch
  <2>3. QED
    BY <1>11, <2>2 DEF Branch, hostVars
<1>12. ASSUME NEW t \in Tokens, NEW o \in 0 .. nextOccurrence,
              NEW ev \in HostEvents, DeliverOutcome(t, o, ev)
       PROVE  TypeOK'
  <2>1. [token |-> t, occurrence |-> o, outcome |-> ev] \in Pending
    BY BoundAssumption DEF Pending
  <2>2. outcomes' \in Seq(Pending)
    BY <1>12, <2>1, AppendProperties DEF DeliverOutcome
  <2>3. QED
    BY <1>12, <2>2 DEF DeliverOutcome
<1>13. ASSUME NEW o \in [Signals -> Reading], Tick(o)
       PROVE  TypeOK'
  BY <1>13, <1>a DEF Tick
<1>14. ASSUME NEW o \in [Signals -> Reading], RunCycle(o)
       PROVE  TypeOK'
  BY <1>14, <1>0 DEF RunCycle
<1>15. CASE UNCHANGED vars
  BY <1>15 DEF vars
<1>16. QED
  BY <1>1, <1>2, <1>3, <1>4, <1>5, <1>6, <1>7, <1>8, <1>9, <1>10, <1>11,
     <1>12, <1>13, <1>14, <1>15 DEF Next, Inside, Host, Exec

\* Every variable of the runtime keeps its type in every reachable state.
THEOREM TypeCorrect == Spec => []TypeOK
BY InitTypeOK, NextTypeOK, PTL DEF Spec

-----------------------------------------------------------------------------
(* Token leases                                                             *)

\* What the lease invariant reads.
leaseView == <<slot, nextOccurrence, outcomes, inbox, heard>>

\* A step that leaves tokens, queues and history alone keeps LeaseInv.
LEMMA UnchangedLease ==
  ASSUME LeaseInv, UNCHANGED leaseView
  PROVE  LeaseInv'
BY DEF leaseView, LeaseInv, LeasesLive, LeasesDistinct, EndedIssued, Ended,
       QueueCorrelates, Correlates

\* Hearing an outcome ends its occurrence exactly when the outcome is terminal.
LEMMA EndedStep ==
  ASSUME NEW o, NEW ev, heard' = heard \cup {<<o, ev>>}
  PROVE  Ended' = Ended \cup (IF ev \in TerminalEvent THEN {o} ELSE {})
<1> DEFINE T(H) == {g \in H : g[2] \in TerminalEvent}
<1>1. CASE ev \in TerminalEvent
  <2>1. T(heard') = T(heard) \cup {<<o, ev>>}
    BY <1>1
  <2>2. \A S, x : {h[1] : h \in S \cup {x}} = {h[1] : h \in S} \cup {x[1]}
    OBVIOUS
  <2>3. {h[1] : h \in T(heard')} = {h[1] : h \in T(heard)} \cup {<<o, ev>>[1]}
    BY <2>1, <2>2
  <2>4. QED
    BY <1>1, <2>3 DEF Ended
<1>2. CASE ev \notin TerminalEvent
  <2>1. T(heard') = T(heard)
    BY <1>2
  <2>2. QED
    BY <1>2, <2>1 DEF Ended
<1>3. QED
  BY <1>1, <1>2

\* A drained outcome that is current and terminal names a live lease.
LEMMA ApplyOutcomeLease ==
  ASSUME TypeOK, LeaseInv, ApplyOutcome
  PROVE  LeaseInv'
<1> DEFINE p == Head(inbox)
<1>1. p \in Pending /\ Current(p)
  BY HeadTailProperties DEF ApplyOutcome, TypeOK
<1>2. Ended' = Ended \cup (IF Frees(p) THEN {p.occurrence} ELSE {})
  BY EndedStep DEF ApplyOutcome, Frees
<1>3. UNCHANGED <<nextOccurrence, outcomes, inbox>>
  BY DEF ApplyOutcome
<1>4. CASE Frees(p)
  <2>1. slot[p.token] = p.occurrence /\ p.occurrence \in Nat /\ p.token \in Tokens
    BY <1>1, <1>4 DEF Current, Frees, TerminalEvent, Pending
  <2>2. slot' = [slot EXCEPT ![p.token] = NoOccurrence]
    BY <1>4 DEF ApplyOutcome
  <2>3. Ended' = Ended \cup {p.occurrence}
    BY <1>2, <1>4
  <2>4. \A t \in Tokens : slot'[t] = IF t = p.token THEN NoOccurrence ELSE slot[t]
    BY <2>2 DEF TypeOK
  <2>5. LeasesDistinct'
    BY <2>4 DEF LeaseInv, LeasesDistinct
  <2>6. LeasesLive'
    BY <2>1, <2>3, <2>4, <1>3, SlotAssumption
       DEF LeaseInv, LeasesLive, LeasesDistinct
  <2>7. EndedIssued'
    BY <2>1, <2>3, <1>3, SlotAssumption DEF LeaseInv, LeasesLive, EndedIssued
  <2>8. ASSUME NEW q \in Pending, Correlates(q)
        PROVE  Correlates(q)'
    BY <2>1, <2>3, <2>4, <2>8 DEF Correlates, Pending
  <2>9. QueueCorrelates'
    <3>1. \A i \in 1 .. Len(outcomes) : outcomes[i] \in Pending
      BY ElementOfSeq DEF TypeOK
    <3>2. \A i \in 1 .. Len(inbox) : inbox[i] \in Pending
      BY ElementOfSeq DEF TypeOK
    <3>3. QED
      BY <1>3, <2>8, <3>1, <3>2 DEF LeaseInv, QueueCorrelates, Correlates
  <2>10. QED
    BY <2>5, <2>6, <2>7, <2>9 DEF LeaseInv
<1>5. CASE ~Frees(p)
  <2>1. UNCHANGED slot /\ Ended' = Ended
    BY <1>2, <1>5 DEF ApplyOutcome
  <2>2. QED
    BY <2>1, <1>3 DEF LeaseInv, LeasesLive, LeasesDistinct, EndedIssued,
                      QueueCorrelates, Correlates
<1>6. QED
  BY <1>4, <1>5

\* Dropping the head of the inbox keeps the rest.
LEMMA PopLease ==
  ASSUME TypeOK, LeaseInv, inbox # <<>>, inbox' = Tail(inbox),
         UNCHANGED <<slot, nextOccurrence, outcomes, heard>>
  PROVE  LeaseInv'
<1>1. /\ Len(Tail(inbox)) = Len(inbox) - 1
      /\ \A i \in 1 .. Len(Tail(inbox)) : Tail(inbox)[i] = inbox[i + 1]
  BY HeadTailProperties DEF TypeOK
<1>2. Len(inbox) \in Nat
  BY LenProperties DEF TypeOK
<1>3. \A i \in 1 .. Len(inbox') : Correlates(inbox'[i])
  BY <1>1, <1>2 DEF LeaseInv, QueueCorrelates
<1>4. UNCHANGED Ended
  BY DEF Ended
<1>5. QED
  BY <1>3, <1>4 DEF LeaseInv, LeasesLive, LeasesDistinct, EndedIssued,
                    QueueCorrelates, Correlates

\* A new lease takes a number nobody has.
LEMMA RequestLease ==
  ASSUME TypeOK, LeaseInv, Request
  PROVE  LeaseInv'
<1> DEFINE t == Head(agenda).token
<1>1. t \in Tokens \cup {NoToken} /\ ~Occupied(t)
  BY HeadStmt DEF Request, RequestStmt
<1>2. /\ UNCHANGED <<outcomes, inbox, heard>>
      /\ nextOccurrence' = nextOccurrence + 1
      /\ nextOccurrence \in Nat
      /\ UNCHANGED Ended
  BY DEF Request, hostVars, Ended, TypeOK
<1>3. \A u \in Tokens :
        slot'[u] = IF u = t /\ t \in program.tokens THEN nextOccurrence ELSE slot[u]
  BY DEF Request, TypeOK
<1>4. t \in program.tokens => slot[t] = NoOccurrence
  BY <1>1 DEF Occupied
<1>5. \A u \in Tokens : slot[u] \in Nat \cup {NoOccurrence}
  BY DEF TypeOK
<1>6. \A o \in Ended : o \in Nat
  BY DEF Ended, TypeOK
<1>7. LeasesDistinct'
  BY <1>2, <1>3, <1>5 DEF LeaseInv, LeasesDistinct, LeasesLive
<1>8. EndedIssued'
  BY <1>2, <1>6 DEF LeaseInv, EndedIssued
<1>9. LeasesLive'
  BY <1>2, <1>3, <1>5, <1>6 DEF LeaseInv, LeasesLive, EndedIssued
<1>10. ASSUME NEW q \in Pending, Correlates(q)
       PROVE  Correlates(q)'
  BY <1>2, <1>3, <1>4, <1>10, SlotAssumption DEF Correlates, Pending
<1>11. QueueCorrelates'
  <2>1. \A i \in 1 .. Len(outcomes) : outcomes[i] \in Pending
    BY ElementOfSeq DEF TypeOK
  <2>2. \A i \in 1 .. Len(inbox) : inbox[i] \in Pending
    BY ElementOfSeq DEF TypeOK
  <2>3. QED
    BY <1>2, <1>10, <2>1, <2>2 DEF LeaseInv, QueueCorrelates, Correlates
<1>12. QED
  BY <1>7, <1>8, <1>9, <1>11 DEF LeaseInv

\* Queueing an outcome that correlates, and perhaps using up a number.
LEMMA AppendLease ==
  ASSUME TypeOK, LeaseInv, NEW p \in Pending, Correlates(p),
         outcomes' = Append(outcomes, p),
         nextOccurrence' \in {nextOccurrence, nextOccurrence + 1},
         UNCHANGED <<slot, inbox, heard>>
  PROVE  LeaseInv'
<1>1. UNCHANGED Ended
  BY DEF Ended
<1>2. nextOccurrence \in Nat /\ Len(outcomes) \in Nat
  BY LenProperties DEF TypeOK
<1>3. LeasesLive' /\ EndedIssued'
  <2>1. \A o \in Ended : o \in Nat
    BY DEF Ended, TypeOK
  <2>2. \A u \in Tokens : slot[u] \in Nat \cup {NoOccurrence}
    BY DEF TypeOK
  <2>3. QED
    BY <1>1, <1>2, <2>1, <2>2 DEF LeaseInv, LeasesLive, EndedIssued
<1>4. \A i \in 1 .. Len(outcomes') : Correlates(outcomes'[i])
  <2>1. /\ Len(outcomes') = Len(outcomes) + 1
        /\ \A i \in 1 .. Len(outcomes) : outcomes'[i] = outcomes[i]
        /\ outcomes'[Len(outcomes) + 1] = p
    BY AppendProperties DEF TypeOK
  <2>2. QED
    BY <1>2, <2>1 DEF LeaseInv, QueueCorrelates
<1>5. QED
  BY <1>1, <1>3, <1>4 DEF LeaseInv, LeasesDistinct, QueueCorrelates, Correlates

\* Every step keeps the leases sound.
LEMMA NextLeaseInv == TypeOK /\ LeaseInv /\ [Next]_vars => LeaseInv'
<1> SUFFICES ASSUME TypeOK, LeaseInv, [Next]_vars PROVE LeaseInv'
  OBVIOUS
<1>1. CASE ApplyOutcome
  BY <1>1, ApplyOutcomeLease
<1>2. CASE DropOutcome
  BY <1>2, PopLease DEF DropOutcome
<1>3. CASE EndNotify
  BY <1>3, PopLease DEF EndNotify, TypeOK
<1>4. CASE Request
  BY <1>4, RequestLease
<1>5. CASE RequestBusy
  <2> DEFINE p == [token |-> Head(agenda).token, occurrence |-> nextOccurrence,
                   outcome |-> "busy"]
  <2>1. Head(agenda).token \in Tokens
    BY <1>5, ProgramFields DEF RequestBusy, Occupied, TypeOK
  <2>2. p \in Pending /\ Correlates(p)
    BY <2>1 DEF Pending, TokenEvent, Correlates, TypeOK
  <2>3. QED
    BY <1>5, <2>2, AppendLease DEF RequestBusy
<1>6. ASSUME NEW t \in Tokens, NEW o \in 0 .. nextOccurrence,
             NEW ev \in HostEvents, DeliverOutcome(t, o, ev)
      PROVE  LeaseInv'
  <2> DEFINE p == [token |-> t, occurrence |-> o, outcome |-> ev]
  <2>1. p \in Pending
    BY BoundAssumption DEF Pending, TypeOK
  <2>2. Correlates(p)
    BY <1>6 DEF DeliverOutcome, Deliverable, Correlates
  <2>3. QED
    BY <1>6, <2>1, <2>2, AppendLease DEF DeliverOutcome
<1>7. ASSUME NEW o \in [Signals -> Reading], Tick(o)
      PROVE  LeaseInv'
  <2>1. inbox' = outcomes /\ Len(outcomes') = 0
    BY <1>7, EmptySeq DEF Tick
  <2>2. UNCHANGED <<slot, nextOccurrence, heard, Ended>>
    BY <1>7 DEF Tick, Ended
  <2>3. QED
    BY <2>1, <2>2 DEF LeaseInv, LeasesLive, LeasesDistinct, EndedIssued,
                      QueueCorrelates, Correlates
<1>8. CASE EvaluateReaction \/ StartReactions \/ EndTick \/ EndCycle
  BY <1>8, UnchangedLease
     DEF EvaluateReaction, StartReactions, EndTick, EndCycle, leaseView
<1>9. CASE SetState \/ Branch
  BY <1>9, UnchangedLease DEF SetState, Branch, hostVars, leaseView
<1>10. ASSUME NEW o \in [Signals -> Reading], RunCycle(o)
       PROVE  LeaseInv'
  BY <1>10, UnchangedLease DEF RunCycle, leaseView
<1>11. CASE UNCHANGED vars
  BY <1>11, UnchangedLease DEF vars, leaseView
<1>12. QED
  BY <1>1, <1>2, <1>3, <1>4, <1>5, <1>6, <1>7, <1>8, <1>9, <1>10, <1>11
     DEF Next, Inside, Host, Exec

\* No token is taken at the start.
LEMMA InitLeaseInv == Init => LeaseInv
<1> SUFFICES ASSUME NEW p \in Programs, New(p) PROVE LeaseInv
  BY DEF Init
<1>1. Ended = {} /\ Len(outcomes) = 0 /\ Len(inbox) = 0
  BY EmptySeq DEF New, Ended
<1>2. QED
  BY <1>1 DEF New, LeaseInv, LeasesLive, LeasesDistinct, EndedIssued,
              QueueCorrelates

\* Leases are sound for every program and host: tokens are held by distinct
\* issued occurrences that have not ended, and no queued outcome can strike a
\* lease taken after it was delivered.
THEOREM LeasesSound == Spec => []LeaseInv
BY InitTypeOK, NextTypeOK, InitLeaseInv, NextLeaseInv, PTL DEF Spec

\* A step that hears an outcome hears it before its occurrence ended.
LEMMA NoReactionStep ==
  ASSUME TypeOK, LeaseInv, Next, phase = "drain", phase' = "notify",
         Head(inbox).outcome # "busy"
  PROVE  Head(inbox).occurrence \notin Ended
<1>1. ApplyOutcome
  BY DEF Next, Inside, Host, Exec, DropOutcome, EvaluateReaction, EndNotify,
         StartReactions, EndTick, EndCycle, SetState, Request, RequestBusy,
         Branch, hostVars, DeliverOutcome, Tick, RunCycle
<1>2. Head(inbox) \in Pending /\ Current(Head(inbox))
  BY <1>1, HeadTailProperties DEF ApplyOutcome, TypeOK
<1>3. slot[Head(inbox).token] = Head(inbox).occurrence
  BY <1>2 DEF Current
<1>4. QED
  BY <1>2, <1>3, SlotAssumption DEF LeaseInv, LeasesLive, Pending

\* No outcome but Busy is heard for an occurrence that has ended, whatever was
\* queued behind its end.
THEOREM SilentAfterEnd == Spec => NoReactionAfterEnd
<1>1. TypeOK /\ LeaseInv /\ [Next]_vars =>
        [ phase = "drain" /\ phase' = "notify" /\ Head(inbox).outcome # "busy"
            => Head(inbox).occurrence \notin Ended ]_vars
  BY NoReactionStep
<1>2. QED
  BY <1>1, TypeCorrect, LeasesSound, PTL DEF Spec, NoReactionAfterEnd

-----------------------------------------------------------------------------
(* The runtime implements TokenLease.                                       *)

\* A runtime at its start is a lease table at its start.
LEMMA LeaseInitStep == Init => Lease!LeaseInit
BY DEF Init, New, Lease!LeaseInit, Ended

\* Each step of the runtime takes, releases or leaves a lease.
LEMMA LeaseNextStep ==
  TypeOK /\ LeaseInv /\ [Next]_vars => [Lease!LeaseNext]_(Lease!leaseVars)
<1> SUFFICES ASSUME TypeOK, LeaseInv, [Next]_vars
             PROVE  Lease!LeaseNext \/ UNCHANGED <<slot, nextOccurrence, Ended>>
  BY DEF Lease!leaseVars
<1>1. CASE ApplyOutcome
  <2> DEFINE p == Head(inbox)
  <2>1. p \in Pending /\ Current(p)
    BY <1>1, HeadTailProperties DEF ApplyOutcome, TypeOK
  <2>2. Ended' = Ended \cup (IF Frees(p) THEN {p.occurrence} ELSE {})
    BY <1>1, EndedStep DEF ApplyOutcome, Frees
  <2>3. CASE Frees(p)
    <3>1. p.token \in Tokens /\ slot[p.token] = p.occurrence
          /\ p.occurrence # NoOccurrence
      BY <2>1, <2>3, SlotAssumption DEF Current, Frees, TerminalEvent, Pending
    <3>2. Lease!Release(p.token)
      BY <1>1, <2>2, <2>3, <3>1 DEF ApplyOutcome, Lease!Release
    <3>3. QED
      BY <3>1, <3>2 DEF Lease!LeaseNext
  <2>4. CASE ~Frees(p)
    BY <1>1, <2>2, <2>4 DEF ApplyOutcome
  <2>5. QED
    BY <2>3, <2>4
<1>2. CASE Request
  <2> DEFINE t == Head(agenda).token
  <2>1. t \in Tokens \cup {NoToken} /\ ~Occupied(t)
    BY <1>2, HeadStmt DEF Request, RequestStmt
  <2>2. UNCHANGED Ended
    BY <1>2 DEF Request, Ended
  <2>3. CASE t \notin program.tokens
    BY <1>2, <2>2, <2>3 DEF Request, Lease!LeaseNext, Lease!Spend
  <2>4. CASE t \in program.tokens
    <3>1. t \in Tokens
      BY <2>4, ProgramFields DEF TypeOK
    <3>2. Lease!Acquire(t)
      BY <1>2, <2>1, <2>2, <2>4, <3>1 DEF Request, Occupied, Lease!Acquire
    <3>3. QED
      BY <3>1, <3>2 DEF Lease!LeaseNext
  <2>5. QED
    BY <2>3, <2>4
<1>3. CASE RequestBusy
  BY <1>3 DEF RequestBusy, Ended, Lease!LeaseNext, Lease!Spend
<1>4. CASE \/ DropOutcome \/ EvaluateReaction \/ EndNotify \/ StartReactions
           \/ EndTick \/ EndCycle \/ SetState \/ Branch
  BY <1>4 DEF DropOutcome, EvaluateReaction, EndNotify, StartReactions, EndTick,
              EndCycle, SetState, Branch, Ended
<1>5. CASE Host
  BY <1>5 DEF Host, DeliverOutcome, Tick, RunCycle, Ended
<1>6. CASE UNCHANGED vars
  BY <1>6 DEF vars, Ended
<1>7. QED
  BY <1>1, <1>2, <1>3, <1>4, <1>5, <1>6 DEF Next, Inside, Exec

\* Every behaviour of the runtime is a behaviour of the abstract token leases.
THEOREM Refinement == Spec => ImplementsTokenLease
<1>1. TypeOK /\ LeaseInv /\ [Next]_vars => [Lease!LeaseNext]_(Lease!leaseVars)
  BY LeaseNextStep
<1>2. QED
  BY <1>1, LeaseInitStep, TypeCorrect, LeasesSound, PTL
     DEF Spec, ImplementsTokenLease, Lease!LeaseSpec
-----------------------------------------------------------------------------
(* Rising and falling reactions alternate.  What makes it inductive is what *)
(* the monitor and the edge memory have in common: the last edge that ran   *)
(* is the level recorded, except inside a tick, behind the reaction to a    *)
(* change that record_edges has still to write down.                        *)

From(k) == IF k = "rising" THEN "false" ELSE "true"
To(k) == IF k = "rising" THEN "true" ELSE "false"

\* The running tick observes an edge of the signal.
Changed(s, k) == prev[s] = From(k) /\ obs[s] = To(k)

\* It does, and its reaction is over.
HasRun(s, k) ==
  /\ phase = "react" /\ Changed(s, k)
  /\ \E i \in EdgeReactions(s, k) : i < reaction

\* The last edge was that of the running tick or the one that led to the level
\* recorded.
EdgeRecorded(s, k) ==
  /\ HasRun(s, k) => lastEdge[s] = k
  /\ lastEdge[s] = k =>
       \/ HasRun(s, k)
       \/ prev[s] = To(k) /\ \A l \in EdgeKinds : ~HasRun(s, l)

EdgeInv ==
  /\ lastEdge \in [Signals -> EdgeKinds \cup {"none"}]
  /\ phase \in {"idle", "drain", "cycle"} => reaction = 1
  /\ \A s \in Signals, k \in EdgeKinds : Paired(s) => EdgeRecorded(s, k)

-----------------------------------------------------------------------------

\* Before the first tick no edge has run.
LEMMA InitEdgeInv == MonitoredInit => EdgeInv
<1> SUFFICES ASSUME MonitoredInit PROVE EdgeInv
  OBVIOUS
<1>1. /\ lastEdge = [s \in Signals |-> "none"]
      /\ phase = "idle" /\ reaction = 1
  BY DEF MonitoredInit, Init, New
<1>2. ASSUME NEW s \in Signals, NEW k \in EdgeKinds
      PROVE  EdgeRecorded(s, k)
  BY <1>1 DEF EdgeRecorded, HasRun, EdgeKinds
<1> QED BY <1>1, <1>2 DEF EdgeInv

\* The reactions of a process are numbered.
LEMMA ReactionNumbers ==
  ASSUME TypeOK
  PROVE  /\ Len(Reactions) \in Nat /\ DOMAIN Reactions = 1 .. Len(Reactions)
         /\ reaction \in Nat
<1>1. Reactions \in Seq([event : Event, body : Seq(Stmts)])
  BY ProgramFields DEF TypeOK, Reactions
<1>2. Len(Reactions) \in Nat /\ DOMAIN Reactions = 1 .. Len(Reactions)
  BY <1>1, LenProperties
<1> QED BY <1>2 DEF TypeOK

\* A step that starts no edge reaction leaves the monitor as it is.
LEMMA NoEdgeRun ==
  ASSUME EdgeInv, Monitor,
         \A s \in Signals, k \in EdgeKinds : ~EdgeRun(s, k)
  PROVE  lastEdge' = lastEdge
<1>1. lastEdge' = [s \in Signals |-> lastEdge[s]]
  BY DEF Monitor, EdgeKinds
<1> QED BY <1>1 DEF EdgeInv

\* A step outside of the reactions to observations, or within one of them,
\* neither runs an edge nor records one.
LEMMA QuietStep ==
  ASSUME EdgeInv, UNCHANGED <<program, prev, lastEdge>>,
         \/ UNCHANGED <<phase, obs, reaction>>
         \/ /\ phase # "react"
            /\ \/ phase' # "react"
               \/ reaction' = 1
            /\ phase' \in {"idle", "drain", "cycle"} => reaction' = 1,
         TypeOK
  PROVE  EdgeInv'
<1>1. \A s, k : EdgeReactions(s, k)' = EdgeReactions(s, k)
  BY DEF EdgeReactions, Reactions
<1>2. \A s : Paired(s)' <=> Paired(s)
  BY <1>1 DEF Paired, Reactions
<1>3. CASE UNCHANGED <<phase, obs, reaction>>
  <2>1. \A s, k : HasRun(s, k)' <=> HasRun(s, k)
    BY <1>1, <1>3 DEF HasRun, Changed
  <2>2. \A s, k : EdgeRecorded(s, k)' <=> EdgeRecorded(s, k)
    BY <2>1 DEF EdgeRecorded
  <2> QED BY <1>2, <1>3, <2>2 DEF EdgeInv
<1>4. CASE /\ phase # "react"
           /\ phase' # "react" \/ reaction' = 1
           /\ phase' \in {"idle", "drain", "cycle"} => reaction' = 1
  <2>1. \A s, k : ~HasRun(s, k)
    BY <1>4 DEF HasRun
  <2>2. ASSUME NEW s, NEW k PROVE ~HasRun(s, k)'
    <3>1. \A i \in EdgeReactions(s, k)' : i \in Nat /\ i > 0
      BY <1>1, ReactionNumbers DEF EdgeReactions
    <3> QED BY <1>4, <3>1 DEF HasRun
  <2>3. \A s \in Signals, k \in EdgeKinds :
          EdgeRecorded(s, k) => EdgeRecorded(s, k)'
    BY <2>1, <2>2 DEF EdgeRecorded
  <2> QED BY <1>2, <1>4, <2>3 DEF EdgeInv
<1> QED BY <1>3, <1>4

\* A reaction that is started while the reactions to observations run: what an
\* edge reaction needs is the other level in the edge memory, which the edge
\* itself would have overwritten.
LEMMA EdgeStarts ==
  ASSUME TypeOK, EdgeInv, EvaluateReaction, NEW s \in Signals, NEW k \in EdgeKinds,
         EdgeRun(s, k)
  PROVE  /\ Changed(s, k) /\ reaction \in EdgeReactions(s, k)
         /\ Paired(s) => lastEdge[s] # k
<1> DEFINE ev == Reactions[reaction].event
<1>1. /\ phase = "react" /\ ev.kind = k /\ ev.signal = s
      /\ agenda' # <<>> /\ reaction <= Len(Reactions)
      /\ agenda' = IF Triggers(ev) THEN Reactions[reaction].body ELSE <<>>
  BY DEF EdgeRun, EvaluateReaction
<1>2. Triggers(ev) /\ Reactions[reaction].body # <<>>
  BY <1>1
<1>3. Changed(s, k)
  BY <1>1, <1>2 DEF Triggers, EventFires, Changed, From, To, EdgeKinds
<1>4. reaction \in DOMAIN Reactions
  BY <1>1, ReactionNumbers DEF TypeOK
<1>5. reaction \in EdgeReactions(s, k)
  BY <1>1, <1>2, <1>4 DEF EdgeReactions
<1>6. ASSUME Paired(s) PROVE lastEdge[s] # k
  <2>1. PICK i \in DOMAIN Reactions : EdgeReactions(s, k) = {i}
    BY <1>6 DEF Paired
  <2>2. ~HasRun(s, k)
    BY <2>1, <1>5, ReactionNumbers DEF HasRun
  <2>3. prev[s] # To(k)
    BY <1>3 DEF Changed, From, To
  <2> QED BY <1>6, <2>2, <2>3 DEF EdgeInv, EdgeRecorded
<1> QED BY <1>3, <1>5, <1>6

\* Starting a reaction keeps the monitor in step with the edge memory.
LEMMA ReactionKeepsEdges ==
  ASSUME TypeOK, EdgeInv, EvaluateReaction, Monitor
  PROVE  EdgeInv'
<1>1. /\ UNCHANGED <<program, prev, obs, phase>> /\ reaction' = reaction + 1
      /\ phase \in {"notify", "react"} /\ agenda = <<>>
      /\ reaction \in DOMAIN Reactions
  BY ReactionNumbers DEF EvaluateReaction, TypeOK
<1>2. /\ \A s, k : EdgeReactions(s, k)' = EdgeReactions(s, k)
      /\ \A s : Paired(s)' <=> Paired(s)
  <2>1. \A s, k : EdgeReactions(s, k)' = EdgeReactions(s, k)
    BY <1>1 DEF EdgeReactions, Reactions
  <2> QED BY <2>1, <1>1 DEF Paired, Reactions
<1>3. lastEdge' \in [Signals -> EdgeKinds \cup {"none"}]
  BY DEF Monitor, EdgeInv, EdgeKinds
<1>4. ASSUME NEW s \in Signals, NEW k \in EdgeKinds, Paired(s)
      PROVE  EdgeRecorded(s, k)'
  <2>0. EdgeRecorded(s, k) /\ \A l \in EdgeKinds : EdgeRecorded(s, l)
    BY <1>4 DEF EdgeInv
  <2>1. CASE \E l \in EdgeKinds : EdgeRun(s, l)
    <3>1. PICK l \in EdgeKinds : EdgeRun(s, l)
      BY <2>1
    <3>2. lastEdge'[s] = l
      BY <3>1 DEF Monitor, EdgeKinds, EdgeRun
    <3>3. Changed(s, l) /\ reaction \in EdgeReactions(s, l) /\ phase = "react"
      BY <3>1, EdgeStarts DEF EdgeRun
    <3>4. HasRun(s, l)'
      BY <1>1, <1>2, <3>3, ReactionNumbers DEF HasRun, Changed
    <3>5. \A m \in EdgeKinds : m # l => ~HasRun(s, m)'
      BY <1>1, <3>3 DEF HasRun, Changed, From, To, EdgeKinds
    <3> QED BY <3>2, <3>4, <3>5 DEF EdgeRecorded
  <2>2. CASE \A l \in EdgeKinds : ~EdgeRun(s, l)
    <3>1. lastEdge'[s] = lastEdge[s]
      BY <2>2 DEF Monitor, EdgeKinds
    <3>2. ASSUME NEW l \in EdgeKinds PROVE HasRun(s, l)' <=> HasRun(s, l)
      <4>1. ASSUME phase = "react", Changed(s, l), reaction \in EdgeReactions(s, l)
            PROVE  FALSE
        <5>1. /\ Reactions[reaction].event.kind = l
              /\ Reactions[reaction].event.signal = s
              /\ Reactions[reaction].body # <<>>
          BY <4>1 DEF EdgeReactions
        <5>2. Triggers(Reactions[reaction].event)
          BY <4>1, <5>1 DEF Triggers, EventFires, Changed, From, To, EdgeKinds
        <5>3. agenda' = Reactions[reaction].body
          BY <5>2 DEF EvaluateReaction
        <5> QED BY <1>1, <2>2, <4>1, <5>1, <5>3 DEF EdgeRun
      <4>2. Changed(s, l)' <=> Changed(s, l)
        BY <1>1 DEF Changed
      <4>3. \A i \in EdgeReactions(s, l) :
              i < reaction' <=> i < reaction \/ i = reaction
        BY <1>1, ReactionNumbers DEF EdgeReactions
      <4> QED BY <1>1, <1>2, <4>1, <4>2, <4>3 DEF HasRun
    <3> QED BY <1>1, <2>0, <3>1, <3>2 DEF EdgeRecorded
  <2> QED BY <2>1, <2>2
<1> QED BY <1>1, <1>2, <1>3, <1>4 DEF EdgeInv

\* The end of a tick writes down what its reactions answered: every reaction
\* is over, so an edge that has not run was not observed.
LEMMA EndTickKeepsEdges ==
  ASSUME TypeOK, EdgeInv, EndTick, lastEdge' = lastEdge
  PROVE  EdgeInv'
<1>1. /\ phase = "react" /\ reaction > Len(Reactions)
      /\ phase' = "idle" /\ reaction' = 1 /\ program' = program
      /\ prev' = [s \in Signals |->
                    IF s \in EdgeSignals /\ obs[s] # "absent"
                    THEN obs[s] ELSE prev[s]]
  BY DEF EndTick, ReactionsDone, RecordEdges
<1>2. \A s : Paired(s)' <=> Paired(s)
  BY <1>1 DEF Paired, EdgeReactions, Reactions
<1>3. \A s, k : ~HasRun(s, k)'
  BY <1>1 DEF HasRun
<1>4. ASSUME NEW s \in Signals, NEW k \in EdgeKinds, Paired(s)
      PROVE  EdgeRecorded(s, k)'
  <2>1. \A l \in EdgeKinds : Changed(s, l) => HasRun(s, l)
    <3>1. ASSUME NEW l \in EdgeKinds, Changed(s, l) PROVE HasRun(s, l)
      <4>1. PICK i \in DOMAIN Reactions : EdgeReactions(s, l) = {i}
        BY <1>4 DEF Paired
      <4>2. i < reaction
        BY <1>1, ReactionNumbers
      <4> QED BY <1>1, <3>1, <4>1, <4>2 DEF HasRun
    <3> QED BY <3>1
  <2>2. s \in EdgeSignals
    <3>1. PICK i \in DOMAIN Reactions : EdgeReactions(s, "rising") = {i}
      BY <1>4 DEF Paired, EdgeKinds
    <3>2. /\ Reactions[i].event.kind = "rising"
          /\ Reactions[i].event.signal = s
      BY <3>1 DEF EdgeReactions
    <3> QED BY <3>2 DEF EdgeSignals
  <2>3. obs[s] \in Reading /\ prev[s] \in Reading
    BY DEF TypeOK
  <2>4. ASSUME lastEdge[s] = k PROVE prev'[s] = To(k)
    <3>1. prev'[s] = IF obs[s] # "absent" THEN obs[s] ELSE prev[s]
      BY <1>1, <2>2
    <3>2. \/ HasRun(s, k)
          \/ prev[s] = To(k) /\ \A l \in EdgeKinds : ~HasRun(s, l)
      BY <1>4, <2>4 DEF EdgeInv, EdgeRecorded
    <3>3. CASE HasRun(s, k)
      BY <3>1, <3>3 DEF HasRun, Changed, To
    <3>4. CASE prev[s] = To(k) /\ \A l \in EdgeKinds : ~HasRun(s, l)
      <4>1. \A l \in EdgeKinds : ~Changed(s, l)
        BY <2>1, <3>4
      <4>2. obs[s] \in {"absent", To(k)}
        BY <2>3, <3>4, <4>1 DEF Changed, From, To, EdgeKinds, Reading
      <4> QED BY <3>1, <3>4, <4>2 DEF To
    <3> QED BY <3>2, <3>3, <3>4
  <2> QED BY <1>3, <2>4 DEF EdgeRecorded
<1> QED BY <1>1, <1>2, <1>4 DEF EdgeInv

-----------------------------------------------------------------------------

\* Only EvaluateReaction starts a reaction.
LEMMA OnlyEvaluationRuns ==
  ASSUME TypeOK, [Next]_vars, NEW s, NEW k, EdgeRun(s, k)
  PROVE  EvaluateReaction
<1>1. /\ phase = "react" /\ agenda = <<>> /\ agenda' # <<>>
      /\ reaction' # reaction
  BY ReactionNumbers DEF EdgeRun
<1> QED BY <1>1 DEF Next, Inside, Host, Exec, vars, ApplyOutcome, DropOutcome,
           EndNotify, StartReactions, EndTick, EndCycle, SetState, Request,
           RequestBusy, Branch, DeliverOutcome, Tick, RunCycle

\* Every step keeps the monitor in step with the edge memory.
LEMMA NextEdgeInv ==
  TypeOK /\ EdgeInv /\ [MonitoredNext]_monitoredVars => EdgeInv'
<1> SUFFICES ASSUME TypeOK, EdgeInv, [MonitoredNext]_monitoredVars
             PROVE  EdgeInv'
  OBVIOUS
<1>0. CASE UNCHANGED monitoredVars
  BY <1>0, QuietStep DEF monitoredVars, vars
<1>1. CASE MonitoredNext /\ EvaluateReaction
  BY <1>1, ReactionKeepsEdges DEF MonitoredNext
<1>2. CASE MonitoredNext /\ ~EvaluateReaction
  <2>1. lastEdge' = lastEdge
    BY <1>2, OnlyEvaluationRuns, NoEdgeRun DEF MonitoredNext
  <2>2. CASE EndTick
    BY <2>1, <2>2, EndTickKeepsEdges
  <2>3. CASE ApplyOutcome \/ DropOutcome \/ EndNotify \/ StartReactions \/ EndCycle
    <3>1. UNCHANGED <<program, prev>>
      BY <2>3 DEF ApplyOutcome, DropOutcome, EndNotify, StartReactions, EndCycle
    <3>2. /\ phase # "react"
          /\ phase' # "react" \/ reaction' = 1
          /\ phase' \in {"idle", "drain", "cycle"} => reaction' = 1
      BY <2>3 DEF EdgeInv, ApplyOutcome, DropOutcome, EndNotify, StartReactions,
                  EndCycle
    <3> QED BY <2>1, <3>1, <3>2, QuietStep
  <2>4. CASE Exec
    BY <2>1, <2>4, QuietStep
    DEF Exec, SetState, Request, RequestBusy, Branch, hostVars
  <2>5. CASE Host
    <3>1. UNCHANGED <<program, prev>>
      BY <2>5 DEF Host, DeliverOutcome, Tick, RunCycle
    <3>2. /\ phase # "react" /\ phase' # "react" /\ reaction' = 1
      BY <2>5 DEF EdgeInv, Host, DeliverOutcome, Tick, RunCycle
    <3> QED BY <2>1, <3>1, <3>2, QuietStep
  <2> QED BY <1>2, <2>2, <2>3, <2>4, <2>5 DEF MonitoredNext, Next, Inside
<1> QED BY <1>0, <1>1, <1>2

\* The monitor changes nothing of the runtime.
LEMMA MonitoredTypeOK == MonitoredSpec => []TypeOK
<1>1. MonitoredInit => Init
  BY DEF MonitoredInit
<1>2. [MonitoredNext]_monitoredVars => [Next]_vars
  BY DEF MonitoredNext, monitoredVars
<1> QED BY <1>1, <1>2, InitTypeOK, NextTypeOK, PTL DEF MonitoredSpec

\* Rising and falling alternate, for every process that answers each edge of a
\* signal once, every other reaction it may have, and any pattern of missing
\* readings and cycles between (event_fires, record_edges).
THEOREM EdgesTakeTurns == MonitoredSpec => EdgesAlternate
<1>1. TypeOK /\ EdgeInv /\ [MonitoredNext]_monitoredVars =>
        [\A s \in Signals, k \in EdgeKinds :
           Paired(s) /\ EdgeRun(s, k) => lastEdge[s] # k]_monitoredVars
  <2> SUFFICES ASSUME TypeOK, EdgeInv, MonitoredNext,
                      NEW s \in Signals, NEW k \in EdgeKinds,
                      Paired(s), EdgeRun(s, k)
               PROVE  lastEdge[s] # k
    OBVIOUS
  <2>1. EvaluateReaction
    BY OnlyEvaluationRuns DEF MonitoredNext
  <2> QED BY <2>1, EdgeStarts
<1> QED BY <1>1, InitEdgeInv, NextEdgeInv, MonitoredTypeOK, PTL
        DEF MonitoredSpec, EdgesAlternate

-----------------------------------------------------------------------------
(* The elements of a sequence                                               *)

\* Appending adds the new element.
LEMMA ElemsAppend ==
  ASSUME NEW S, NEW q \in Seq(S), NEW e \in S
  PROVE  Elems(Append(q, e)) = Elems(q) \cup {e}
<1>1. /\ Append(q, e) \in Seq(S) /\ Len(Append(q, e)) = Len(q) + 1
      /\ \A i \in 1 .. Len(q) : Append(q, e)[i] = q[i]
      /\ Append(q, e)[Len(q) + 1] = e
  BY AppendProperties
<1>2. /\ Len(q) \in Nat /\ DOMAIN q = 1 .. Len(q)
      /\ DOMAIN Append(q, e) = 1 .. Len(q) + 1
  BY <1>1, LenProperties
<1>3. QED
  BY <1>1, <1>2 DEF Elems

\* The elements of a sequence are its head and the elements of its tail.
LEMMA ElemsTail ==
  ASSUME NEW S, NEW q \in Seq(S), q # <<>>
  PROVE  Elems(q) = {Head(q)} \cup Elems(Tail(q))
<1>1. /\ Tail(q) \in Seq(S) /\ Head(q) = q[1]
      /\ Len(Tail(q)) = Len(q) - 1
      /\ \A i \in 1 .. Len(Tail(q)) : Tail(q)[i] = q[i + 1]
  BY HeadTailProperties
<1>2. /\ Len(q) \in Nat \ {0} /\ DOMAIN q = 1 .. Len(q)
      /\ DOMAIN Tail(q) = 1 .. Len(q) - 1
  BY <1>1, LenProperties, EmptySeq
<1>3. \A i \in DOMAIN q : i = 1 \/ (i - 1 \in DOMAIN Tail(q) /\ Tail(q)[i - 1] = q[i])
  BY <1>1, <1>2
<1>4. \A i \in DOMAIN Tail(q) : i + 1 \in DOMAIN q /\ q[i + 1] = Tail(q)[i]
  BY <1>1, <1>2
<1>5. 1 \in DOMAIN q /\ Head(q) = q[1]
  BY <1>1, <1>2
<1>6. ASSUME NEW x \in Elems(q) PROVE x \in {Head(q)} \cup Elems(Tail(q))
  BY <1>3, <1>5 DEF Elems
<1>7. ASSUME NEW x \in Elems(Tail(q)) PROVE x \in Elems(q)
  BY <1>4 DEF Elems
<1>8. Head(q) \in Elems(q)
  BY <1>5 DEF Elems
<1>9. QED
  BY <1>6, <1>7, <1>8

\* Joining sequences joins their elements.
LEMMA ElemsConcat ==
  ASSUME NEW S, NEW q \in Seq(S), NEW r \in Seq(S)
  PROVE  Elems(q \o r) = Elems(q) \cup Elems(r)
<1>1. /\ q \o r \in Seq(S) /\ Len(q \o r) = Len(q) + Len(r)
      /\ \A i \in 1 .. Len(q \o r) :
           (q \o r)[i] = IF i <= Len(q) THEN q[i] ELSE r[i - Len(q)]
  BY ConcatProperties
<1>2. /\ Len(q) \in Nat /\ DOMAIN q = 1 .. Len(q)
      /\ Len(r) \in Nat /\ DOMAIN r = 1 .. Len(r)
      /\ DOMAIN (q \o r) = 1 .. Len(q) + Len(r)
  BY <1>1, LenProperties
<1>3. \A i \in DOMAIN q : i \in DOMAIN (q \o r) /\ (q \o r)[i] = q[i]
  BY <1>1, <1>2
<1>4. \A i \in DOMAIN r : /\ Len(q) + i \in DOMAIN (q \o r)
                          /\ (q \o r)[Len(q) + i] = r[i]
  BY <1>1, <1>2
<1>5. \A i \in DOMAIN (q \o r) :
        \/ i \in DOMAIN q
        \/ i - Len(q) \in DOMAIN r /\ (q \o r)[i] = r[i - Len(q)]
  BY <1>1, <1>2
<1>6. ASSUME NEW x \in Elems(q \o r) PROVE x \in Elems(q) \cup Elems(r)
  <2>1. PICK i \in DOMAIN (q \o r) : x = (q \o r)[i]
    BY DEF Elems
  <2>2. CASE i \in DOMAIN q
    BY <1>3, <2>1, <2>2 DEF Elems
  <2>3. CASE i - Len(q) \in DOMAIN r /\ (q \o r)[i] = r[i - Len(q)]
    BY <2>1, <2>3 DEF Elems
  <2>4. QED
    BY <1>5, <2>2, <2>3
<1>7. ASSUME NEW x \in Elems(q) PROVE x \in Elems(q \o r)
  BY <1>3 DEF Elems
<1>8. ASSUME NEW x \in Elems(r) PROVE x \in Elems(q \o r)
  BY <1>4 DEF Elems
<1>9. QED
  BY <1>6, <1>7, <1>8

\* The empty sequence has no element, and a sequence over S has elements of S.
LEMMA ElemsType ==
  ASSUME NEW S, NEW q \in Seq(S)
  PROVE  Elems(q) \subseteq S /\ Elems(<<>>) = {}
<1>1. Len(q) \in Nat /\ DOMAIN q = 1 .. Len(q) /\ \A i \in 1 .. Len(q) : q[i] \in S
  BY LenProperties, ElementOfSeq
<1>2. DOMAIN <<>> = {}
  OBVIOUS
<1>3. QED
  BY <1>1, <1>2 DEF Elems

\* Numbers grow along a sequence of effects, and from one sequence to the next.
Sorted(q) == \A i, k \in DOMAIN q : i < k => q[i].occurrence < q[k].occurrence
Before(q, r) == \A x \in Elems(q), y \in Elems(r) : x.occurrence < y.occurrence

\* Behind the head of a sorted sequence there are greater numbers only.
LEMMA SortedTail ==
  ASSUME NEW S, NEW q \in Seq(S), q # <<>>, Sorted(q)
  PROVE  /\ Sorted(Tail(q))
         /\ \A x \in Elems(Tail(q)) : Head(q).occurrence < x.occurrence
<1>1. /\ Tail(q) \in Seq(S) /\ Head(q) = q[1]
      /\ Len(Tail(q)) = Len(q) - 1
      /\ \A i \in 1 .. Len(Tail(q)) : Tail(q)[i] = q[i + 1]
  BY HeadTailProperties
<1>2. /\ Len(q) \in Nat \ {0} /\ DOMAIN q = 1 .. Len(q)
      /\ DOMAIN Tail(q) = 1 .. Len(q) - 1
  BY <1>1, LenProperties, EmptySeq
<1>3. \A i \in DOMAIN Tail(q) :
        i \in Nat \ {0} /\ 1 \in DOMAIN q /\ i + 1 \in DOMAIN q /\ Tail(q)[i] = q[i + 1]
  BY <1>1, <1>2
<1>4. Sorted(Tail(q))
  BY <1>3 DEF Sorted
<1>5. ASSUME NEW x \in Elems(Tail(q)) PROVE Head(q).occurrence < x.occurrence
  <2>1. PICK i \in DOMAIN Tail(q) : x = Tail(q)[i]
    BY DEF Elems
  <2>2. 1 < i + 1
    BY <1>3
  <2>3. QED
    BY <1>1, <1>3, <2>1, <2>2 DEF Sorted
<1>6. QED
  BY <1>4, <1>5

\* A greater number goes to the end.
LEMMA SortedAppend ==
  ASSUME NEW S, NEW q \in Seq(S), NEW e \in S, Sorted(q),
         \A x \in Elems(q) : x.occurrence < e.occurrence
  PROVE  Sorted(Append(q, e))
<1>1. /\ Append(q, e) \in Seq(S) /\ Len(Append(q, e)) = Len(q) + 1
      /\ \A i \in 1 .. Len(q) : Append(q, e)[i] = q[i]
      /\ Append(q, e)[Len(q) + 1] = e
  BY AppendProperties
<1>2. /\ Len(q) \in Nat /\ DOMAIN q = 1 .. Len(q)
      /\ DOMAIN Append(q, e) = 1 .. Len(q) + 1
  BY <1>1, LenProperties
<1>3. ASSUME NEW i \in DOMAIN Append(q, e), NEW k \in DOMAIN Append(q, e), i < k
      PROVE  Append(q, e)[i].occurrence < Append(q, e)[k].occurrence
  <2>1. i \in DOMAIN q /\ Append(q, e)[i] = q[i] /\ q[i] \in Elems(q)
    BY <1>1, <1>2, <1>3 DEF Elems
  <2>2. CASE k = Len(q) + 1
    BY <1>1, <2>1, <2>2
  <2>3. CASE k \in DOMAIN q
    BY <1>1, <1>2, <1>3, <2>1, <2>3 DEF Sorted
  <2>4. QED
    BY <1>2, <2>2, <2>3
<1>4. QED
  BY <1>3 DEF Sorted

\* Two sorted sequences, one before the other, join to a sorted one.
LEMMA SortedConcat ==
  ASSUME NEW S, NEW q \in Seq(S), NEW r \in Seq(S), Sorted(q), Sorted(r), Before(q, r)
  PROVE  Sorted(q \o r)
<1>1. /\ Len(q \o r) = Len(q) + Len(r)
      /\ \A i \in 1 .. Len(q \o r) :
           (q \o r)[i] = IF i <= Len(q) THEN q[i] ELSE r[i - Len(q)]
  BY ConcatProperties
<1>2. /\ Len(q) \in Nat /\ DOMAIN q = 1 .. Len(q)
      /\ Len(r) \in Nat /\ DOMAIN r = 1 .. Len(r)
      /\ DOMAIN (q \o r) = 1 .. Len(q) + Len(r)
  BY <1>1, LenProperties, ConcatProperties
<1>3. ASSUME NEW i \in DOMAIN (q \o r), NEW k \in DOMAIN (q \o r), i < k
      PROVE  (q \o r)[i].occurrence < (q \o r)[k].occurrence
  <2>1. CASE k <= Len(q)
    BY <1>1, <1>2, <1>3, <2>1 DEF Sorted
  <2>2. CASE Len(q) < i
    <3>1. /\ i - Len(q) \in DOMAIN r /\ k - Len(q) \in DOMAIN r
          /\ i - Len(q) < k - Len(q)
          /\ (q \o r)[i] = r[i - Len(q)] /\ (q \o r)[k] = r[k - Len(q)]
      BY <1>1, <1>2, <1>3, <2>2
    <3>2. QED
      BY <3>1 DEF Sorted
  <2>3. CASE i <= Len(q) /\ Len(q) < k
    <3>1. (q \o r)[i] \in Elems(q) /\ (q \o r)[k] \in Elems(r)
      <4>1. i \in DOMAIN q /\ (q \o r)[i] = q[i]
        BY <1>1, <1>2, <2>3
      <4>2. k - Len(q) \in DOMAIN r /\ (q \o r)[k] = r[k - Len(q)]
        BY <1>1, <1>2, <2>3
      <4>3. QED
        BY <4>1, <4>2 DEF Elems
    <3>2. QED
      BY <3>1 DEF Before
  <2>4. QED
    BY <1>2, <2>1, <2>2, <2>3
<1>4. QED
  BY <1>3 DEF Sorted

-----------------------------------------------------------------------------
(* The inductive invariant                                                  *)

Job == {e \in Effect : e.kind = "request"}

\* The runtime and the arbiter keep their types.
CellType ==
  /\ TypeOK
  /\ submitted \in Seq(Effect)
  /\ waiting \in Seq(Job)
  /\ active \in Job \cup {NoJob}

\* Only a tick that still drains has drained outcomes, and the one its reactions
\* are notified of is over.
Drained ==
  /\ phase \in {"idle", "react", "cycle"} => inbox = <<>>
  /\ phase = "notify" /\ Head(inbox).outcome \in TerminalEvent =>
       Head(inbox).occurrence \in Ended

\* What is executed belongs to the process, and only declared tokens are held.
Declared ==
  /\ program \in Programs
  /\ agenda \in Seq(StmtsOf[program])
  /\ \A t \in Tokens : slot[t] # NoOccurrence => t \in program.tokens

\* Numbers grow from the active job to the effects of the running call.
InOrder ==
  /\ Sorted(waiting) /\ Sorted(submitted) /\ Sorted(effects)
  /\ Before(waiting, submitted) /\ Before(waiting, effects)
  /\ Before(submitted, effects)
  /\ \A e \in Elems(waiting) \cup Elems(submitted) \cup Elems(effects) :
       /\ e.occurrence < nextOccurrence
       /\ active # NoJob => active.occurrence < e.occurrence
  /\ active # NoJob => active.occurrence < nextOccurrence
  /\ active = NoJob => waiting = <<>>

\* A job whose end is queued is not open any more.
EndsAreOver ==
  \A t \in Tokens, j \in OpenJobs : j.occurrence \notin QueuedEnds(t)

\* Whoever holds a token is at work or its end is queued.
HoldersAtWork ==
  \A t \in Tokens : slot[t] # NoOccurrence =>
    \/ \E j \in OpenJobs : j.token = t /\ j.occurrence = slot[t]
    \/ slot[t] \in QueuedEnds(t)

Books == CorrelationNeverFails /\ EndsAreOver /\ HoldersAtWork

CellInv == CellType /\ LeaseInv /\ Drained /\ Declared /\ InOrder /\ Books

\* No lease is orphaned when the invariant holds.
LEMMA BooksAccount == Books => LeaseAccounted
BY DEF Books, EndsAreOver, HoldersAtWork, LeaseAccounted

-----------------------------------------------------------------------------
(* Open jobs                                                                *)

\* The fields of an effect.
LEMMA EffectFields ==
  ASSUME NEW e \in Effect
  PROVE  /\ e.occurrence \in Nat /\ e.kind \in {"request", "busy"}
         /\ e.token \in Tokens \cup {NoToken}
         /\ e # NoJob
BY ArbiterAssumption DEF Effect

\* An open job is a request with a number.
LEMMA OpenJobType ==
  ASSUME CellType, NEW j \in OpenJobs
  PROVE  /\ j \in Job /\ j.occurrence \in Nat
         /\ j.token \in Tokens \cup {NoToken}
<1>1. Elems(effects) \subseteq Effect /\ Elems(submitted) \subseteq Effect
  BY ElemsType DEF CellType, TypeOK
<1>2. Elems(waiting) \subseteq Job
  BY ElemsType DEF CellType
<1>3. j \in Job
  BY <1>1, <1>2 DEF OpenJobs, CellType, Job
<1>4. QED
  BY <1>3, EffectFields DEF Job

\* A queued end names an outcome of the queues, and its number was issued.
LEMMA QueuedEndIssued ==
  ASSUME TypeOK, LeaseInv, NEW t \in Tokens, NEW o \in QueuedEnds(t)
  PROVE  o \in Nat /\ o < nextOccurrence
<1>1. PICK p \in Elems(outcomes) \cup Elems(inbox) :
        p.token = t /\ p.outcome \in TerminalEvent /\ p.occurrence = o
  BY DEF QueuedEnds
<1>2. p \in Pending
  BY ElemsType DEF TypeOK
<1>3. Correlates(p)
  <2>1. DOMAIN outcomes = 1 .. Len(outcomes) /\ DOMAIN inbox = 1 .. Len(inbox)
    BY LenProperties DEF TypeOK
  <2>2. QED
    BY <2>1 DEF LeaseInv, QueueCorrelates, Elems
<1>4. slot[t] = o \/ o \in Ended
  BY <1>1, <1>3 DEF Correlates, TerminalEvent
<1>5. QED
  BY <1>1, <1>2, <1>4, SlotAssumption
     DEF Pending, LeaseInv, LeasesLive, EndedIssued

\* Everything on its way has a number, in the order of the queues.
LEMMA OpenIssued ==
  ASSUME CellType, InOrder, NEW j \in OpenJobs
  PROVE  j.occurrence < nextOccurrence
BY DEF OpenJobs, InOrder

-----------------------------------------------------------------------------
(* Steps that keep the books                                                *)

\* A step that leaves tokens, open jobs and queued ends alone.
LEMMA BooksKept ==
  ASSUME Books, UNCHANGED <<slot, OpenJobs>>,
         \A t \in Tokens : QueuedEnds(t)' = QueuedEnds(t)
  PROVE  Books'
BY DEF Books, CorrelationNeverFails, EndsAreOver, HoldersAtWork

\* A queued outcome adds an end to its token when it is terminal.
LEMMA QueuedAppend ==
  ASSUME TypeOK, NEW p \in Pending, outcomes' = Append(outcomes, p), UNCHANGED inbox,
         NEW t \in Tokens
  PROVE  QueuedEnds(t)' = QueuedEnds(t) \cup
           (IF p.token = t /\ p.outcome \in TerminalEvent THEN {p.occurrence} ELSE {})
<1>1. Elems(outcomes') = Elems(outcomes) \cup {p}
  BY ElemsAppend DEF TypeOK
<1>2. Elems(inbox') = Elems(inbox)
  OBVIOUS
<1>3. QueuedEnds(t)' =
        {q.occurrence : q \in {r \in Elems(outcomes') \cup Elems(inbox') :
                                 r.token = t /\ r.outcome \in TerminalEvent}}
  BY DEF QueuedEnds, Elems
<1>4. QED
  BY <1>1, <1>2, <1>3 DEF QueuedEnds

\* The head of the inbox leaves with its end.
LEMMA QueuedPop ==
  ASSUME TypeOK, inbox # <<>>, inbox' = Tail(inbox), UNCHANGED outcomes,
         NEW t \in Tokens
  PROVE  QueuedEnds(t) = QueuedEnds(t)' \cup
           (IF Head(inbox).token = t /\ Head(inbox).outcome \in TerminalEvent
            THEN {Head(inbox).occurrence} ELSE {})
<1>1. Elems(inbox) = {Head(inbox)} \cup Elems(inbox')
  BY ElemsTail DEF TypeOK
<1>2. Elems(outcomes') = Elems(outcomes)
  OBVIOUS
<1>3. QueuedEnds(t)' =
        {q.occurrence : q \in {r \in Elems(outcomes') \cup Elems(inbox') :
                                 r.token = t /\ r.outcome \in TerminalEvent}}
  BY DEF QueuedEnds, Elems
<1>4. QED
  BY <1>1, <1>2, <1>3 DEF QueuedEnds

\* Queues that are not touched keep their ends.
LEMMA QueuedSame ==
  ASSUME UNCHANGED <<outcomes, inbox>>, NEW t \in Tokens
  PROVE  QueuedEnds(t)' = QueuedEnds(t)
BY DEF QueuedEnds, Elems

\* The arbiter may tell the end of an open job: it is still current.
LEMMA OpenIsCurrent ==
  ASSUME CellInv, NEW job \in OpenJobs, NEW ev, job.token # NoToken
  PROVE  /\ Deliverable(job.token, job.occurrence, ev)
         /\ job.token \in Tokens /\ slot[job.token] = job.occurrence
<1>1. job.occurrence \in Nat /\ job.token \in Tokens
  BY OpenJobType DEF CellInv
<1>2. slot[job.token] = job.occurrence /\ job.token \in program.tokens
  BY <1>1, SlotAssumption DEF CellInv, Books, CorrelationNeverFails, Declared
<1>3. QED
  BY <1>1, <1>2 DEF Deliverable

\* Telling the process about an open job queues the outcome, and nothing else.
LEMMA NotifyQueues ==
  ASSUME CellInv, NEW job \in OpenJobs, NEW ev \in TokenEvent, Notify(job, ev),
         job.token # NoToken
  PROVE  LET p == [token |-> job.token, occurrence |-> job.occurrence, outcome |-> ev]
         IN  /\ p \in Pending
             /\ outcomes' = Append(outcomes, p)
             /\ UNCHANGED <<program, state, prev, slot, nextOccurrence, phase, obs,
                            inbox, reaction, agenda, effects, heard>>
<1>1. Deliverable(job.token, job.occurrence, ev) /\ job.token \in Tokens
  BY OpenIsCurrent
<1>2. DeliverOutcome(job.token, job.occurrence, ev)
  BY <1>1 DEF Notify
<1>3. job.occurrence \in Nat
  BY OpenJobType DEF CellInv
<1>4. QED
  BY <1>1, <1>2, <1>3 DEF DeliverOutcome, Pending

\* An admitted job stays open, and its admission ends nothing.
LEMMA AdmitBooks ==
  ASSUME CellInv, NEW job \in OpenJobs, Notify(job, "admitted"), UNCHANGED OpenJobs
  PROVE  Books'
<1>1. CASE job.token = NoToken
  <2>1. UNCHANGED vars
    BY <1>1 DEF Notify
  <2>2. QED
    BY <2>1, QueuedSame, BooksKept DEF vars, CellInv
<1>2. CASE job.token # NoToken
  <2> DEFINE p == [token |-> job.token, occurrence |-> job.occurrence,
                   outcome |-> "admitted"]
  <2>1. p \in Pending /\ outcomes' = Append(outcomes, p) /\ UNCHANGED <<slot, inbox>>
    BY <1>2, NotifyQueues DEF TokenEvent
  <2>2. p.outcome \notin TerminalEvent
    BY DEF TerminalEvent
  <2>3. \A t \in Tokens : QueuedEnds(t)' = QueuedEnds(t)
    BY <2>1, <2>2, QueuedAppend DEF CellInv, CellType
  <2>4. QED
    BY <2>1, <2>3, BooksKept DEF CellInv
<1>3. QED
  BY <1>1, <1>2

\* A job that ends leaves the open jobs and enters the queued ends.
LEMMA EndBooks ==
  ASSUME CellInv, NEW job \in OpenJobs, NEW ev \in TerminalEvent, Notify(job, ev),
         OpenJobs = OpenJobs' \cup {job},
         \A j \in OpenJobs' : j.occurrence # job.occurrence
  PROVE  Books'
<1>1. CASE job.token = NoToken
  <2>1. UNCHANGED vars
    BY <1>1 DEF Notify
  <2>2. UNCHANGED slot /\ \A t \in Tokens : QueuedEnds(t)' = QueuedEnds(t)
    BY <2>1, QueuedSame DEF vars
  <2>3. \A t \in Tokens, j \in OpenJobs : j.token = t => j \in OpenJobs'
    BY <1>1, SlotAssumption
  <2>4. QED
    BY <2>2, <2>3 DEF CellInv, Books, CorrelationNeverFails, EndsAreOver, HoldersAtWork
<1>2. CASE job.token # NoToken
  <2> DEFINE p == [token |-> job.token, occurrence |-> job.occurrence, outcome |-> ev]
  <2>1. p \in Pending /\ outcomes' = Append(outcomes, p) /\ UNCHANGED <<slot, inbox>>
    BY <1>2, NotifyQueues DEF TokenEvent
  <2>2. \A t \in Tokens : QueuedEnds(t)' = QueuedEnds(t) \cup
                            (IF job.token = t THEN {job.occurrence} ELSE {})
    BY <2>1, QueuedAppend DEF CellInv, CellType
  <2>3. CorrelationNeverFails'
    BY <2>1 DEF CellInv, Books, CorrelationNeverFails
  <2>4. EndsAreOver'
    BY <2>2 DEF CellInv, Books, EndsAreOver
  <2>5. HoldersAtWork'
    BY <2>1, <2>2 DEF CellInv, Books, HoldersAtWork
  <2>6. QED
    BY <2>3, <2>4, <2>5 DEF Books
<1>3. QED
  BY <1>1, <1>2

-----------------------------------------------------------------------------
(* Each step of a call keeps the books                                      *)

\* A terminal outcome that is current frees a token nobody works for any more.
LEMMA ApplyBooks ==
  ASSUME CellInv, ApplyOutcome, UNCHANGED arbiterVars
  PROVE  Books'
<1> DEFINE p == Head(inbox)
<1>1. p \in Pending /\ p \in Elems(inbox) /\ Current(p)
  BY HeadTailProperties, ElemsTail DEF ApplyOutcome, CellInv, CellType, TypeOK
<1>2. UNCHANGED <<OpenJobs, outcomes, inbox>>
  BY DEF ApplyOutcome, OpenJobs, Elems, arbiterVars
<1>3. \A t \in Tokens : QueuedEnds(t)' = QueuedEnds(t)
  BY <1>2, QueuedSame
<1>4. CASE Frees(p)
  <2>1. slot[p.token] = p.occurrence /\ p.token \in Tokens
    BY <1>1, <1>4 DEF Current, Frees, TerminalEvent, Pending
  <2>2. p.occurrence \in QueuedEnds(p.token)
    BY <1>1, <1>4 DEF QueuedEnds, Frees
  <2>3. \A t \in Tokens : slot'[t] = IF t = p.token THEN NoOccurrence ELSE slot[t]
    BY <1>4 DEF ApplyOutcome, CellInv, CellType, TypeOK
  <2>4. CorrelationNeverFails'
    <3> SUFFICES ASSUME NEW j \in OpenJobs, j.token # NoToken
                 PROVE  slot'[j.token] = j.occurrence
      BY <1>2 DEF CorrelationNeverFails
    <3>1. j.token \in Tokens /\ slot[j.token] = j.occurrence
      BY OpenIsCurrent
    <3>2. j.token # p.token
      BY <2>1, <2>2, <3>1 DEF CellInv, Books, EndsAreOver
    <3>3. QED
      BY <2>3, <3>1, <3>2
  <2>5. EndsAreOver' /\ HoldersAtWork'
    BY <1>2, <1>3, <2>3 DEF CellInv, Books, EndsAreOver, HoldersAtWork
  <2>6. QED
    BY <2>4, <2>5 DEF Books
<1>5. CASE ~Frees(p)
  BY <1>2, <1>3, <1>5, BooksKept DEF ApplyOutcome, CellInv
<1>6. QED
  BY <1>4, <1>5

\* An outcome leaves the inbox when no lease waits for it any more.
LEMMA PopBooks ==
  ASSUME CellInv, inbox # <<>>, inbox' = Tail(inbox),
         UNCHANGED <<slot, outcomes, OpenJobs>>,
         Head(inbox).outcome \in TerminalEvent =>
           slot[Head(inbox).token] # Head(inbox).occurrence
  PROVE  Books'
<1>1. \A t \in Tokens : QueuedEnds(t) = QueuedEnds(t)' \cup
        (IF Head(inbox).token = t /\ Head(inbox).outcome \in TerminalEvent
         THEN {Head(inbox).occurrence} ELSE {})
  BY QueuedPop DEF CellInv, CellType
<1>2. EndsAreOver'
  BY <1>1 DEF CellInv, Books, EndsAreOver
<1>3. HoldersAtWork'
  BY <1>1 DEF CellInv, Books, HoldersAtWork
<1>4. QED
  BY <1>2, <1>3 DEF CellInv, Books, CorrelationNeverFails

\* A dropped outcome is about an older occurrence of its token.
LEMMA DropBooks ==
  ASSUME CellInv, DropOutcome, UNCHANGED arbiterVars
  PROVE  Books'
<1>1. UNCHANGED OpenJobs
  BY DEF DropOutcome, OpenJobs, Elems, arbiterVars
<1>2. QED
  BY <1>1, PopBooks DEF DropOutcome, Current

\* The outcome whose reactions are done has freed its token before them.
LEMMA EndNotifyBooks ==
  ASSUME CellInv, EndNotify, UNCHANGED arbiterVars
  PROVE  Books'
<1> DEFINE p == Head(inbox)
<1>1. UNCHANGED OpenJobs
  BY DEF EndNotify, OpenJobs, Elems, arbiterVars
<1>2. p \in Pending /\ inbox # <<>>
  BY HeadTailProperties DEF EndNotify, CellInv, CellType, TypeOK
<1>3. p.outcome \in TerminalEvent => slot[p.token] # p.occurrence
  BY <1>2, SlotAssumption
     DEF EndNotify, CellInv, Drained, LeaseInv, LeasesLive, Pending
<1>4. QED
  BY <1>1, <1>2, <1>3, PopBooks DEF EndNotify

\* A request that takes a token is an open job with a number of its own.
LEMMA RequestBooks ==
  ASSUME TokensDeclared, CellInv, Request, UNCHANGED arbiterVars
  PROVE  Books'
<1> DEFINE s == Head(agenda)
           e == [kind |-> "request", work |-> s.work, args |-> Evaluated(s.args),
                 token |-> s.token, occurrence |-> nextOccurrence]
<1>1. s \in StmtsOf[program] /\ s \in RequestStmt
  BY HeadStmt, HeadTailProperties DEF Request, CellInv, CellType, Declared
<1>2. s.token \in program.tokens \cup {NoToken}
  BY <1>1 DEF TokensDeclared, Request, CellInv, Declared
<1>3. e \in Effect
  BY <1>1, EvaluatedType DEF RequestStmt, Effect, CellInv, CellType, TypeOK
<1>4. Elems(effects') = Elems(effects) \cup {e}
  BY <1>3, ElemsAppend DEF Request, CellInv, CellType, TypeOK
<1>5. OpenJobs' = OpenJobs \cup {e}
  <2>1. OpenJobs' =
          {j \in Elems(effects') \cup Elems(submitted) \cup Elems(waiting) :
             j.kind = "request"} \cup ({active} \ {NoJob})
    BY DEF OpenJobs, Elems, arbiterVars
  <2>2. QED
    BY <1>4, <2>1 DEF OpenJobs
<1>6. \A t \in Tokens : QueuedEnds(t)' = QueuedEnds(t)
  BY QueuedSame DEF Request, hostVars
<1>7. \A u \in Tokens : slot'[u] = IF u = s.token THEN nextOccurrence ELSE slot[u]
  BY <1>2, SlotAssumption DEF Request, CellInv, CellType, TypeOK
<1>8. s.token # NoToken => s.token \in Tokens /\ slot[s.token] = NoOccurrence
  BY <1>2, ProgramFields DEF Request, Occupied, CellInv, CellType, TypeOK
<1>9. CorrelationNeverFails'
  <2> SUFFICES ASSUME NEW j \in OpenJobs \cup {e}, j.token # NoToken
               PROVE  slot'[j.token] = j.occurrence
    BY <1>5 DEF CorrelationNeverFails
  <2>1. CASE j = e
    BY <1>7, <1>8, <2>1
  <2>2. CASE j \in OpenJobs
    <3>1. j.token \in Tokens /\ slot[j.token] = j.occurrence /\ j.occurrence \in Nat
      BY <2>2, OpenIsCurrent, OpenJobType DEF CellInv
    <3>2. j.token # s.token
      BY <1>8, <3>1, SlotAssumption
    <3>3. QED
      BY <1>7, <3>1, <3>2
  <2>3. QED
    BY <2>1, <2>2
<1>10. EndsAreOver'
  <2>1. \A t \in Tokens : nextOccurrence \notin QueuedEnds(t)
    BY QueuedEndIssued DEF CellInv, CellType
  <2>2. QED
    BY <1>5, <1>6, <2>1 DEF CellInv, Books, EndsAreOver
<1>11. HoldersAtWork'
  <2> SUFFICES ASSUME NEW t \in Tokens, slot'[t] # NoOccurrence
               PROVE  \/ \E j \in OpenJobs' : j.token = t /\ j.occurrence = slot'[t]
                      \/ slot'[t] \in QueuedEnds(t)'
    BY DEF HoldersAtWork
  <2>1. CASE t = s.token
    <3>1. e \in OpenJobs' /\ e.token = t /\ e.occurrence = slot'[t]
      BY <1>5, <1>7, <2>1
    <3>2. QED
      BY <3>1
  <2>2. CASE t # s.token
    BY <1>5, <1>6, <1>7, <2>2 DEF CellInv, Books, HoldersAtWork
  <2>3. QED
    BY <2>1, <2>2
<1>12. QED
  BY <1>9, <1>10, <1>11 DEF Books

\* A refusal is no job and no end.
LEMMA RequestBusyBooks ==
  ASSUME CellInv, RequestBusy, UNCHANGED arbiterVars
  PROVE  Books'
<1> DEFINE t == Head(agenda).token
           e == [kind |-> "busy", token |-> t, occurrence |-> nextOccurrence]
           p == [token |-> t, occurrence |-> nextOccurrence, outcome |-> "busy"]
<1>1. t \in Tokens
  BY ProgramFields DEF RequestBusy, Occupied, CellInv, CellType, TypeOK
<1>2. e \in Effect /\ p \in Pending
  BY <1>1 DEF Effect, Pending, TokenEvent, CellInv, CellType, TypeOK
<1>3. Elems(effects') = Elems(effects) \cup {e}
  BY <1>2, ElemsAppend DEF RequestBusy, CellInv, CellType, TypeOK
<1>4. UNCHANGED OpenJobs
  <2>1. OpenJobs' =
          {j \in Elems(effects') \cup Elems(submitted) \cup Elems(waiting) :
             j.kind = "request"} \cup ({active} \ {NoJob})
    BY DEF OpenJobs, Elems, arbiterVars
  <2>2. QED
    BY <1>3, <2>1 DEF OpenJobs
<1>5. p.outcome \notin TerminalEvent
  BY DEF TerminalEvent
<1>6. \A u \in Tokens : QueuedEnds(u)' = QueuedEnds(u)
  BY <1>2, <1>5, QueuedAppend DEF RequestBusy, CellInv, CellType
<1>7. QED
  BY <1>4, <1>6, BooksKept DEF RequestBusy, CellInv

\* A tick takes all queued outcomes over.
LEMMA TickBooks ==
  ASSUME CellInv, NEW o, Tick(o), UNCHANGED arbiterVars
  PROVE  Books'
<1>1. UNCHANGED <<slot, OpenJobs>>
  BY DEF Tick, OpenJobs, Elems, arbiterVars
<1>2. inbox = <<>> /\ outcomes' = <<>> /\ inbox' = outcomes
  BY DEF Tick, CellInv, Drained
<1>3. Elems(<<>>) = {}
  BY DEF Elems
<1>4. Elems(outcomes') \cup Elems(inbox') = Elems(outcomes) \cup Elems(inbox)
  BY <1>2, <1>3
<1>5. ASSUME NEW t \in Tokens PROVE QueuedEnds(t)' = QueuedEnds(t)
  <2>1. QueuedEnds(t)' =
          {q.occurrence : q \in {r \in Elems(outcomes') \cup Elems(inbox') :
                                   r.token = t /\ r.outcome \in TerminalEvent}}
    BY DEF QueuedEnds, Elems
  <2>2. QED
    BY <1>4, <2>1 DEF QueuedEnds
<1>6. QED
  BY <1>1, <1>5, BooksKept DEF CellInv

\* The other steps of a call touch neither tokens nor queues nor jobs.
LEMMA QuietBooks ==
  ASSUME CellInv, UNCHANGED <<slot, outcomes, inbox, effects, arbiterVars>>
  PROVE  Books'
<1>1. UNCHANGED OpenJobs
  BY DEF OpenJobs, Elems, arbiterVars
<1>2. QED
  BY <1>1, QueuedSame, BooksKept DEF CellInv

\* What the call returns goes on to the arbiter.
LEMMA ReturnBooks ==
  ASSUME CellInv, Return
  PROVE  Books'
<1>1. effects' = <<>> /\ UNCHANGED <<slot, outcomes, inbox, active, waiting>>
  BY DEF Return, EndTick, EndCycle
<1>2. Elems(submitted') = Elems(submitted) \cup Elems(effects)
  BY ElemsConcat DEF Return, CellInv, CellType, TypeOK
<1>3. Elems(effects') = {}
  BY <1>1 DEF Elems
<1>4. UNCHANGED OpenJobs
  <2>1. OpenJobs' =
          {j \in Elems(effects') \cup Elems(submitted') \cup Elems(waiting) :
             j.kind = "request"} \cup ({active} \ {NoJob})
    BY <1>1 DEF OpenJobs, Elems
  <2>2. QED
    BY <1>2, <1>3, <2>1 DEF OpenJobs
<1>5. QED
  BY <1>1, <1>4, QueuedSame, BooksKept DEF CellInv

-----------------------------------------------------------------------------
(* Each step of the arbiter keeps the books                                 *)

\* The effect the arbiter turns to is a job of its own, behind the active one
\* and before what the running call collects.
LEMMA HeadJob ==
  ASSUME CellInv, Requested
  PROVE  /\ Head(submitted) \in Job /\ Head(submitted) \in OpenJobs
         /\ Tail(submitted) \in Seq(Effect)
         /\ Elems(submitted) = {Head(submitted)} \cup Elems(Tail(submitted))
         /\ \A x \in Elems(Tail(submitted)) \cup Elems(effects) :
              Head(submitted).occurrence < x.occurrence
         /\ \A x \in Elems(waiting) \cup ({active} \ {NoJob}) :
              x.occurrence < Head(submitted).occurrence
<1> DEFINE job == Head(submitted)
<1>1. /\ job \in Effect /\ job.kind = "request" /\ Tail(submitted) \in Seq(Effect)
      /\ Elems(submitted) = {job} \cup Elems(Tail(submitted))
  BY HeadTailProperties, ElemsTail DEF CellInv, CellType, Requested
<1>2. \A x \in Elems(Tail(submitted)) : job.occurrence < x.occurrence
  BY SortedTail DEF CellInv, CellType, InOrder, Requested
<1>3. /\ \A x \in Elems(effects) : job.occurrence < x.occurrence
      /\ \A x \in Elems(waiting) \cup ({active} \ {NoJob}) : x.occurrence < job.occurrence
  BY <1>1 DEF CellInv, InOrder, Before
<1>4. QED
  BY <1>1, <1>2, <1>3 DEF Job, OpenJobs

\* An admitted job is active or waiting.
LEMMA AdmissionBooks ==
  ASSUME CellInv, Start \/ Enqueue
  PROVE  Books'
<1> DEFINE job == Head(submitted)
<1>1. /\ Notify(job, "admitted") /\ Requested /\ submitted' = Tail(submitted)
  BY DEF Start, Enqueue
<1>2. /\ job \in Job /\ job \in OpenJobs
      /\ Elems(submitted) = {job} \cup Elems(submitted')
  BY <1>1, HeadJob
<1>3. UNCHANGED effects
  BY <1>1 DEF Notify, DeliverOutcome, vars
<1>4. ({active'} \ {NoJob}) \cup Elems(waiting') =
        ({active} \ {NoJob}) \cup Elems(waiting) \cup {job}
  <2>1. CASE Start
    BY <1>2, <2>1, EffectFields DEF Start, Job
  <2>2. CASE Enqueue
    <3>1. Elems(waiting') = Elems(waiting) \cup {job}
      BY <1>2, <2>2, ElemsAppend DEF Enqueue, CellInv, CellType
    <3>2. QED
      BY <2>2, <3>1 DEF Enqueue
  <2>3. QED
    BY <2>1, <2>2
<1>5. \A j \in Elems(waiting) \cup Elems(waiting') : j.kind = "request"
  <2>1. Elems(waiting) \subseteq Job
    BY ElemsType DEF CellInv, CellType
  <2>2. CASE Start
    BY <2>1, <2>2 DEF Start, Job
  <2>3. CASE Enqueue
    <3>1. Elems(waiting') = Elems(waiting) \cup {job}
      BY <1>2, <2>3, ElemsAppend DEF Enqueue, CellInv, CellType
    <3>2. QED
      BY <1>2, <2>1, <3>1 DEF Job
  <2>4. QED
    BY <2>2, <2>3
<1>6. UNCHANGED OpenJobs
  <2>1. OpenJobs' =
          {j \in Elems(effects') \cup Elems(submitted') \cup Elems(waiting') :
             j.kind = "request"} \cup ({active'} \ {NoJob})
    BY DEF OpenJobs, Elems
  <2>2. job.kind = "request"
    BY <1>2 DEF Job
  <2>3. QED
    BY <1>2, <1>3, <1>4, <1>5, <2>1, <2>2 DEF OpenJobs
<1>7. QED
  BY <1>1, <1>2, <1>6, AdmitBooks

\* A rejected job is over.
LEMMA RejectBooks ==
  ASSUME CellInv, Reject
  PROVE  Books'
<1> DEFINE job == Head(submitted)
<1>1. /\ Notify(job, "rejected") /\ Requested /\ submitted' = Tail(submitted)
      /\ UNCHANGED <<active, waiting, effects>>
  BY DEF Reject, Notify, DeliverOutcome, vars
<1>2. /\ job \in OpenJobs /\ job.kind = "request"
      /\ Elems(submitted) = {job} \cup Elems(submitted')
      /\ \A x \in Elems(submitted') \cup Elems(effects) : job.occurrence < x.occurrence
      /\ \A x \in Elems(waiting) \cup ({active} \ {NoJob}) : x.occurrence < job.occurrence
  BY <1>1, HeadJob DEF Job
<1>3. OpenJobs' =
        {j \in Elems(effects) \cup Elems(submitted') \cup Elems(waiting) :
           j.kind = "request"} \cup ({active} \ {NoJob})
  BY <1>1 DEF OpenJobs, Elems
<1>4. OpenJobs = OpenJobs' \cup {job}
  BY <1>2, <1>3 DEF OpenJobs
<1>5. ASSUME NEW j \in OpenJobs' PROVE j.occurrence # job.occurrence
  <2>1. j.occurrence \in Nat /\ job.occurrence \in Nat
    BY <1>2, <1>4, OpenJobType DEF CellInv
  <2>2. j.occurrence < job.occurrence \/ job.occurrence < j.occurrence
    BY <1>2, <1>3
  <2>3. QED
    BY <2>1, <2>2
<1>6. QED
  BY <1>1, <1>2, <1>4, <1>5, EndBooks DEF TerminalEvent

\* The active job is over, and the next one takes its place.
LEMMA FinishBooks ==
  ASSUME CellInv, NEW ev \in TerminalEvent, Finish(ev)
  PROVE  Books'
<1>1. /\ Notify(active, ev) /\ active # NoJob
      /\ UNCHANGED <<submitted, effects>>
  BY DEF Finish, Notify, DeliverOutcome, vars
<1>2. active \in OpenJobs /\ active \in Job
  BY <1>1 DEF OpenJobs, CellInv, CellType
<1>3. ({active'} \ {NoJob}) \cup Elems(waiting') = Elems(waiting)
  <2>1. CASE waiting = <<>>
    BY <2>1 DEF Finish, Elems
  <2>2. CASE waiting # <<>>
    <3>1. Elems(waiting) = {Head(waiting)} \cup Elems(Tail(waiting)) /\ Head(waiting) \in Job
      BY <2>2, ElemsTail, HeadTailProperties DEF CellInv, CellType
    <3>2. Head(waiting) # NoJob
      BY <3>1, EffectFields DEF Job
    <3>3. QED
      BY <2>2, <3>1, <3>2 DEF Finish
  <2>3. QED
    BY <2>1, <2>2
<1>4. \A x \in Elems(waiting) \cup Elems(submitted) \cup Elems(effects) :
        active.occurrence < x.occurrence
  BY <1>1 DEF CellInv, InOrder
<1>5. Elems(waiting) \subseteq Job
  BY ElemsType DEF CellInv, CellType
<1>6. OpenJobs' =
        {j \in Elems(effects) \cup Elems(submitted) \cup Elems(waiting') :
           j.kind = "request"} \cup ({active'} \ {NoJob})
  BY <1>1 DEF OpenJobs, Elems
<1>7. OpenJobs' =
        {j \in Elems(effects) \cup Elems(submitted) \cup Elems(waiting) :
           j.kind = "request"}
  BY <1>3, <1>5, <1>6 DEF Job
<1>8. OpenJobs = OpenJobs' \cup {active}
  BY <1>1, <1>7 DEF OpenJobs
<1>9. ASSUME NEW j \in OpenJobs' PROVE j.occurrence # active.occurrence
  <2>1. j.occurrence \in Nat /\ active.occurrence \in Nat
    BY <1>2, <1>8, OpenJobType DEF CellInv
  <2>2. active.occurrence < j.occurrence
    BY <1>4, <1>7
  <2>3. QED
    BY <2>1, <2>2
<1>10. QED
  BY <1>1, <1>2, <1>8, <1>9, EndBooks

\* A refusal the arbiter passes over is no job.
LEMMA PassBusyBooks ==
  ASSUME CellInv, PassBusy
  PROVE  Books'
<1>1. /\ submitted # <<>> /\ Head(submitted).kind # "request"
      /\ submitted' = Tail(submitted)
      /\ UNCHANGED <<active, waiting, effects, slot, outcomes, inbox>>
  BY DEF PassBusy, Requested, vars
<1>2. Elems(submitted) = {Head(submitted)} \cup Elems(submitted')
  BY <1>1, ElemsTail DEF CellInv, CellType
<1>3. OpenJobs' =
        {j \in Elems(effects) \cup Elems(submitted') \cup Elems(waiting) :
           j.kind = "request"} \cup ({active} \ {NoJob})
  BY <1>1 DEF OpenJobs, Elems
<1>4. UNCHANGED OpenJobs
  BY <1>1, <1>2, <1>3 DEF OpenJobs
<1>5. QED
  BY <1>1, <1>4, QueuedSame, BooksKept DEF CellInv

-----------------------------------------------------------------------------
(* The rest of the invariant                                                *)

\* What the arbiter tells the process is well typed and keeps the leases sound.
LEMMA NotifySound ==
  ASSUME CellInv, NEW job \in OpenJobs, NEW ev \in TokenEvent, ev # "busy",
         Notify(job, ev)
  PROVE  TypeOK' /\ LeaseInv'
<1>1. CASE job.token = NoToken
  <2>1. UNCHANGED vars
    BY <1>1 DEF Notify
  <2>2. QED
    BY <2>1, NextTypeOK, NextLeaseInv DEF CellInv, CellType
<1>2. CASE job.token # NoToken
  <2> DEFINE p == [token |-> job.token, occurrence |-> job.occurrence, outcome |-> ev]
  <2>1. /\ p \in Pending /\ outcomes' = Append(outcomes, p)
        /\ UNCHANGED <<program, state, prev, slot, nextOccurrence, phase, obs, inbox,
                       reaction, agenda, effects, heard>>
    BY <1>2, NotifyQueues
  <2>2. outcomes' \in Seq(Pending)
    BY <2>1, AppendProperties DEF CellInv, CellType, TypeOK
  <2>3. TypeOK'
    BY <2>1, <2>2 DEF CellInv, CellType, TypeOK, Reactions
  <2>4. Correlates(p)
    BY <1>2, OpenIsCurrent DEF Correlates
  <2>5. LeaseInv'
    BY <2>1, <2>4, AppendLease DEF CellInv, CellType
  <2>6. QED
    BY <2>3, <2>5
<1>3. QED
  BY <1>1, <1>2

\* A step of the runtime that is no step of the arbiter.
Called ==
  \/ Compute
  \/ Return
  \/ ControlTick
  \/ BackgroundCycle

\* Calls take the steps of the runtime.
LEMMA CalledIsNext == Called => Next
BY DEF Called, Compute, Return, ControlTick, BackgroundCycle, Next, Inside, Host

\* Every step of the cell keeps the types and the leases of the runtime.
LEMMA CellSound ==
  ASSUME CellInv, CellNext
  PROVE  TypeOK' /\ LeaseInv'
<1>1. CASE Called
  BY <1>1, CalledIsNext, NextTypeOK, NextLeaseInv DEF CellInv, CellType
<1>2. CASE Start \/ Enqueue
  BY <1>2, HeadJob, NotifySound DEF Start, Enqueue, TokenEvent
<1>3. CASE Reject
  BY <1>3, HeadJob, NotifySound DEF Reject, TokenEvent, TerminalEvent
<1>4. CASE PassBusy
  BY <1>4, NextTypeOK, NextLeaseInv DEF PassBusy, CellInv, CellType
<1>5. ASSUME NEW ev \in TerminalEvent, Finish(ev) PROVE TypeOK' /\ LeaseInv'
  <2>1. active \in OpenJobs
    BY <1>5 DEF OpenJobs, Finish
  <2>2. ev \in TokenEvent /\ ev # "busy"
    BY DEF TokenEvent, TerminalEvent
  <2>3. QED
    BY <1>5, <2>1, <2>2, NotifySound DEF Finish
<1>6. QED
  BY <1>1, <1>2, <1>3, <1>4, <1>5 DEF CellNext, Arbiter, Called

\* What the arbiter holds keeps its type.
LEMMA ArbiterType ==
  ASSUME CellInv, CellNext
  PROVE  /\ submitted' \in Seq(Effect) /\ waiting' \in Seq(Job)
         /\ active' \in Job \cup {NoJob}
<1>1. /\ submitted \in Seq(Effect) /\ waiting \in Seq(Job) /\ active \in Job \cup {NoJob}
      /\ effects \in Seq(Effect) /\ <<>> \in Seq(Job)
  BY EmptySeq DEF CellInv, CellType, TypeOK
<1>2. CASE Return
  BY <1>1, <1>2, ConcatProperties DEF Return
<1>3. CASE Start
  BY <1>1, <1>3, HeadJob DEF Start
<1>4. CASE Enqueue
  BY <1>1, <1>4, HeadJob, AppendProperties DEF Enqueue
<1>5. CASE Reject
  BY <1>1, <1>5, HeadJob DEF Reject
<1>6. CASE PassBusy
  BY <1>1, <1>6, HeadTailProperties DEF PassBusy
<1>7. ASSUME NEW ev, Finish(ev)
      PROVE  /\ submitted' \in Seq(Effect) /\ waiting' \in Seq(Job)
             /\ active' \in Job \cup {NoJob}
  BY <1>1, <1>7, HeadTailProperties DEF Finish
<1>8. CASE UNCHANGED arbiterVars
  BY <1>1, <1>8 DEF arbiterVars
<1>9. QED
  BY <1>2, <1>3, <1>4, <1>5, <1>6, <1>7, <1>8
     DEF CellNext, Arbiter, Compute, ControlTick, BackgroundCycle

\* Ended occurrences stay ended.
LEMMA EndedGrows ==
  ASSUME heard \subseteq heard'
  PROVE  Ended \subseteq Ended'
BY DEF Ended

\* A tick drains before it reacts, and what it notifies of has been heard.
LEMMA DrainedKept ==
  ASSUME CellInv, CellNext
  PROVE  Drained'
<1>1. CASE ApplyOutcome
  <2> DEFINE p == Head(inbox)
  <2>1. phase' = "notify" /\ inbox' = inbox
        /\ heard' = heard \cup {<<p.occurrence, p.outcome>>}
    BY <1>1 DEF ApplyOutcome
  <2>2. p.outcome \in TerminalEvent => p.occurrence \in Ended'
    BY <2>1, EndedStep
  <2>3. QED
    BY <2>1, <2>2 DEF Drained
<1>2. CASE DropOutcome \/ EndNotify
  BY <1>2 DEF DropOutcome, EndNotify, Drained
<1>3. CASE EvaluateReaction \/ Exec
  <2>1. UNCHANGED <<phase, inbox, heard>>
    BY <1>3 DEF EvaluateReaction, Exec, SetState, Request, RequestBusy, Branch, hostVars
  <2>2. QED
    BY <2>1, EndedGrows DEF CellInv, Drained
<1>4. CASE StartReactions
  BY <1>4 DEF StartReactions, Drained
<1>5. CASE Return
  BY <1>5 DEF Return, EndTick, EndCycle, CellInv, Drained
<1>6. CASE ControlTick
  BY <1>6 DEF ControlTick, Tick, Drained
<1>7. CASE BackgroundCycle
  BY <1>7 DEF BackgroundCycle, RunCycle, CellInv, Drained
<1>8. CASE Arbiter
  <2>1. UNCHANGED <<phase, inbox, heard>>
    BY <1>8 DEF Arbiter, Start, Enqueue, Reject, PassBusy, Finish, Notify,
                DeliverOutcome, vars
  <2>2. QED
    BY <2>1, EndedGrows DEF CellInv, Drained
<1>9. QED
  BY <1>1, <1>2, <1>3, <1>4, <1>5, <1>6, <1>7, <1>8
     DEF CellNext, Compute, Inside, EndTick, EndCycle

\* The statements that run are those of the process.
LEMMA AgendaKept ==
  ASSUME CellInv, CellNext
  PROVE  program' = program /\ agenda' \in Seq(StmtsOf[program])
<1> DEFINE S == StmtsOf[program]
<1>1. program \in Programs /\ agenda \in Seq(S) /\ <<>> \in Seq(S)
  BY EmptySeq DEF CellInv, Declared
<1>2. CASE EvaluateReaction
  <2>1. reaction \in 1 .. Len(Reactions) /\ DOMAIN Reactions = 1 .. Len(Reactions)
    BY <1>2, ProgramFields, LenProperties
       DEF EvaluateReaction, CellInv, CellType, TypeOK, Reactions
  <2>2. Reactions[reaction].body \in Seq(S)
    BY <1>1, <2>1, StatementAssumption DEF Reactions
  <2>3. QED
    BY <1>1, <1>2, <2>2 DEF EvaluateReaction
<1>3. CASE SetState \/ Request \/ RequestBusy
  BY <1>1, <1>3, HeadTailProperties DEF SetState, Request, RequestBusy, hostVars
<1>4. CASE Branch
  <2>1. Head(agenda) \in S /\ Tail(agenda) \in Seq(S) /\ Head(agenda).op = "if"
    BY <1>1, <1>4, HeadTailProperties DEF Branch
  <2>2. Head(agenda).then \in Seq(S) /\ Head(agenda).else \in Seq(S)
    BY <1>1, <2>1, StatementAssumption
  <2>3. QED
    BY <1>4, <2>1, <2>2, ConcatProperties DEF Branch, hostVars
<1>5. CASE BackgroundCycle
  <2>1. Cycle \in Seq(S)
    BY <1>1, StatementAssumption DEF Cycle
  <2>2. QED
    BY <1>5, <2>1 DEF BackgroundCycle, RunCycle
<1>6. CASE UNCHANGED <<program, agenda>>
  BY <1>1, <1>6
<1>7. QED
  <2>1. CASE Compute
    BY <2>1, <1>2, <1>3, <1>4, <1>6
       DEF Compute, Inside, Exec, ApplyOutcome, DropOutcome, EndNotify,
           StartReactions, EndTick, EndCycle
  <2>2. CASE Return \/ ControlTick \/ BackgroundCycle
    BY <2>2, <1>5, <1>6 DEF Return, EndTick, EndCycle, ControlTick, Tick
  <2>3. CASE Arbiter
    BY <2>3, <1>6 DEF Arbiter, Start, Enqueue, Reject, PassBusy, Finish, Notify,
                      DeliverOutcome, vars
  <2>4. QED
    BY <2>1, <2>2, <2>3 DEF CellNext

\* Only requests take tokens, and they take declared ones.
LEMMA HeldDeclared ==
  ASSUME CellInv, CellNext, NEW t \in Tokens, slot'[t] # NoOccurrence
  PROVE  t \in program.tokens
<1>1. slot[t] # NoOccurrence => t \in program.tokens
  BY DEF CellInv, Declared
<1>2. CASE ApplyOutcome
  BY <1>1, <1>2 DEF ApplyOutcome, CellInv, CellType, TypeOK
<1>3. CASE Request
  BY <1>1, <1>3 DEF Request, CellInv, CellType, TypeOK
<1>4. CASE UNCHANGED slot
  BY <1>1, <1>4
<1>5. QED
  <2>1. CASE Compute
    BY <2>1, <1>2, <1>3, <1>4
       DEF Compute, Inside, Exec, DropOutcome, EvaluateReaction, EndNotify,
           StartReactions, EndTick, EndCycle, SetState, RequestBusy, Branch, hostVars
  <2>2. CASE Return \/ ControlTick \/ BackgroundCycle
    BY <2>2, <1>4 DEF Return, EndTick, EndCycle, ControlTick, Tick, BackgroundCycle,
                      RunCycle
  <2>3. CASE Arbiter
    BY <2>3, <1>4 DEF Arbiter, Start, Enqueue, Reject, PassBusy, Finish, Notify,
                      DeliverOutcome, vars
  <2>4. QED
    BY <2>1, <2>2, <2>3 DEF CellNext

\* A new effect has the greatest number and goes to the end.
LEMMA OrderAppend ==
  ASSUME CellInv, NEW e \in Effect, e.occurrence = nextOccurrence,
         effects' = Append(effects, e), nextOccurrence' = nextOccurrence + 1,
         UNCHANGED arbiterVars
  PROVE  InOrder'
<1>1. Elems(effects') = Elems(effects) \cup {e}
  BY ElemsAppend DEF CellInv, CellType, TypeOK
<1>2. /\ nextOccurrence \in Nat
      /\ \A x \in Elems(waiting) \cup Elems(submitted) \cup Elems(effects) :
           x.occurrence \in Nat
      /\ active # NoJob => active.occurrence \in Nat
  BY ElemsType, EffectFields DEF CellInv, CellType, TypeOK, Job
<1>3. Sorted(effects')
  BY SortedAppend DEF CellInv, CellType, TypeOK, InOrder
<1>4. UNCHANGED <<waiting, submitted, active>>
  BY DEF arbiterVars
<1>5. \A x \in Elems(waiting) \cup Elems(submitted) \cup Elems(effects') :
        /\ x.occurrence < nextOccurrence'
        /\ active # NoJob => active.occurrence < x.occurrence
  BY <1>1, <1>2 DEF CellInv, InOrder
<1>6. Before(waiting, effects') /\ Before(submitted, effects')
  BY <1>1, <1>2 DEF CellInv, InOrder, Before
<1>7. active # NoJob => active.occurrence < nextOccurrence'
  BY <1>2 DEF CellInv, InOrder
<1>8. QED
  BY <1>3, <1>4, <1>5, <1>6, <1>7 DEF CellInv, InOrder, Before, Sorted, Elems

\* The order of numbers survives every step: effects join the queue behind those
\* of earlier calls, and jobs leave it at its head.
LEMMA InOrderKept ==
  ASSUME CellInv, CellNext
  PROVE  InOrder'
<1> DEFINE W == Elems(waiting)
           Q == Elems(submitted)
           F == Elems(effects)
<1>a. /\ submitted \in Seq(Effect) /\ waiting \in Seq(Job) /\ effects \in Seq(Effect)
      /\ nextOccurrence \in Nat
  BY DEF CellInv, CellType, TypeOK
<1>b. \A x \in W \cup Q \cup F \cup ({active} \ {NoJob}) : x.occurrence \in Nat
  BY ElemsType, EffectFields DEF CellInv, CellType, TypeOK, Job
<1>c. Elems(<<>>) = {} /\ Sorted(<<>>)
  BY DEF Elems, Sorted
<1>1. CASE UNCHANGED <<waiting, submitted, effects, active, nextOccurrence>>
  BY <1>1 DEF CellInv, InOrder, Before, Sorted, Elems
<1>2. CASE Exec /\ UNCHANGED arbiterVars
  <2>1. CASE SetState \/ Branch
    BY <1>1, <1>2, <2>1 DEF SetState, Branch, arbiterVars
  <2>2. CASE Request
    <3>1. Head(agenda) \in RequestStmt
      BY <2>2, HeadStmt DEF Request, CellInv, CellType
    <3>2. [kind |-> "request", work |-> Head(agenda).work,
           args |-> Evaluated(Head(agenda).args), token |-> Head(agenda).token,
           occurrence |-> nextOccurrence] \in Effect
      BY <1>a, <3>1, EvaluatedType DEF RequestStmt, Effect, CellInv, CellType
    <3>3. QED
      BY <1>2, <2>2, <3>2, OrderAppend DEF Request
  <2>3. CASE RequestBusy
    <3>1. Head(agenda).token \in Tokens
      BY <2>3, ProgramFields DEF RequestBusy, Occupied, CellInv, CellType, TypeOK
    <3>2. [kind |-> "busy", token |-> Head(agenda).token,
           occurrence |-> nextOccurrence] \in Effect
      BY <1>a, <3>1 DEF Effect
    <3>3. QED
      BY <1>2, <2>3, <3>2, OrderAppend DEF RequestBusy
  <2>4. QED
    BY <1>2, <2>1, <2>2, <2>3 DEF Exec
<1>3. CASE Return
  <2>1. effects' = <<>> /\ UNCHANGED <<active, waiting, nextOccurrence>>
    BY <1>3 DEF Return, EndTick, EndCycle
  <2>2. Elems(submitted') = Q \cup F /\ Elems(effects') = {}
    BY <1>3, <1>a, <1>c, <2>1, ElemsConcat DEF Return
  <2>3. Sorted(submitted')
    BY <1>3, <1>a, SortedConcat DEF Return, CellInv, InOrder
  <2>4. Before(waiting, submitted') /\ Before(waiting, effects')
        /\ Before(submitted', effects')
    BY <2>2 DEF CellInv, InOrder, Before
  <2>5. QED
    BY <1>c, <2>1, <2>2, <2>3, <2>4 DEF CellInv, InOrder, Before, Sorted, Elems
<1>4. CASE Start \/ Enqueue \/ Reject \/ PassBusy
  <2>1. submitted # <<>> /\ submitted' = Tail(submitted)
        /\ UNCHANGED <<effects, nextOccurrence>>
    BY <1>4 DEF Start, Enqueue, Reject, PassBusy, Requested, Notify, DeliverOutcome, vars
  <2>2. Q = {Head(submitted)} \cup Elems(submitted') /\ Sorted(submitted')
        /\ \A x \in Elems(submitted') : Head(submitted).occurrence < x.occurrence
    BY <1>a, <2>1, ElemsTail, SortedTail DEF CellInv, InOrder
  <2>3. Before(submitted', effects) /\ Before(waiting, submitted')
    BY <2>2 DEF CellInv, InOrder, Before
  <2>4. CASE Reject \/ PassBusy
    <3>1. UNCHANGED <<active, waiting>>
      BY <2>4 DEF Reject, PassBusy
    <3>2. QED
      BY <2>1, <2>2, <2>3, <3>1 DEF CellInv, InOrder, Before, Sorted, Elems
  <2>5. CASE Start
    <3>1. waiting = <<>> /\ waiting' = <<>> /\ active' = Head(submitted)
      BY <2>5 DEF Start, CellInv, InOrder
    <3>2. Before(<<>>, submitted') /\ Before(<<>>, effects)
      BY <1>c DEF Before
    <3>3. Head(submitted) \in Q /\ \A x \in F : Head(submitted).occurrence < x.occurrence
      BY <2>2 DEF CellInv, InOrder, Before
    <3>4. \A x \in Elems(submitted') \cup F :
            x.occurrence < nextOccurrence /\ Head(submitted).occurrence < x.occurrence
      BY <2>2, <3>3 DEF CellInv, InOrder
    <3>5. Head(submitted).occurrence < nextOccurrence
      BY <3>3 DEF CellInv, InOrder
    <3>6. QED
      BY <1>c, <2>1, <2>2, <2>3, <3>1, <3>2, <3>4, <3>5
         DEF CellInv, InOrder, Before, Sorted, Elems
  <2>6. CASE Enqueue
    <3>1. active # NoJob /\ active' = active /\ waiting' = Append(waiting, Head(submitted))
      BY <2>6 DEF Enqueue
    <3>2. Head(submitted) \in Job /\ Head(submitted) \in Q
      BY <2>2, <2>6, HeadJob DEF Enqueue
    <3>3. Elems(waiting') = W \cup {Head(submitted)}
      BY <1>a, <3>1, <3>2, ElemsAppend
    <3>4. Sorted(waiting')
      BY <1>a, <3>1, <3>2, SortedAppend DEF CellInv, InOrder, Before
    <3>5. Before(waiting', submitted') /\ Before(waiting', effects)
      BY <2>2, <2>3, <3>2, <3>3 DEF CellInv, InOrder, Before
    <3>6. \A x \in Elems(waiting') \cup Elems(submitted') \cup F :
            x.occurrence < nextOccurrence /\ active.occurrence < x.occurrence
      BY <2>2, <3>1, <3>2, <3>3 DEF CellInv, InOrder
    <3>7. /\ Before(waiting', submitted') /\ Before(waiting', effects')
          /\ Before(submitted', effects')
      BY <2>1, <2>3, <3>5
    <3>8. Sorted(waiting') /\ Sorted(submitted') /\ Sorted(effects')
      BY <2>1, <2>2, <3>4 DEF CellInv, InOrder
    <3>9. /\ \A x \in Elems(waiting') \cup Elems(submitted') \cup Elems(effects') :
               x.occurrence < nextOccurrence' /\ active'.occurrence < x.occurrence
          /\ active'.occurrence < nextOccurrence'
      BY <2>1, <3>1, <3>6 DEF CellInv, InOrder
    <3>10. QED
      BY <3>1, <3>7, <3>8, <3>9 DEF InOrder
  <2>7. QED
    BY <1>4, <2>4, <2>5, <2>6
<1>5. ASSUME NEW ev, Finish(ev) PROVE InOrder'
  <2>1. UNCHANGED <<submitted, effects, nextOccurrence>>
    BY <1>5 DEF Finish, Notify, DeliverOutcome, vars
  <2>2. CASE waiting = <<>>
    <3>1. active' = NoJob /\ waiting' = <<>>
      BY <1>5, <2>2 DEF Finish
    <3>2. QED
      BY <2>1, <2>2, <3>1 DEF CellInv, InOrder, Before, Sorted, Elems
  <2>3. CASE waiting # <<>>
    <3>1. active' = Head(waiting) /\ waiting' = Tail(waiting)
      BY <1>5, <2>3 DEF Finish
    <3>2. /\ W = {Head(waiting)} \cup Elems(waiting') /\ Sorted(waiting')
          /\ \A x \in Elems(waiting') : Head(waiting).occurrence < x.occurrence
      BY <1>a, <2>3, <3>1, ElemsTail, SortedTail DEF CellInv, InOrder
    <3>3. Head(waiting) # NoJob
      BY <1>a, <2>3, HeadTailProperties, EffectFields DEF Job
    <3>4. /\ Before(waiting', submitted) /\ Before(waiting', effects)
          /\ \A x \in Q \cup F : Head(waiting).occurrence < x.occurrence
      BY <3>2 DEF CellInv, InOrder, Before
    <3>5. /\ Head(waiting).occurrence < nextOccurrence
          /\ \A x \in Elems(waiting') \cup Q \cup F :
               x.occurrence < nextOccurrence /\ Head(waiting).occurrence < x.occurrence
      BY <3>2, <3>4 DEF CellInv, InOrder
    <3>6. Before(waiting', submitted') /\ Before(waiting', effects')
      BY <2>1, <3>4
    <3>7. Before(submitted', effects') /\ Sorted(submitted') /\ Sorted(effects')
      BY <2>1 DEF CellInv, InOrder
    <3>8. /\ \A x \in Elems(waiting') \cup Elems(submitted') \cup Elems(effects') :
               x.occurrence < nextOccurrence' /\ active'.occurrence < x.occurrence
          /\ active'.occurrence < nextOccurrence'
      BY <2>1, <3>1, <3>5
    <3>9. QED
      BY <3>1, <3>2, <3>3, <3>6, <3>7, <3>8 DEF InOrder
  <2>4. QED
    BY <2>2, <2>3
<1>6. QED
  <2>1. CASE Compute
    <3>1. UNCHANGED arbiterVars
      BY <2>1 DEF Compute
    <3>2. CASE Exec
      BY <1>2, <3>1, <3>2
    <3>3. CASE ~Exec
      BY <1>1, <2>1, <3>1, <3>3
         DEF Compute, Inside, ApplyOutcome, DropOutcome, EvaluateReaction, EndNotify,
             StartReactions, EndTick, EndCycle, arbiterVars
    <3>4. QED
      BY <3>2, <3>3
  <2>2. CASE ControlTick \/ BackgroundCycle
    BY <1>1, <2>2 DEF ControlTick, Tick, BackgroundCycle, RunCycle, arbiterVars
  <2>3. CASE Arbiter
    BY <1>4, <1>5, <2>3 DEF Arbiter
  <2>4. QED
    BY <1>3, <2>1, <2>2, <2>3 DEF CellNext

\* Jobs, tokens and queued ends stay in step, whoever moves.
LEMMA BooksNext ==
  ASSUME TokensDeclared, CellInv, CellNext
  PROVE  Books'
<1>1. CASE Compute
  <2>1. UNCHANGED arbiterVars /\ Inside /\ ~EndTick /\ ~EndCycle
    BY <1>1 DEF Compute, EndTick, EndCycle
  <2>2. CASE ApplyOutcome
    BY <2>1, <2>2, ApplyBooks
  <2>3. CASE DropOutcome
    BY <2>1, <2>3, DropBooks
  <2>4. CASE EndNotify
    BY <2>1, <2>4, EndNotifyBooks
  <2>5. CASE Request
    BY <2>1, <2>5, RequestBooks
  <2>6. CASE RequestBusy
    BY <2>1, <2>6, RequestBusyBooks
  <2>7. CASE EvaluateReaction \/ StartReactions \/ SetState \/ Branch
    BY <2>1, <2>7, QuietBooks
       DEF EvaluateReaction, StartReactions, SetState, Branch, hostVars
  <2>8. QED
    BY <2>1, <2>2, <2>3, <2>4, <2>5, <2>6, <2>7 DEF Inside, Exec
<1>2. CASE Return
  BY <1>2, ReturnBooks
<1>3. CASE ControlTick
  BY <1>3, TickBooks DEF ControlTick
<1>4. CASE BackgroundCycle
  BY <1>4, QuietBooks DEF BackgroundCycle, RunCycle
<1>5. CASE Arbiter
  BY <1>5, AdmissionBooks, RejectBooks, FinishBooks, PassBusyBooks DEF Arbiter
<1>6. QED
  BY <1>1, <1>2, <1>3, <1>4, <1>5 DEF CellNext

\* The cell starts with nothing on its way.
LEMMA CellInitInv == CellInit => CellInv
<1> SUFFICES ASSUME CellInit PROVE CellInv
  OBVIOUS
<1>1. TypeOK /\ LeaseInv
  BY InitTypeOK, InitLeaseInv DEF CellInit
<1>2. PICK p \in Programs : New(p)
  BY DEF CellInit, Init
<1>3. submitted = <<>> /\ waiting = <<>> /\ active = NoJob
  BY DEF CellInit, ArbiterIdle
<1>4. CellType
  BY <1>1, <1>3, EmptySeq DEF CellType
<1>5. Elems(<<>>) = {}
  BY DEF Elems
<1>6. OpenJobs = {}
  BY <1>2, <1>3, <1>5 DEF OpenJobs, New
<1>7. Drained
  BY <1>2 DEF New, Drained
<1>8. Declared
  BY <1>2, EmptySeq DEF New, Declared
<1>9. InOrder
  BY <1>2, <1>3, <1>5 DEF New, InOrder, Before, Sorted
<1>10. Books
  BY <1>2, <1>6 DEF New, Books, CorrelationNeverFails, EndsAreOver, HoldersAtWork
<1>11. QED
  BY <1>1, <1>4, <1>7, <1>8, <1>9, <1>10 DEF CellInv

\* The invariant is inductive.
LEMMA CellInvNext ==
  ASSUME TokensDeclared
  PROVE  CellInv /\ [CellNext]_cellVars => CellInv'
<1>1. ASSUME CellInv, CellNext PROVE CellInv'
  <2>1. CellType'
    BY <1>1, CellSound, ArbiterType DEF CellType
  <2>2. Declared'
    BY <1>1, AgendaKept, HeldDeclared DEF CellInv, Declared
  <2>3. QED
    BY <1>1, <2>1, <2>2, CellSound, DrainedKept, InOrderKept, BooksNext DEF CellInv
<1>2. ASSUME CellInv, UNCHANGED cellVars PROVE CellInv'
  <2>1. TypeOK' /\ LeaseInv'
    BY <1>2, NextTypeOK, NextLeaseInv DEF CellInv, CellType, cellVars
  <2>2. Books'
    BY <1>2, QuietBooks DEF cellVars, vars
  <2>3. CellType' /\ Drained' /\ Declared' /\ InOrder'
    BY <1>2, <2>1
       DEF CellInv, CellType, Drained, Declared, InOrder, Before, Sorted, Elems, Ended,
           cellVars, vars, arbiterVars
  <2>4. QED
    BY <2>1, <2>2, <2>3 DEF CellInv
<1>3. QED
  BY <1>1, <1>2

\* The invariant holds in every reachable state of a cell whose processes declare
\* the tokens they request.
THEOREM CellInvariant == TokensDeclared => (CellSpec => []CellInv)
<1> SUFFICES ASSUME TokensDeclared PROVE CellSpec => []CellInv
  OBVIOUS
<1>1. CellInv /\ [CellNext]_cellVars => CellInv'
  BY CellInvNext
<1>2. QED
  BY <1>1, CellInitInv, PTL DEF CellSpec

\* No lease is orphaned, whatever the process asks for and whatever the arbiter
\* decides: the occurrence that holds a token is an open job, or its end is
\* queued for the next tick, never both and never neither.
THEOREM NoLeaseOrphaned == TokensDeclared => (CellSpec => []LeaseAccounted)
<1>1. CellInv => LeaseAccounted
  BY BooksAccount DEF CellInv
<1>2. QED
  BY <1>1, CellInvariant, PTL

\* The runtime never refuses an outcome of the arbiter as stale: every open job
\* that asked for a token still holds it.
THEOREM OutcomesNeverStale == TokensDeclared => (CellSpec => []CorrelationNeverFails)
<1>1. CellInv => CorrelationNeverFails
  BY DEF CellInv, Books
<1>2. QED
  BY <1>1, CellInvariant, PTL

\* Beside an arbiter, too, the runtime implements token leases: nothing the
\* arbiter does takes or frees a token by itself.
THEOREM CellRefinement == TokensDeclared => (CellSpec => ImplementsTokenLease)
<1>1. CellInit => Lease!LeaseInit
  BY LeaseInitStep DEF CellInit
<1>2. ASSUME CellInv, [CellNext]_cellVars
      PROVE  [Lease!LeaseNext]_(Lease!leaseVars)
  <2>1. CASE Called \/ UNCHANGED cellVars
    BY <1>2, <2>1, CalledIsNext, LeaseNextStep DEF CellInv, CellType, cellVars
  <2>2. CASE Arbiter
    <3>1. UNCHANGED <<slot, nextOccurrence, heard>>
      BY <2>2 DEF Arbiter, Start, Enqueue, Reject, PassBusy, Finish, Notify,
                  DeliverOutcome, vars
    <3>2. QED
      BY <3>1 DEF Lease!leaseVars, Ended
  <2>3. QED
    BY <1>2, <2>1, <2>2 DEF CellNext, Called
<1>3. CellInv /\ [CellNext]_cellVars => [Lease!LeaseNext]_(Lease!leaseVars)
  BY <1>2
<1>4. QED
  BY <1>1, <1>3, CellInvariant, PTL
     DEF CellSpec, ImplementsTokenLease, Lease!LeaseSpec

=============================================================================
