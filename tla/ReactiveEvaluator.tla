-------------------------- MODULE ReactiveEvaluator --------------------------
(***************************************************************************)
(* ReactiveEvaluator (thalos-language-service, reactive_eval.rs): new      *)
(* flattens a program into instructions with jumps, and step interprets    *)
(* them against the observations of the call until an operation is due, a  *)
(* signal is missing or the end is reached.  A call is unfolded one        *)
(* instruction per action; &mut self keeps calls apart.                    *)
(***************************************************************************)
EXTENDS ReactiveProgram

CONSTANTS
  Programs,    \* bound: programs executed
  Bodies,      \* programs, the branches in them and what follows a statement
  Size,        \* number of statements of a body, those of its branches included
  Idle         \* no call in progress, or none answered yet

AllStatements == UNION {{body[i] : i \in DOMAIN body} : body \in Bodies}

BranchesOf(s) ==
  IF s.op # "if" THEN {} ELSE {s.then} \cup IF s.else = NoElse THEN {} ELSE {s.else}

\* A program is a tree of statements: a branch is smaller than what it stands in.
ASSUME BodyAssumption ==
  /\ Programs \subseteq Bodies /\ Bodies \subseteq Seq(AllStatements)
  /\ Size \in [Bodies -> Nat]
  /\ \A body \in Bodies \ {<<>>} :
       /\ Head(body).op \in {"let", "operate", "await", "if"}
       /\ \A part \in {Tail(body)} \cup BranchesOf(Head(body)) :
            part \in Bodies /\ Size[part] < Size[body]

VARIABLES
  program,     \* the statements passed to new
  code,        \* instructions, with code[pc + 1] the one at pc
  pc,
  locals,      \* name -> value, for the names bound so far
  obs,         \* bundle of the call in progress, or Idle
  answer       \* step returned by the last call, or Idle

vars == <<program, code, pc, locals, obs, answer>>

JumpIfFalse(cond, target) == [op |-> "jif", cond |-> cond, target |-> target]
Jump(target) == [op |-> "jump", target |-> target]
Halt == [op |-> "halt"]

\* Mutants: the branch not taken is entered by one instruction; the jump
\* over it leads to itself.
CompileSkewed(flatten, s, at) ==
  IF s.op # "if" THEN <<s>>
  ELSE LET then == flatten[s.then][at + 1]
           after == at + 1 + Len(then)
       IN IF s.else = NoElse THEN <<JumpIfFalse(s.cond, after)>> \o then
          ELSE LET else == flatten[s.else][after + 1]
               IN  <<JumpIfFalse(s.cond, after)>> \o then
                   \o <<Jump(after + 1 + Len(else))>> \o else

CompileLooping(flatten, s, at) ==
  IF s.op # "if" THEN <<s>>
  ELSE LET then == flatten[s.then][at + 1]
           after == at + 1 + Len(then)
       IN IF s.else = NoElse THEN <<JumpIfFalse(s.cond, after)>> \o then
          ELSE LET else == flatten[s.else][after + 1]
               IN  <<JumpIfFalse(s.cond, after + 1)>> \o then
                   \o <<Jump(after)>> \o else

\* The instructions of a statement whose first one stands at address at, given
\* those of a branch at any address.
CompileStatement(flatten, s, at) ==
  IF s.op # "if" THEN <<s>>
  ELSE LET then == flatten[s.then][at + 1]
           after == at + 1 + Len(then)
       IN IF s.else = NoElse THEN <<JumpIfFalse(s.cond, after)>> \o then
          ELSE LET else == flatten[s.else][after + 1]
               IN  <<JumpIfFalse(s.cond, after + 1)>> \o then
                   \o <<Jump(after + 1 + Len(else))>> \o else

CompileFrom[body \in Bodies] ==
  [at \in Nat |->
     IF body = <<>> THEN <<>>
     ELSE LET first == CompileStatement(CompileFrom, Head(body), at)
          IN  first \o CompileFrom[Tail(body)][at + Len(first)]]

Compile(body) == Append(CompileFrom[body][0], Halt)

New(body) ==
  /\ program = body
  /\ code = Compile(body)
  /\ pc = 0
  /\ locals = <<>>
  /\ obs = Idle
  /\ answer = Idle

Init == \E body \in Programs : New(body)

-----------------------------------------------------------------------------
\* step is called, with whatever the channels report at that moment.
Step ==
  /\ obs = Idle
  /\ obs' \in Bundles
  /\ UNCHANGED <<program, code, pc, locals, answer>>

Instr == code[pc + 1]

Executing(op) == obs # Idle /\ Instr.op = op

Answer(step) == answer' = step /\ obs' = Idle

ExecLet ==
  /\ Executing("let")
  /\ locals' = [n \in DOMAIN locals \cup {Instr.name} |->
                  IF n = Instr.name THEN Eval(Instr.value, locals, obs)
                  ELSE locals[n]]
  /\ pc' = pc + 1
  /\ UNCHANGED <<program, code, obs, answer>>

\* An unknown condition takes the false path.
ExecJumpIfFalse ==
  /\ Executing("jif")
  /\ pc' = IF Holds(Eval(Instr.cond, locals, obs)) THEN pc + 1
           ELSE Instr.target
  /\ UNCHANGED <<program, code, locals, obs, answer>>

ExecJump ==
  /\ Executing("jump")
  /\ pc' = Instr.target
  /\ UNCHANGED <<program, code, locals, obs, answer>>

\* Mutant: only a positive reading satisfies a wait.
SignalPositive(s) == obs[s] # Unknown /\ obs[s] > 0

SignalTruthy(s) == Holds(obs[s])

WaitSignalMet ==
  /\ Executing("await")
  /\ SignalTruthy(Instr.signal)
  /\ pc' = pc + 1
  /\ UNCHANGED <<program, code, locals, obs, answer>>

WaitSignalBlocked ==
  /\ Executing("await")
  /\ ~SignalTruthy(Instr.signal)
  /\ Answer(Instr.signal)
  /\ UNCHANGED <<program, code, pc, locals>>

\* Motion, Wait and SetOutput: the program counter moves before the answer.
Operate ==
  /\ Executing("operate")
  /\ Answer(Instr.operation)
  /\ pc' = pc + 1
  /\ UNCHANGED <<program, code, locals>>

\* The program counter stays on Halt: later calls answer the same.
ExecHalt ==
  /\ Executing("halt")
  /\ Answer(Completed)
  /\ UNCHANGED <<program, code, pc, locals>>

Interpret ==
  \/ ExecLet \/ ExecJumpIfFalse \/ ExecJump
  \/ WaitSignalMet \/ WaitSignalBlocked \/ Operate \/ ExecHalt

Next == Step \/ Interpret

\* A call in progress goes on, and the driver keeps calling.
Fairness == WF_vars(Interpret) /\ WF_vars(Step)

Spec == Init /\ [][Next]_vars /\ Fairness

-----------------------------------------------------------------------------
\* What the program counter means: the statements still to execute.
RestFrom[body \in Bodies] ==
  [at \in Nat |-> [p \in Nat |->
     IF body = <<>> THEN <<>>
     ELSE
       LET s == Head(body)
           end == at + Len(CompileStatement(CompileFrom, s, at))
           after == at + 1 + Len(CompileFrom[s.then][at + 1])
           inside == IF p <= at THEN <<s>>
                     ELSE IF p <= after THEN RestFrom[s.then][at + 1][p]
                     ELSE RestFrom[s.else][after + 1][p]
       IN IF p >= end THEN RestFrom[Tail(body)][end][p]
          ELSE inside \o Tail(body)]]

Rest == RestFrom[program][0][pc]

Structured == INSTANCE StructuredProgram
  WITH rest <- Rest, env <- locals, sample <- obs

\* Whatever the nesting of branches, the flattened program does what its
\* structure says, call by call: the jumps compile_statements patches lead
\* exactly behind the branch not taken, and each call answers with the
\* operation that the statements still to execute and the observations of
\* that same call determine.  Every call returns: no jump closes a loop.
ImplementsStructured == Structured!StructSpec

\* No channel is missing or at zero.
AllSignalled == obs # Idle => \A s \in Signals : Holds(obs[s])

\* A program whose signals are present and nonzero from some call on, a
\* negative reading included, runs to its end: no wait lasts beyond that.
SignalledProgramsComplete == <>[]AllSignalled => <>(answer = Completed)

=============================================================================
