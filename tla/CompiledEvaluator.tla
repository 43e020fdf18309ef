-------------------------- MODULE CompiledEvaluator --------------------------
(***************************************************************************)
(* Programs of the language, compiled for the reactive evaluator and run   *)
(* by it (thalos-language-service, compile_reactive and reactive_process), *)
(* beside programs of statements no compiler made.  The text of a compiled *)
(* program is followed call by call: frames is where its meaning stands,   *)
(* said what it answers.                                                   *)
(***************************************************************************)
EXTENDS ReactiveEvaluator, SourceMeaning

CONSTANTS
  Sources,     \* bound: programs compiled
  NoSource     \* the program was not compiled

VARIABLES
  source,      \* the text compiled, or NoSource
  frames,      \* calls in progress, innermost first
  said         \* what the text answers to the last call, or Idle

compiledVars == <<vars, source, frames, said>>

\* What is compiled: the program itself, or the work as its main function.
CompiledProgram(s) ==
  IF s.start = "main" THEN s.program ELSE SpecializeWork(s.program, s.start, s.args)

Semantic(s) ==
  IF CompiledProgram(s) = Rejected THEN Rejected
  ELSE CompileProgram(CompiledProgram(s), s.schema)

\* Texts the compiler accepts, each with the statements it makes of it.
Compilations ==
  {c \in {[source |-> s, program |-> LowerReactive(Semantic(s))] : s \in Sources} :
     c.program # Rejected}

CompiledInit ==
  /\ \E c \in Compilations \cup {[source |-> NoSource, program |-> p] : p \in Programs} :
       source = c.source /\ New(c.program)
  /\ frames = IF source = NoSource THEN <<>> ELSE FirstFrames(source)
  /\ said = Idle

Follow ==
  IF source # NoSource /\ obs # Idle /\ obs' = Idle
  THEN LET step == Advance(frames, obs, source)
       IN  frames' = step.frames /\ said' = step.said
  ELSE UNCHANGED <<frames, said>>

CompiledNext == Next /\ Follow /\ UNCHANGED source

CompiledSpec == CompiledInit /\ [][CompiledNext]_compiledVars /\ Fairness

-----------------------------------------------------------------------------
\* A program every name of which means one thing: bound once, read where it was
\* bound, with constant outputs.
Plain(s) == WellScoped(s) /\ ConstantOutputs(CompiledProgram(s))

\* Compiled and interpreted, a program answers every call as its text says:
\* folding of constants, substitution of arguments, inlining of calls and
\* jumps change nothing, whatever the channels report from call to call.
AnswersAsWritten ==
  source # NoSource /\ obs = Idle /\ answer # said => ~Plain(source)

\* The operations of statements that need no signal.
Operations(statements) ==
  [i \in DOMAIN statements |-> statements[i].operation]

\* The two back ends agree: of a program that reads no signal, the operations
\* the evaluator runs are those that are planned, in the same order, whatever
\* its names are bound to.
BackEndsAgree ==
  obs = Idle /\ answer = Idle /\ source # NoSource /\ DOMAIN source.schema = {} =>
    ResolveProgram(Semantic(source)) = Operations(program)
=============================================================================
