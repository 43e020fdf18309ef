-------------------------- MODULE StructuredProgram --------------------------
(***************************************************************************)
(* What executing a reactive program means, without program counter or     *)
(* jumps: the statements still to execute are a list whose head runs next, *)
(* and a branch is put before what follows it.  A call observes once and   *)
(* goes on until an operation is due, a signal is awaited or nothing is    *)
(* left.                                                                   *)
(***************************************************************************)
EXTENDS ReactiveProgram

CONSTANTS
  Idle        \* no call in progress

VARIABLES
  program,    \* the statements of the whole program
  rest,       \* statements still to execute
  env,        \* locals bound so far
  sample,     \* bundle of the call in progress, or Idle
  answer      \* step returned by the last call

structVars == <<program, rest, env, sample, answer>>

StructInit ==
  /\ rest = program
  /\ env = <<>>
  /\ sample = Idle
  /\ answer = Idle

Call ==
  /\ sample = Idle
  /\ sample' \in Bundles
  /\ UNCHANGED <<rest, env, answer>>

Bind ==
  /\ sample # Idle /\ rest # <<>> /\ Head(rest).op = "let"
  /\ LET s == Head(rest) IN
       env' = [n \in DOMAIN env \cup {s.name} |->
                 IF n = s.name THEN Eval(s.value, env, sample) ELSE env[n]]
  /\ rest' = Tail(rest)
  /\ UNCHANGED <<sample, answer>>

Choose ==
  /\ sample # Idle /\ rest # <<>> /\ Head(rest).op = "if"
  /\ LET s == Head(rest)
         branch == IF Holds(Eval(s.cond, env, sample)) THEN s.then
                   ELSE IF s.else = NoElse THEN <<>> ELSE s.else
     IN  rest' = branch \o Tail(rest)
  /\ UNCHANGED <<env, sample, answer>>

Signalled ==
  /\ sample # Idle /\ rest # <<>> /\ Head(rest).op = "await"
  /\ Holds(sample[Head(rest).signal])
  /\ rest' = Tail(rest)
  /\ UNCHANGED <<env, sample, answer>>

Wait ==
  /\ sample # Idle /\ rest # <<>> /\ Head(rest).op = "await"
  /\ ~Holds(sample[Head(rest).signal])
  /\ answer' = Head(rest).signal
  /\ sample' = Idle
  /\ UNCHANGED <<rest, env>>

Perform ==
  /\ sample # Idle /\ rest # <<>> /\ Head(rest).op = "operate"
  /\ answer' = Head(rest).operation
  /\ rest' = Tail(rest)
  /\ sample' = Idle
  /\ UNCHANGED env

Finish ==
  /\ sample # Idle /\ rest = <<>>
  /\ answer' = Completed
  /\ sample' = Idle
  /\ UNCHANGED <<rest, env>>

StructNext ==
  /\ Call \/ Bind \/ Choose \/ Signalled \/ Wait \/ Perform \/ Finish
  /\ UNCHANGED program

\* Every call is answered.
CallsReturn == (sample # Idle) ~> (sample = Idle)

StructSpec == StructInit /\ [][StructNext]_structVars /\ CallsReturn
=============================================================================
