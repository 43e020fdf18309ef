---------------------------- MODULE CompiledCell ----------------------------
(***************************************************************************)
(* A cell whose process is compiled from its text (thalos-language-service,*)
(* reactive_process.rs: compile_process, then ProcessRuntime::new).  Every *)
(* text the compiler accepts is run, and followed one call at a time       *)
(* beside the steps of the runtime.                                        *)
(***************************************************************************)
EXTENDS ReactiveCell

CONSTANTS
  Documents,   \* bound: texts compiled
  NoElse, NoValue, Rejected,   \* see ProcessCompiler
  NoMeaning    \* no call is in progress

VARIABLES
  document,    \* the text that runs
  meant        \* what the call in progress means to the text

compiledVars == <<cellVars, document, meant>>

\* Numbers are not used: a process of this cell coordinates in truth values.
Compiler == INSTANCE ProcessCompiler WITH
  Readings <- {}, Scale <- 1, Unknown <- NoValue, Completed <- NoValue

Text == INSTANCE ProcessMeaning

\* A name that is no state of the process has no value.
Compiled(d) ==
  LET process == Compiler!CompileProcess(d)
  IN  IF process = Rejected THEN Rejected
      ELSE [process EXCEPT !.initial =
              [n \in StateNames |-> IF n \in DOMAIN @ THEN @[n] ELSE "unknown"]]

\* Texts the compiler accepts, each with the process it makes of it.
Accepted ==
  {c \in {[document |-> d, process |-> Compiled(d)] : d \in Documents} :
     c.process # Rejected}

-----------------------------------------------------------------------------

Moment(said) ==
  [state |-> state, held |-> slot, fresh |-> nextOccurrence, pending |-> outcomes,
   last |-> prev, said |-> said]

\* The text is asked for the meaning of a call when the call begins.
Follow ==
  meant' = CASE phase = "idle" /\ phase' = "drain" ->
                  Text!MeansTick(Moment(<<>>), obs', document)
             [] phase = "idle" /\ phase' = "cycle" ->
                  Text!MeansCycle(Moment(<<>>), obs', document)
             [] phase' = "idle" -> NoMeaning
             [] OTHER -> meant

CompiledInit ==
  /\ \E c \in Accepted : document = c.document /\ New(c.process)
  /\ ArbiterIdle
  /\ meant = NoMeaning

CompiledNext == CellNext /\ Follow /\ UNCHANGED document

\* Following the text stops no step: the fairness is that of the cell.
CompiledSpec == CompiledInit /\ [][CompiledNext]_compiledVars /\ Fairness

-----------------------------------------------------------------------------
(* Properties                                                              *)

\* The names of a text mean one thing each: no constant has the name of a state.
OneMeaning(d) ==
  \A i \in DOMAIN d.items : d.items[i].name \notin StateNames

\* Compiled and run, a process does in every call what its text says: the
\* states, the tokens, the numbers of requests, the outcomes still to be told,
\* the edge memory and the effects of the call are those of the text, whatever
\* outcomes were waiting and whatever the handlers of one tick do to each other
\* (compile_process; tick and run_cycle).
CallsAsWritten ==
  [][ phase # "idle" /\ phase' = "idle" /\ OneMeaning(document) =>
        meant = [Moment(effects) EXCEPT !.last = prev'] ]_compiledVars
=============================================================================
