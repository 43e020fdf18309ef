--------------------------- MODULE ExecutionSession ---------------------------
(***************************************************************************)
(* ExecutionSession (thalos-core, execution/session.rs): the lifecycle of  *)
(* one execution of a program, its count of cycles and the evaluation of a *)
(* control tick.  The tick index and the latched copies of the             *)
(* observations are data that no decision of the session reads.            *)
(*                                                                         *)
(* Who calls is outside the repository: an operator starts, pauses, stops  *)
(* and faults the session between any two calls of the control loop; the   *)
(* loop evaluates ticks and, when the program has reached its end, counts  *)
(* the cycle.  Once complete_program_cycle has answered that no other is   *)
(* due, the loop counts no more and completes the session, which is        *)
(* refused unless the session is running just then.                        *)
(***************************************************************************)
EXTENDS Integers, Sequences

CONSTANTS
  Cardinalities,  \* bound: limits of cycles, Once and Continuous among them
  Once,
  Continuous,
  Readings,       \* bound: values of the channel of the termination condition
  Missing,        \* the channel has not been observed
  NoCondition,    \* a policy other than TerminationPolicy::Condition
  Condition,
  MaxCycles,      \* bound: cycles of a continuous session
  MaxHistory      \* bound: transitions of a session

ASSUME CardinalityAssumption ==
  /\ Cardinalities \subseteq Nat \cup {Once, Continuous}
  /\ Once \notin Nat /\ Continuous \notin Nat /\ Once # Continuous
  /\ Readings \subseteq Int /\ Missing \notin Int

States == {"Created", "Reserved", "Dispatched", "Running", "Paused",
           "Completed", "Cancelled", "Failed"}

VARIABLES
  cardinality,    \* configuration.cardinality
  termination,    \* configuration.termination
  lifecycle,
  history,
  currentCycle,
  more,           \* the loop's: last answer of complete_program_cycle
  outcome         \* of the last tick: "None", "Success" or "SessionCompleted"

vars ==
  <<cardinality, termination, lifecycle, history, currentCycle, more, outcome>>

Init ==
  /\ cardinality \in Cardinalities
  /\ termination \in {NoCondition, Condition}
  /\ lifecycle = "Created"
  /\ history = <<"Created">>
  /\ currentCycle = 0
  /\ more = TRUE
  /\ outcome = "None"

-----------------------------------------------------------------------------
RecordTransition(next) ==
  /\ Len(history) < MaxHistory
  /\ lifecycle' = next
  /\ history' = Append(history, next)
  /\ UNCHANGED <<cardinality, termination>>

\* A call refused with InvalidLifecycleTransition changes nothing.
Initialize ==
  /\ lifecycle = "Created"
  /\ RecordTransition("Reserved")
  /\ UNCHANGED <<currentCycle, more, outcome>>

\* No method of the session enters Dispatched.
Start ==
  /\ lifecycle \in {"Reserved", "Dispatched", "Paused"}
  /\ RecordTransition("Running")
  /\ UNCHANGED <<currentCycle, more, outcome>>

Pause ==
  /\ lifecycle = "Running"
  /\ RecordTransition("Paused")
  /\ UNCHANGED <<currentCycle, more, outcome>>

Stop ==
  /\ lifecycle \in {"Running", "Paused"}
  /\ RecordTransition("Cancelled")
  /\ UNCHANGED <<currentCycle, more, outcome>>

\* Mutant: a fault is accepted in every state.
AnyState == States

\* A session not yet running may fail, and a failed one again.
FaultableStates == States \ {"Completed", "Cancelled"}

Fault ==
  /\ lifecycle \in FaultableStates
  /\ RecordTransition("Failed")
  /\ UNCHANGED <<currentCycle, more, outcome>>

Complete == lifecycle = "Running" /\ RecordTransition("Completed")

-----------------------------------------------------------------------------
\* Mutant: the limit itself still continues.
ContinuesAt(n) ==
  \/ cardinality = Continuous
  \/ cardinality # Once /\ n <= cardinality

\* What complete_program_cycle returns once n cycles are counted.
Continues(n) ==
  \/ cardinality = Continuous
  \/ cardinality \notin {Once, Continuous} /\ n < cardinality

\* The loop, when the program has reached its end.  The cycle is counted in
\* whatever state the session is by then.
CompleteProgramCycle ==
  /\ outcome = "Success" /\ more
  /\ currentCycle < MaxCycles
  /\ currentCycle' = currentCycle + 1
  /\ more' = Continues(currentCycle + 1)
  /\ UNCHANGED <<cardinality, termination, lifecycle, history, outcome>>

\* The loop, when no other cycle is due.
CompleteSession ==
  /\ ~more
  /\ Complete
  /\ UNCHANGED <<currentCycle, more, outcome>>

\* The termination condition, judged before the program is evaluated.
ConditionMet(reading) ==
  termination = Condition /\ reading # Missing /\ reading > 0

EvaluateTick(reading) ==
  /\ lifecycle = "Running"
  /\ IF ConditionMet(reading)
     THEN Complete /\ outcome' = "SessionCompleted"
     ELSE /\ outcome' = "Success"
          /\ UNCHANGED <<cardinality, termination, lifecycle, history>>
  /\ UNCHANGED <<currentCycle, more>>

Next ==
  \/ Initialize \/ Start \/ Pause \/ Stop \/ Fault
  \/ CompleteProgramCycle \/ CompleteSession
  \/ \E reading \in Readings \cup {Missing} : EvaluateTick(reading)

Spec == Init /\ [][Next]_vars

-----------------------------------------------------------------------------
\* Type invariant of the session.
SessionTypeOK ==
  /\ cardinality \in Cardinalities
  /\ termination \in {NoCondition, Condition}
  /\ lifecycle \in States
  /\ history \in Seq(States)
  /\ currentCycle \in Nat
  /\ more \in BOOLEAN
  /\ outcome \in {"None", "Success", "SessionCompleted"}

\* What the transitions of a session lead to, failures aside.
Follow(s) ==
  CASE s = "Created" -> {"Reserved"}
    [] s = "Reserved" -> {"Running"}
    [] s = "Running" -> {"Paused", "Completed", "Cancelled"}
    [] s = "Paused" -> {"Running", "Cancelled"}
    [] OTHER -> {}

MayFollow(s, next) ==
  IF next = "Failed" THEN s \notin {"Completed", "Cancelled"} ELSE next \in Follow(s)

\* The history kept for the record is the life the session has had, from its
\* creation to the state it is in: it was never completed without having run,
\* never ran before it was reserved, nothing followed its completion or its
\* cancellation and nothing but failures a failure, whatever was called and in
\* whatever order.  Which failures the record may hold is not said here.  It holds
\* more of them than the code documents: session.rs:451 says of fault that an
\* active session fails, and is_active (34-36) is true of Running and Paused; but
\* one not yet running fails, and one that has failed fails again.
HistoryIsALife ==
  /\ history # <<>> /\ history[1] = "Created"
  /\ history[Len(history)] = lifecycle
  /\ \A k \in 1..(Len(history) - 1) : MayFollow(history[k], history[k + 1])

\* The session has run all its cycles: one at least (Counted(0) runs once).
CyclesRun ==
  /\ cardinality # Continuous
  /\ currentCycle = IF cardinality \in {Once, 0} THEN 1 ELSE cardinality

\* A session that a tick has reported completed stays so, and one that is
\* completed otherwise has run all its cycles and none beyond, although pauses,
\* resumptions and ticks come between the last count and the completion.
CompletionEarned ==
  /\ outcome = "SessionCompleted" => lifecycle = "Completed"
  /\ lifecycle = "Completed" /\ outcome # "SessionCompleted" => CyclesRun
=============================================================================
