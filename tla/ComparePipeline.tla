--------------------------- MODULE ComparePipeline ---------------------------
(***************************************************************************)
(* Expected-versus-observed comparison of one robot (thalos-analysis,      *)
(* comparison/pipeline.rs; thalos-core, deviation/).  Every observation    *)
(* inside the expected trajectory is reduced to whether it violates the    *)
(* tolerance envelope; the detector confirms a violation, and its          *)
(* recovery, only when the samples agree for long enough.                  *)
(*                                                                         *)
(* Telemetry samples the robot at every instant, and observation t carries *)
(* stamp and sequence t.  On the way observations may be lost, duplicated  *)
(* and reordered: the pipeline is handed any of them at any time.          *)
(***************************************************************************)
EXTENDS Naturals, Sequences

CONSTANTS
  Trajectories,  \* expected trajectories
  Bounds,        \* instants each of them covers
  NoTrajectory,
  Confirmation,  \* confirmation_duration_ns
  Recovery,      \* recovery_duration_ns
  MaxTime,       \* bound: last instant sampled
  NoTime

Time == 1 .. MaxTime

ASSUME DetectionAssumption ==
  /\ Confirmation \in Nat /\ Recovery \in Nat
  /\ MaxTime \in Nat /\ NoTime \notin Nat
  /\ NoTrajectory \notin Trajectories
  /\ Bounds \in [Trajectories -> SUBSET Time]

VARIABLES
  trajectory,        \* expected trajectory, or NoTrajectory
  status,            \* DetectorStatus
  lastSeen,          \* stamp of the last sample accepted
  pendingViolation,  \* onset of the violation not yet confirmed
  pendingRecovery,   \* onset of the recovery not yet confirmed
  samples,           \* history: samples accepted since the last reset
  events             \* history: events emitted since the last reset

vars == <<trajectory, status, lastSeen, pendingViolation, pendingRecovery,
          samples, events>>

Sample == [at : Time, violated : BOOLEAN]
Event == [kind : {"confirmed", "recovered"}, onset : Time, at : Time]

-----------------------------------------------------------------------------

\* Mutant: stamps are not compared.
InAnyOrder(t) == TRUE

\* A repeated or late stamp is refused with an error.
InOrder(t) == lastSeen # NoTime => t > lastSeen

\* Without an expected state, or with joints that do not match, the detector is
\* never asked: the call returns NotComparable or an error.
Accept(t, violated) ==
  /\ trajectory # NoTrajectory /\ t \in Bounds[trajectory]
  /\ InOrder(t)
  /\ lastSeen' = t
  /\ samples' = samples \cup {[at |-> t, violated |-> violated]}
  /\ UNCHANGED trajectory

\* Mutant: every sample restarts the run.
OnsetNow(pending, t) == t

\* The run of agreeing samples starts here unless it is under way.
Onset(pending, t) == IF pending = NoTime THEN t ELSE pending

Emit(k, onset, t) ==
  events' = Append(events, [kind |-> k, onset |-> onset, at |-> t])

\* Mutant: one sample within tolerance does not restart the confirmation.
NormalWithinForgives(t) ==
  /\ status = "normal"
  /\ Accept(t, FALSE)
  /\ UNCHANGED <<status, pendingViolation, pendingRecovery, events>>

NormalWithin(t) ==
  /\ status = "normal"
  /\ Accept(t, FALSE)
  /\ pendingViolation' = NoTime
  /\ UNCHANGED <<status, pendingRecovery, events>>

\* Mutant: the timer keeps its onset once the violation is confirmed.
NormalViolatedKeeps(t) ==
  /\ status = "normal"
  /\ Accept(t, TRUE)
  /\ pendingViolation' = Onset(pendingViolation, t)
  /\ pendingRecovery' = NoTime
  /\ IF t - pendingViolation' >= Confirmation
     THEN status' = "violating" /\ Emit("confirmed", pendingViolation', t)
     ELSE UNCHANGED <<status, events>>

NormalViolated(t) ==
  /\ status = "normal"
  /\ Accept(t, TRUE)
  /\ pendingRecovery' = NoTime
  /\ LET onset == Onset(pendingViolation, t) IN
       IF t - onset >= Confirmation
       THEN /\ status' = "violating"
            /\ pendingViolation' = NoTime
            /\ Emit("confirmed", onset, t)
       ELSE /\ pendingViolation' = onset
            /\ UNCHANGED <<status, events>>

ViolatingWithin(t) ==
  /\ status = "violating"
  /\ Accept(t, FALSE)
  /\ pendingViolation' = NoTime
  /\ LET onset == Onset(pendingRecovery, t) IN
       IF t - onset >= Recovery
       THEN /\ status' = "normal"
            /\ pendingRecovery' = NoTime
            /\ Emit("recovered", onset, t)
       ELSE /\ pendingRecovery' = onset
            /\ UNCHANGED <<status, events>>

ViolatingViolated(t) ==
  /\ status = "violating"
  /\ Accept(t, TRUE)
  /\ pendingRecovery' = NoTime
  /\ UNCHANGED <<status, pendingViolation, events>>

\* A new expected trajectory, or none, starts detection afresh.
SetTrajectory(new) ==
  /\ trajectory' = new
  /\ status' = "normal"
  /\ lastSeen' = NoTime
  /\ pendingViolation' = NoTime
  /\ pendingRecovery' = NoTime
  /\ samples' = {}
  /\ events' = <<>>

Init ==
  /\ trajectory = NoTrajectory
  /\ status = "normal"
  /\ lastSeen = NoTime
  /\ pendingViolation = NoTime
  /\ pendingRecovery = NoTime
  /\ samples = {}
  /\ events = <<>>

Process(t) ==
  NormalWithin(t) \/ NormalViolated(t) \/ ViolatingWithin(t) \/ ViolatingViolated(t)

Next ==
  \/ \E t \in Time : Process(t)
  \/ \E new \in Trajectories \cup {NoTrajectory} : SetTrajectory(new)

Spec == Init /\ [][Next]_vars

-----------------------------------------------------------------------------
(* Properties                                                               *)

\* Types; only one of the two timers runs, the one its status calls for.
TypeOK ==
  /\ trajectory \in Trajectories \cup {NoTrajectory}
  /\ status \in {"normal", "violating"}
  /\ lastSeen \in Time \cup {NoTime}
  /\ pendingViolation \in Time \cup {NoTime}
  /\ pendingRecovery \in Time \cup {NoTime}
  /\ samples \subseteq Sample
  /\ events \in Seq(Event)
  /\ status = "violating" => pendingViolation = NoTime
  /\ status = "normal" => pendingRecovery = NoTime

\* From onset to t every sample reads v, and both ends were sampled.
Run(onset, t, v) ==
  /\ [at |-> onset, violated |-> v] \in samples
  /\ [at |-> t, violated |-> v] \in samples
  /\ \A s \in samples : onset <= s.at /\ s.at <= t => s.violated = v

\* The run could not have started earlier: the sample before it reads ~v.
FirstOf(onset, v) ==
  \A s \in samples : s.at < onset /\ s.violated = v =>
    \E u \in samples : s.at < u.at /\ u.at < onset /\ u.violated = ~v

\* The first sample of the run that is old enough is t.
Prompt(onset, t, duration) ==
  /\ onset <= t /\ t - onset >= duration
  /\ \A s \in samples : onset <= s.at /\ s.at < t => s.at - onset < duration

Justified(e) ==
  LET violation == e.kind = "confirmed" IN
  /\ Run(e.onset, e.at, violation)
  /\ FirstOf(e.onset, violation)
  /\ Prompt(e.onset, e.at, IF violation THEN Confirmation ELSE Recovery)

\* An event tells the truth about the samples: the violation, or the recovery,
\* held from onset to emission without one sample to the contrary, began at the
\* onset and no sooner, and was announced by the first sample that could, with
\* observations lost, duplicated or reordered on the way (observe, process).
EventsJustified == \A i \in DOMAIN events : Justified(events[i])

\* No alarm is missed or outlives its cause: samples that have disagreed with
\* the status since some instant have not yet done so for the whole duration.
NothingMissed ==
  lastSeen # NoTime =>
    LET against == status = "normal"
        duration == IF against THEN Confirmation ELSE Recovery
    IN  \A s \in samples : Run(s.at, lastSeen, against) => lastSeen - s.at < duration

\* Confirmations and recoveries alternate, at strictly later observations, and
\* the status is that of the last one: no event identity is used twice.
EventsAlternate ==
  /\ \A i \in DOMAIN events :
       /\ events[i].kind = IF i % 2 = 1 THEN "confirmed" ELSE "recovered"
       /\ i > 1 => events[i - 1].at < events[i].onset
  /\ status = IF Len(events) % 2 = 1 THEN "violating" ELSE "normal"
=============================================================================
