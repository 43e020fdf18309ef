---------------------- MODULE ClosedLoopExecutorProofs ----------------------
(***************************************************************************)
(* Closed-loop execution keeps its promises for every trajectory, contract *)
(* and device: the index is justified by the evidence, and the executor    *)
(* implements waypoint tracking.  TypeOK is not inductive by itself (the   *)
(* waypoint of a cycle is the target), StepJustified is not without types: *)
(* the two are proved together.  Behind it, the executor on the simulated     *)
(* adapter, a device like any other.                                       *)
(***************************************************************************)
EXTENDS SimulatedRobot, TLAPS

IInv == TypeOK /\ StepJustified

USE DEF Statuses, Stopped, Decisions

\* A decision is one of the four the policy can render (evaluate).
LEMMA DecideType == ASSUME NEW o PROVE Decide(o) \in Decisions
  BY DEF Decide, Decisions

\* A new executor is idle at waypoint 0 (ClosedLoopExecutor::new).
LEMMA InitIInv == Init => IInv
  BY PlanAssumption
  DEF Init, IInv, TypeOK, StepJustified, Evidence, Aimed

\* Starting a tick commands the current waypoint: the clamp of the index never
\* takes effect, for the index is one of the trajectory's.
LEMMA HostIInv ==
  ASSUME IInv, NEW t \in Trajectories, Host(t) PROVE IInv'
<1> USE PlanAssumption DEF IInv, StepJustified
<1>0. CurrentStep = step
  BY DEF CurrentStep
<1>1. CASE Send(t)
  <2>1. Clamped(t) = step /\ step < Length[t]
    BY <1>0, <1>1 DEF Host, Send, CanTick, Clamped, TypeOK, Evidence
  <2>2. TypeOK'
    BY <1>0, <1>1, <2>1 DEF Send, CanTick, TypeOK, Cycles
  <2>3. Evidence'
    BY <1>0, <1>1 DEF Send, CanTick, TypeOK, Evidence
  <2>4. Aimed' /\ (status' = "Idle" => step' = 0)
    BY <1>0, <1>1, <2>1 DEF Send, CanTick, TypeOK, Aimed
  <2> QED BY <2>2, <2>3, <2>4
<1>2. CASE SendFails(t)
  <2>1. TypeOK'
    BY <1>0, <1>2 DEF Host, SendFails, CanTick, TypeOK, Cycles
  <2>2. Evidence'
    BY <1>0, <1>2 DEF SendFails, CanTick, TypeOK, Evidence
  <2>3. Aimed' /\ (status' = "Idle" => step' = 0)
    BY <1>2 DEF SendFails, CanTick, Aimed
  <2> QED BY <2>1, <2>2, <2>3
<1> QED BY <1>1, <1>2 DEF Host

\* Judging an observation adds the commanded waypoint to the evidence exactly
\* when the index moves past it.
LEMMA ObserveIInv ==
  ASSUME IInv, NEW o \in Observations, Observe(o) PROVE IInv'
<1> USE PlanAssumption DEF IInv, StepJustified
<1>0. Decide(o) \in Decisions
  BY DecideType
<1>1. target = step /\ step \in Nat /\ status \notin Stopped \cup {"Idle"}
  BY DEF Observe, Aimed, TypeOK
<1>2. route \in Trajectories /\ step < Length[route]
  BY <1>1 DEF TypeOK
<1>3. CASE Decide(o) = "Continue" /\ Last(step)
  <2>1. TypeOK'
    BY <1>1, <1>2, <1>3 DEF Observe, Follow, TypeOK, Cycles
  <2>2. Evidence'
    BY <1>1, <1>2, <1>3 DEF Observe, Follow, Evidence, Last
  <2>3. Aimed' /\ (status' = "Idle" => step' = 0)
    BY <1>1, <1>3 DEF Observe, Follow, Aimed
  <2> QED BY <2>1, <2>2, <2>3
<1>4. CASE Decide(o) = "Continue" /\ ~Last(step)
  <2>1. TypeOK'
    BY <1>1, <1>2, <1>4 DEF Observe, Follow, TypeOK, Cycles, Last
  <2>2. Evidence'
    BY <1>1, <1>2, <1>4 DEF Observe, Follow, Evidence, Last
  <2>3. Aimed' /\ (status' = "Idle" => step' = 0)
    BY <1>1, <1>4 DEF Observe, Follow, Aimed
  <2> QED BY <2>1, <2>2, <2>3
<1>5. CASE Decide(o) # "Continue"
  <2>1. TypeOK'
    BY <1>0, <1>1, <1>2, <1>5 DEF Observe, Follow, TypeOK, Cycles
  <2>2. Evidence'
    BY <1>0, <1>1, <1>5 DEF Observe, Follow, Evidence
  <2>3. Aimed' /\ (status' = "Idle" => step' = 0)
    BY <1>0, <1>5 DEF Observe, Follow, Aimed
  <2> QED BY <2>1, <2>2, <2>3
<1> QED BY <1>3, <1>4, <1>5

\* Every step keeps the index justified.
LEMMA NextIInv == IInv /\ [Next]_vars => IInv'
<1> SUFFICES ASSUME IInv, [Next]_vars PROVE IInv'
  OBVIOUS
<1>1. ASSUME NEW t \in Trajectories, Host(t) PROVE IInv'
  BY <1>1, HostIInv
<1>2. ASSUME NEW o \in Observations, Observe(o) PROVE IInv'
  BY <1>2, ObserveIInv
<1>3. CASE ObserveFails
  BY <1>3, PlanAssumption
  DEF ObserveFails, IInv, TypeOK, Cycles, StepJustified, Evidence, Aimed
<1>4. CASE Reset
  BY <1>4, PlanAssumption
  DEF Reset, IInv, TypeOK, Cycles, StepJustified, Evidence, Aimed
<1>5. CASE Elapse
  BY <1>5, PlanAssumption
  DEF Elapse, IInv, TypeOK, Cycles, StepJustified, Evidence, Aimed, Last
<1>6. CASE UNCHANGED vars
  BY <1>6 DEF vars, IInv, TypeOK, Cycles, StepJustified, Evidence, Aimed, Last
<1> QED BY <1>1, <1>2, <1>3, <1>4, <1>5, <1>6 DEF Next

\* Both parts of the inductive invariant hold in every reachable state.
THEOREM ExecutorInvariant == Spec => []IInv
  BY InitIInv, NextIInv, PTL DEF Spec

\* Every variable keeps its type and the index stays inside the trajectory, for
\* any number of trajectories, waypoints and joints.
THEOREM ExecutorTypeCorrect == Spec => []TypeOK
<1>1. IInv => TypeOK
  BY DEF IInv
<1> QED BY <1>1, ExecutorInvariant, PTL

\* The index never runs ahead of the evidence (tick, reset).
THEOREM CompletionJustified == Spec => []StepJustified
<1>1. IInv => StepJustified
  BY DEF IInv
<1> QED BY <1>1, ExecutorInvariant, PTL

-----------------------------------------------------------------------------

\* The initial states map to the initial state of waypoint tracking.
LEMMA TrackInitStep == Init => Tracking!TrackInit
  BY DEF Init, Tracking!TrackInit

\* Every step of the executor is a step of waypoint tracking or a stutter.
LEMMA TrackNextStep ==
  IInv /\ [Next]_vars => [Tracking!TrackNext]_(Tracking!trackVars)
<1> SUFFICES ASSUME IInv, [Next]_vars
             PROVE [Tracking!TrackNext]_(Tracking!trackVars)
  OBVIOUS
<1> USE PlanAssumption DEF Tracking!trackVars
<1>1. ASSUME NEW t \in Trajectories, Host(t)
      PROVE [Tracking!TrackNext]_(Tracking!trackVars)
  <2>0. CurrentStep = step
    BY DEF CurrentStep, IInv, StepJustified
  <2>1. CASE Send(t) /\ status = "Idle"
    <3>1. Tracking!Begin
      BY <1>1, <2>0, <2>1
      DEF Tracking!Begin, Send, CanTick, Clamped, IInv, TypeOK, StepJustified
    <3> QED BY <3>1 DEF Tracking!TrackNext
  <2>2. CASE Send(t) /\ status # "Idle"
    <3>1. Tracking!Command
      BY <1>1, <2>0, <2>2
      DEF Tracking!Command, Host, Send, CanTick, Clamped, IInv, TypeOK
    <3> QED BY <3>1 DEF Tracking!TrackNext
  <2>3. CASE SendFails(t)
    <3>1. Tracking!Fail
      BY <1>1, <2>0, <2>3
      DEF Tracking!Fail, SendFails, CanTick, IInv, TypeOK
    <3> QED BY <3>1 DEF Tracking!TrackNext
  <2> QED BY <1>1, <2>1, <2>2, <2>3 DEF Host
<1>2. ASSUME NEW o \in Observations, Observe(o)
      PROVE [Tracking!TrackNext]_(Tracking!trackVars)
  <2>0. Decide(o) \in Decisions
    BY DecideType
  <2>1. target = step /\ step \in Nat /\ status \notin Stopped \cup {"Idle"}
    BY <1>2 DEF IInv, StepJustified, Observe, Aimed, TypeOK
  <2>2. route \in Trajectories /\ step < Length[route]
    BY <2>1 DEF IInv, TypeOK
  <2>3. CASE Decide(o) = "Continue"
    <3>1. Tracking!Reach
      BY <1>2, <2>1, <2>2, <2>3
      DEF Tracking!Reach, Observe, Follow, Last, IInv, TypeOK
    <3> QED BY <3>1 DEF Tracking!TrackNext
  <2>4. CASE Decide(o) = "Abort"
    <3>1. Tracking!Fail
      BY <1>2, <2>1, <2>4 DEF Tracking!Fail, Observe, Follow, IInv, TypeOK
    <3> QED BY <3>1 DEF Tracking!TrackNext
  <2>5. CASE Decide(o) \in {"Hold", "Pause"}
    BY <1>2, <2>1, <2>5 DEF Observe, Follow, IInv, TypeOK
  <2> QED BY <2>0, <2>3, <2>4, <2>5
<1>3. CASE ObserveFails
  <2>1. Tracking!Fail
    BY <1>3 DEF Tracking!Fail, ObserveFails, IInv, TypeOK, StepJustified, Aimed
  <2> QED BY <2>1 DEF Tracking!TrackNext
<1>4. CASE Reset
  <2>1. Tracking!Restart
    BY <1>4 DEF Tracking!Restart, Reset
  <2> QED BY <2>1 DEF Tracking!TrackNext
<1>5. CASE Elapse
  BY <1>5 DEF Elapse
<1>6. CASE UNCHANGED vars
  BY <1>6 DEF vars
<1> QED BY <1>1, <1>2, <1>3, <1>4, <1>5, <1>6 DEF Next

\* The executor implements waypoint tracking for every device: only the first
\* waypoint not reached is commanded, in order, and nothing after the end.
THEOREM ExecutorRefinement == Spec => ImplementsWaypointTracking
<1>1. Init => Tracking!TrackInit
  BY TrackInitStep
<1>2. IInv /\ [Next]_vars => [Tracking!TrackNext]_(Tracking!trackVars)
  BY TrackNextStep
<1> QED BY <1>1, <1>2, ExecutorInvariant, PTL
        DEF Spec, ImplementsWaypointTracking, Tracking!TrackSpec

-----------------------------------------------------------------------------
(* The simulated adapter                                                    *)

\* The adapter always is in one of its scenarios.
SimInv == IInv /\ scenario \in Scenarios

\* A step with the adapter is a step with some device.
LEMMA SimStep == SimInv /\ [SimNext]_simVars => [Next]_vars
<1> SUFFICES ASSUME SimInv, [SimNext]_simVars PROVE [Next]_vars
  OBVIOUS
<1>1. ASSUME NEW t \in Trajectories, status = "Idle" \/ t = route,
             Send(t) \/ SendFails(t)
      PROVE  Next
  BY <1>1 DEF Next, Host
<1>2. ASSUME phase = "sent", Observe(Report(scenario, target))
      PROVE  Next
  <2>1. /\ target = step /\ step \in Nat
        /\ route \in Trajectories /\ step < Length[route]
    BY <1>2 DEF SimInv, IInv, StepJustified, Aimed, TypeOK
  <2>2. target \in 0 .. Length[route] - 1
    BY <2>1, PlanAssumption
  <2>3. Report(scenario, target) \in Observations
    BY <1>2, <2>1, <2>2, AdapterAssumption DEF SimInv
  <2> QED BY <1>2, <2>3 DEF Next
<1>3. CASE SimTick
  BY <1>1, <1>2, <1>3 DEF SimTick, Next
<1> QED BY <1>3 DEF SimNext, SetScenario, Next, simVars, vars

\* The invariant of the executor holds on the adapter too.
LEMMA SimInvariant == SimSpec => []SimInv
<1>1. SimInit => SimInv
  BY InitIInv DEF SimInit, SimInv, Scenarios
<1>2. SimInv /\ [SimNext]_simVars => SimInv'
  <2> SUFFICES ASSUME SimInv, [SimNext]_simVars PROVE SimInv'
    OBVIOUS
  <2>1. IInv'
    BY SimStep, NextIInv DEF SimInv
  <2>2. scenario' \in Scenarios
    BY DEF SimInv, SimNext, SetScenario, simVars
  <2> QED BY <2>1, <2>2 DEF SimInv
<1> QED BY <1>1, <1>2, PTL DEF SimSpec

\* What the executor keeps on any device it keeps on the simulated one: the
\* adapter only does what a device may do.
THEOREM AdapterIsADevice == SimSpec => Spec
<1>1. SimInit => Init
  BY DEF SimInit
<1> QED BY <1>1, SimStep, SimInvariant, PTL DEF SimSpec, Spec

\* Where the stale scenario ages an observation by more than the clock can be
\* behind the stamp, the age exceeds the limit of the contract.
LEMMA StaleIsOld ==
  ASSUME SimInv, PositionsWatched, phase = "sent"
  PROVE  \E j \in 1 .. Len(Requirement) :
           /\ Requirement[j]["position"] \in Nat
           /\ Age(Report("stale", target)) > Requirement[j]["position"]
<1>1. /\ target = step /\ step \in Nat /\ now \in Nat
      /\ route \in Trajectories /\ step < Length[route]
  BY DEF SimInv, IInv, StepJustified, Aimed, TypeOK
<1>2. PICK j \in 1 .. Len(Requirement) :
        /\ Requirement[j]["position"] \in Nat
        /\ Staleness > Requirement[j]["position"] + (Length[route] - 1) * Period
  BY <1>1 DEF PositionsWatched
<1>3. Length[route] - 1 \in Nat /\ target <= Length[route] - 1 /\ target \in Nat
  BY <1>1, PlanAssumption
<1>4. /\ target * Period \in Nat /\ (Length[route] - 1) * Period \in Nat
      /\ target * Period <= (Length[route] - 1) * Period
  <2>1. ASSUME NEW m \in Nat, NEW n \in Nat, m <= n, NEW k \in Nat
        PROVE  m * k \in Nat /\ n * k \in Nat /\ m * k <= n * k
    <3>1. (n - m) * k >= 0  BY <2>1
    <3> QED BY <2>1, <3>1
  <2> QED BY <2>1, <1>3, AdapterAssumption
<1>5. Report("stale", target).stamp = target * Period - Staleness
  BY DEF Report
<1> DEFINE x == target * Period
           y == (Length[route] - 1) * Period
           limit == Requirement[j]["position"]
<1>6. /\ x \in Nat /\ y \in Nat /\ x <= y /\ limit \in Nat
      /\ Staleness > limit + y
      /\ Age(Report("stale", target)) =
           IF now >= x - Staleness THEN now - (x - Staleness) ELSE 0
  BY <1>2, <1>4, <1>5 DEF Age
<1> HIDE DEF x, y
<1>7. Age(Report("stale", target)) > limit
  <2> HIDE DEF limit
  <2> QED BY <1>1, <1>6, AdapterAssumption
<1> QED BY <1>2, <1>7

\* In every scenario that a tick is to notice, the policy does not continue.
LEMMA NoticedScenarios ==
  ASSUME SimInv, PositionsWatched, phase = "sent",
         scenario \in {"position_deviation", "stale", "missing", "invalid"}
  PROVE  Decide(Report(scenario, target)) # "Continue"
<1> DEFINE o == Report(scenario, target)
<1>0. Dof \in Nat /\ Dof > 0 /\ Len(Requirement) \in Nat
  BY PlanAssumption DEF PositionsWatched
<1>1. PICK j \in 1 .. Len(Requirement) : Requirement[j]["position"] \in Nat
  BY DEF PositionsWatched
<1>2. Limit(j, "position") # NotRequired
  BY <1>0, <1>1, LimitAssumption DEF Limit
<1>3. /\ Len(o.joints) = Dof
      /\ \A k \in 1 .. Dof : o.joints[k] = JointReport(scenario)
  <2>1. o.joints = [k \in 1 .. Dof |-> JointReport(scenario)]
    BY DEF Report
  <2> QED BY <2>1, <1>0
<1>4. CASE scenario = "position_deviation"
  <2>1. \A k \in 1 .. Dof : o.joints[k]["position"] = "far"
    BY <1>3, <1>4 DEF JointReport
  <2>2. Exceeds(o, "position")
    BY <1>0, <1>3, <2>1 DEF Exceeds, Planned, PositionsWatched
  <2> QED BY <2>2 DEF Decide
<1>5. CASE scenario = "missing"
  <2>1. Reading(o, j, "position") = "absent"
    BY <1>3, <1>5 DEF JointReport, Reading
  <2>2. Has(o, "missing")
    BY <1>1, <1>2, <2>1 DEF Has, Quality, Components
  <2> QED BY <2>2 DEF Decide
<1>6. CASE scenario = "invalid"
  <2>1. Reading(o, j, "position") \in {"absent", "nan"}
    BY <1>3, <1>6 DEF JointReport, Reading
  <2>2. Has(o, "missing") \/ Has(o, "invalid")
    BY <1>1, <1>2, <2>1 DEF Has, Quality, Components
  <2> QED BY <2>2 DEF Decide
<1>7. CASE scenario = "stale"
  <2>1. PICK k \in 1 .. Len(Requirement) :
          Requirement[k]["position"] \in Nat /\ Age(o) > Requirement[k]["position"]
    BY <1>7, StaleIsOld
  <2>2. /\ Limit(k, "position") = Requirement[k]["position"]
        /\ Limit(k, "position") \notin {NotRequired, NoLimit}
    BY <1>0, <2>1, LimitAssumption DEF Limit
  <2>3. Quality(o, k, "position") \in {"missing", "invalid", "stale"}
    BY <2>1, <2>2 DEF Quality
  <2>4. Has(o, "missing") \/ Has(o, "invalid") \/ Has(o, "stale")
    BY <2>1, <2>3 DEF Has, Components
  <2> QED BY <2>4 DEF Decide
<1> QED BY <1>4, <1>5, <1>6, <1>7

\* For every contract that watches positions, every trajectory and every moment
\* at which the scenario changes, inside a tick too: a waypoint is confirmed
\* only while the device follows (ClosedLoopExecutor::tick, policy.rs evaluate).
THEOREM NoProgressWithoutEvidence ==
  ASSUME PositionsWatched
  PROVE  SimSpec => ProgressNeedsEvidence
<1>1. SimInv /\ [SimNext]_simVars =>
        [confirmed' # confirmed => scenario \in {"nominal", "velocity_deviation"}]_simVars
  <2> SUFFICES ASSUME SimInv, SimNext, confirmed' # confirmed
               PROVE  scenario \in {"nominal", "velocity_deviation"}
    BY DEF simVars, vars
  <2>1. SimTick
    BY DEF SimNext, Elapse, SetScenario, vars
  <2>2. /\ scenario # "communication_failure" /\ phase = "sent"
        /\ Observe(Report(scenario, target))
    BY <2>1 DEF SimTick, Send, SendFails, ObserveFails
  <2>3. Decide(Report(scenario, target)) = "Continue"
    BY <2>2 DEF Observe
  <2>4. scenario \notin {"position_deviation", "stale", "missing", "invalid"}
    BY <2>2, <2>3, NoticedScenarios
  <2> QED BY <2>2, <2>4 DEF SimInv, Scenarios
<1> QED BY <1>1, SimInvariant, PTL DEF SimSpec, ProgressNeedsEvidence
=============================================================================
