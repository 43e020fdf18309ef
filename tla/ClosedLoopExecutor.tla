------------------------- MODULE ClosedLoopExecutor -------------------------
(***************************************************************************)
(* Closed-loop execution of a trajectory (thalos-core, robot/executor.rs): *)
(* each tick commands the current waypoint, reads an observation, judges   *)
(* it against the observation contract and the deviation thresholds        *)
(* (robot/observation.rs, robot/state.rs, robot/policy.rs) and advances,   *)
(* repeats the waypoint or gives up.                                       *)
(*                                                                         *)
(* A tick is two steps, because the device may block or change between its *)
(* two I/O calls: Send commands the waypoint, Observe reads and judges.    *)
(* The clock is read before the first.  A joint reading is abstracted to   *)
(* what the judgement tells apart: "near" or "far" from the planned motion *)
(* (within or beyond the threshold of its component), "nan" or "absent".   *)
(***************************************************************************)
EXTENDS Integers, Sequences

CONSTANTS
  Trajectories,  \* trajectories the host executes
  Length,        \* number of waypoints of each
  Dof,           \* joints of a waypoint
  Requirement,   \* observation contract: per joint and component a limit
  NotRequired,   \* limit of a component outside the contract
  NoLimit,       \* limit of a required component of any age
  Thresholds,    \* components with a deviation threshold
  Observations,  \* bound: what the device may return
  MaxClock,      \* bound: last instant of the clock
  NoTrajectory, NoTarget, NoCycle

Components == {"position", "velocity", "effort"}
Readings == {"near", "far", "nan", "absent"}
Limits == Nat \cup {NotRequired, NoLimit}
Observation == [stamp : Int, joints : Seq([Components -> Readings])]

ASSUME LimitAssumption ==
  NotRequired \notin Nat /\ NoLimit \notin Nat /\ NotRequired # NoLimit
ASSUME PlanAssumption ==
  /\ Length \in [Trajectories -> Nat] /\ Dof \in Nat
  /\ Requirement \in Seq([Components -> Limits])
  /\ Thresholds \subseteq Components
  /\ Observations \subseteq Observation
  /\ NoTrajectory \notin Trajectories /\ NoTarget \notin Nat
  /\ MaxClock \in Nat

VARIABLES
  status,     \* ExecutionStatus
  step,       \* current_step
  phase,      \* "idle", or "sent" between the two I/O calls of a tick
  clock,      \* the execution clock
  now,        \* clock reading of the tick in progress
  route,      \* trajectory passed to the last tick
  target,     \* waypoint the device was last commanded to
  cycle,      \* last ExecutionCycle: waypoint, observation and decision
  confirmed   \* history: waypoints judged Continue since the last reset

vars == <<status, step, phase, clock, now, route, target, cycle, confirmed>>

Decisions == {"Continue", "Hold", "Pause", "Abort"}
Statuses == {"Idle", "Running", "Holding", "Paused", "Completed", "Aborted"}
Stopped == {"Completed", "Aborted"}

-----------------------------------------------------------------------------
(* Judging an observation                                                   *)

Reading(o, j, c) == IF j <= Len(o.joints) THEN o.joints[j][c] ELSE "absent"
Limit(j, c) == IF j <= Len(Requirement) THEN Requirement[j][c] ELSE NotRequired

\* An observation stamped after the clock was read has age 0.
Age(o) == IF now >= o.stamp THEN now - o.stamp ELSE 0

Quality(o, j, c) ==
  IF Limit(j, c) = NotRequired THEN "valid"
  ELSE IF Reading(o, j, c) = "absent" THEN "missing"
  ELSE IF Reading(o, j, c) = "nan" THEN "invalid"
  ELSE IF Limit(j, c) # NoLimit /\ Age(o) > Limit(j, c) THEN "stale"
  ELSE "valid"

Has(o, q) ==
  \E j \in 1 .. Len(Requirement), c \in Components : Quality(o, j, c) = q

\* JointState::position: a waypoint plans positions only.
Planned == {"position"}

\* Mutant: the position threshold is not consulted.
ExceedsNotPosition(o, c) == FALSE

\* An error vector exists when both states have as many joints and every joint
\* has the component on both sides; NaN never is the largest error.
Exceeds(o, c) ==
  /\ c \in Thresholds
  /\ Len(o.joints) = Dof
  /\ c \in Planned /\ \A j \in 1 .. Dof : o.joints[j][c] # "absent"
  /\ \E j \in 1 .. Dof : o.joints[j][c] = "far"

\* Mutant: an invalid observation only pauses.
DecidePauseInvalid(o) ==
  IF Has(o, "invalid") \/ Has(o, "missing") THEN "Pause"
  ELSE IF Has(o, "stale") THEN "Hold"
  ELSE IF Exceeds(o, "position") THEN "Pause" ELSE "Continue"

Decide(o) ==
  IF Has(o, "invalid") THEN "Abort"
  ELSE IF Has(o, "missing") THEN "Pause"
  ELSE IF Has(o, "stale") THEN "Hold"
  ELSE IF Exceeds(o, "position") THEN "Pause"
  ELSE IF Exceeds(o, "velocity") \/ Exceeds(o, "effort") THEN "Hold"
  ELSE "Continue"

-----------------------------------------------------------------------------
(* The steps of a tick                                                      *)

\* Mutant: a stopped executor goes on.
CanTickStopped(t) == phase = "idle" /\ Length[t] > 0

\* An empty trajectory is an error and a stopped executor answers None: both
\* leave everything as it is.
CanTick(t) == phase = "idle" /\ Length[t] > 0 /\ status \notin Stopped

\* An idle executor begins at the first waypoint.
CurrentStep == IF status = "Idle" THEN 0 ELSE step

\* current_step clamped to the waypoints of this trajectory.
Clamped(t) == IF CurrentStep < Length[t] THEN CurrentStep ELSE Length[t] - 1

Send(t) ==
  /\ CanTick(t)
  /\ status' = IF status = "Idle" THEN "Running" ELSE status
  /\ step' = CurrentStep
  /\ target' = Clamped(t)
  /\ phase' = "sent"
  /\ now' = clock
  /\ route' = t
  /\ UNCHANGED <<clock, cycle, confirmed>>

SendFails(t) ==
  /\ CanTick(t)
  /\ status' = "Aborted"
  /\ step' = CurrentStep
  /\ route' = t
  /\ UNCHANGED <<phase, clock, now, target, cycle, confirmed>>

\* Mutant: completion by the index of the next waypoint.
LastEarly(w) == w + 2 >= Length[route]

Last(w) == w + 1 >= Length[route]

\* Mutants: a stop advances too; a completed trajectory is reported running.
FollowAlways(decision) ==
  IF decision \in {"Continue", "Hold"}
  THEN IF Last(step) THEN status' = "Completed" /\ UNCHANGED step
       ELSE status' = "Running" /\ step' = step + 1
  ELSE /\ status' = IF decision = "Pause" THEN "Paused" ELSE "Aborted"
       /\ UNCHANGED step
FollowRunning(decision) ==
  IF decision = "Continue"
  THEN status' = "Running" /\ step' = step + 1
  ELSE /\ status' = IF decision = "Hold" THEN "Holding"
                    ELSE IF decision = "Pause" THEN "Paused" ELSE "Aborted"
       /\ UNCHANGED step

Follow(decision) ==
  IF decision = "Continue"
  THEN IF Last(step) THEN status' = "Completed" /\ UNCHANGED step
       ELSE status' = "Running" /\ step' = step + 1
  ELSE /\ status' = IF decision = "Hold" THEN "Holding"
                    ELSE IF decision = "Pause" THEN "Paused" ELSE "Aborted"
       /\ UNCHANGED step

Observe(o) ==
  /\ phase = "sent"
  /\ LET decision == Decide(o) IN
       /\ Follow(decision)
       /\ cycle' = [waypoint |-> target, observed |-> o, decision |-> decision]
       /\ confirmed' = IF decision = "Continue" THEN confirmed \cup {target}
                       ELSE confirmed
  /\ phase' = "idle"
  /\ UNCHANGED <<clock, now, route, target>>

ObserveFails ==
  /\ phase = "sent"
  /\ status' = "Aborted"
  /\ phase' = "idle"
  /\ UNCHANGED <<step, clock, now, route, target, cycle, confirmed>>

Reset ==
  /\ phase = "idle"
  /\ status' = "Idle"
  /\ step' = 0
  /\ confirmed' = {}
  /\ UNCHANGED <<phase, clock, now, route, target, cycle>>

\* Time passes between and inside the calls.
Elapse ==
  /\ clock < MaxClock
  /\ clock' = clock + 1
  /\ UNCHANGED <<status, step, phase, now, route, target, cycle, confirmed>>

-----------------------------------------------------------------------------

Init ==
  /\ status = "Idle"
  /\ step = 0
  /\ phase = "idle"
  /\ clock = 0
  /\ now = 0
  /\ route = NoTrajectory
  /\ target = NoTarget
  /\ cycle = NoCycle
  /\ confirmed = {}

\* The host passes one trajectory from a reset to the next, as tick expects.
Host(t) == (status = "Idle" \/ t = route) /\ (Send(t) \/ SendFails(t))

Next ==
  \/ \E t \in Trajectories : Host(t)
  \/ \E o \in Observations : Observe(o)
  \/ ObserveFails
  \/ Reset
  \/ Elapse

Spec == Init /\ [][Next]_vars

-----------------------------------------------------------------------------
(* Properties                                                               *)

Cycles == [waypoint : Nat, observed : Observations, decision : Decisions]

\* Every variable has its type and the index is one of the trajectory's: the
\* clamp of tick is never needed while the host keeps to one trajectory.
TypeOK ==
  /\ status \in Statuses
  /\ step \in Nat
  /\ phase \in {"idle", "sent"}
  /\ clock \in 0 .. MaxClock /\ now \in 0 .. clock
  /\ route \in Trajectories \cup {NoTrajectory}
  /\ target \in Nat \cup {NoTarget}
  /\ cycle \in Cycles \cup {NoCycle}
  /\ confirmed \in SUBSET Nat
  /\ status # "Idle" => route \in Trajectories /\ step < Length[route]

\* Every waypoint before the index, and the whole trajectory once completed,
\* was judged Continue in this execution.
Evidence ==
  /\ status # "Completed" => confirmed = 0 .. step - 1
  /\ status = "Completed" => confirmed = 0 .. Length[route] - 1 /\ Last(step)

\* Inside a tick the device was commanded to the current waypoint.
Aimed == phase = "sent" => target = step /\ status \notin Stopped \cup {"Idle"}

\* The index never runs ahead of the evidence: tick advances on Continue only
\* and judges the waypoint it commanded, so a completed trajectory was followed
\* through every waypoint, with nothing left over from before the last reset.
StepJustified == Evidence /\ Aimed /\ (status = "Idle" => step = 0)

Tracking == INSTANCE WaypointTracking WITH
  mode <- IF status = "Idle" THEN "ready"
          ELSE IF status = "Completed" THEN "done"
          ELSE IF status = "Aborted" THEN "failed" ELSE "tracking",
  goal <- IF status \in {"Idle", "Aborted"} THEN 0 ELSE Length[route],
  reached <- IF status = "Completed" THEN Length[route] ELSE step,
  target <- target,
  NoTarget <- NoTarget

\* The executor implements waypoint tracking: whatever the device returns and
\* whichever I/O call fails, the robot is only commanded to the first waypoint
\* it has not reached, and nothing moves after completion or an abort.
ImplementsWaypointTracking == Tracking!TrackSpec
=============================================================================
