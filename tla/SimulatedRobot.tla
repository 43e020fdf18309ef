--------------------------- MODULE SimulatedRobot ---------------------------
(***************************************************************************)
(* Closed-loop execution against the simulated adapter (robot/io.rs).  The *)
(* adapter remembers the commanded state and answers it back, distorted by *)
(* its scenario.  Clones of the adapter share the scenario behind a mutex, *)
(* so another thread may change it at any moment, between the two I/O      *)
(* calls of a tick too.  The adapter stamps an observation with the        *)
(* trajectory time of the commanded waypoint, not with the clock.          *)
(***************************************************************************)
EXTENDS ClosedLoopExecutor

CONSTANTS
  Period,     \* trajectory time between waypoints
  Staleness   \* age added by the stale scenario

VARIABLE scenario

simVars == <<vars, scenario>>

Scenarios == {"nominal", "position_deviation", "velocity_deviation",
              "stale", "missing", "invalid", "communication_failure"}

\* The target holds positions only, so does the echo of it; the velocity
\* scenario adds velocities, the offsets exceed their thresholds.
JointReport(s) ==
  [position |-> IF s = "position_deviation" THEN "far"
                ELSE IF s = "missing" THEN "absent"
                ELSE IF s = "invalid" THEN "nan" ELSE "near",
   velocity |-> IF s = "velocity_deviation" THEN "far" ELSE "absent",
   effort |-> "absent"]

Report(s, w) ==
  [stamp |-> w * Period - (IF s = "stale" THEN Staleness ELSE 0),
   joints |-> [j \in 1 .. Dof |-> JointReport(s)]]

\* What the adapter reports of a waypoint is something a device may return.
ASSUME AdapterAssumption ==
  /\ Period \in Nat /\ Staleness \in Nat
  /\ \A s \in Scenarios, t \in Trajectories :
       \A w \in 0 .. Length[t] - 1 : Report(s, w) \in Observations

SimTick ==
  \/ \E t \in Trajectories :
       /\ status = "Idle" \/ t = route
       /\ IF scenario = "communication_failure" THEN SendFails(t) ELSE Send(t)
  \/ IF scenario = "communication_failure" THEN ObserveFails
     ELSE phase = "sent" /\ Observe(Report(scenario, target))

SetScenario(s) == scenario' = s /\ UNCHANGED vars

SimInit == Init /\ scenario = "nominal"

SimNext ==
  \/ SimTick /\ UNCHANGED scenario
  \/ Elapse /\ UNCHANGED scenario
  \/ \E s \in Scenarios : SetScenario(s)

\* The host keeps calling tick and both I/O calls return.
SimSpec == SimInit /\ [][SimNext]_simVars /\ WF_simVars(SimTick /\ UNCHANGED scenario)

-----------------------------------------------------------------------------
(* Properties                                                               *)

\* The contract limits the age of a position and there is a threshold for it;
\* the stale scenario exceeds that age at every waypoint, although the stamps
\* it is taken off run ahead of the clock by up to a whole trajectory.
PositionsWatched ==
  /\ Dof > 0 /\ "position" \in Thresholds
  /\ \E j \in 1 .. Len(Requirement) :
       /\ Requirement[j]["position"] \in Nat
       /\ \A t \in Trajectories :
            Staleness > Requirement[j]["position"] + (Length[t] - 1) * Period

\* A waypoint is confirmed on what the device does when it is read, not when it
\* was commanded: never while it deviates, lags, stays silent or reports NaN.
ProgressNeedsEvidence ==
  [][ confirmed' # confirmed => scenario \in {"nominal", "velocity_deviation"}
    ]_simVars

\* An execution on a device that settles for good also settles: it completes
\* on a healthy device and gives up on a broken one, however often it was held
\* or paused before.
SettlesWithDevice ==
  \A s \in {"nominal", "invalid", "communication_failure"} :
    <>[](scenario = s) => <>(status \in Stopped)

\* executor.rs: "Temporarily holding current position due to observation
\* quality degradation", and the test stale_observation_triggers_hold_and_
\* recovers: once the telemetry is nominal again, a hold ends.
HoldIsTemporary ==
  <>[](scenario = "nominal") => []<>(status # "Holding")
=============================================================================
