-------------------------- MODULE WaypointTracking --------------------------
(***************************************************************************)
(* What closed-loop execution promises about a trajectory, without         *)
(* observations or policies: the robot is only ever commanded to the first *)
(* waypoint it has not reached yet, waypoints are reached one at a time    *)
(* and in order, an execution is done when the last one is reached, and an *)
(* execution that is done or failed commands nothing until it is reset.    *)
(***************************************************************************)
EXTENDS Naturals

CONSTANTS NoTarget

VARIABLES
  mode,     \* "ready", "tracking", "done" or "failed"
  goal,     \* number of waypoints of the trajectory, 0 when there is none
  reached,  \* waypoints reached so far
  target    \* waypoint the robot was last commanded to

trackVars == <<mode, goal, reached, target>>

TrackInit ==
  mode = "ready" /\ goal = 0 /\ reached = 0 /\ target = NoTarget

\* The first command of an execution.
Begin ==
  /\ mode = "ready"
  /\ mode' = "tracking" /\ goal' \in Nat \ {0} /\ target' = 0
  /\ UNCHANGED reached

Command ==
  /\ mode = "tracking"
  /\ target' = reached
  /\ UNCHANGED <<mode, goal, reached>>

\* Only the commanded waypoint can be reached.
Reach ==
  /\ mode = "tracking" /\ target = reached
  /\ reached' = reached + 1
  /\ mode' = IF reached' = goal THEN "done" ELSE "tracking"
  /\ UNCHANGED <<goal, target>>

Fail ==
  /\ mode \in {"ready", "tracking"}
  /\ mode' = "failed" /\ goal' = 0
  /\ UNCHANGED <<reached, target>>

Restart ==
  /\ mode' = "ready" /\ goal' = 0 /\ reached' = 0
  /\ UNCHANGED target

TrackNext == Begin \/ Command \/ Reach \/ Fail \/ Restart

TrackSpec == TrackInit /\ [][TrackNext]_trackVars
=============================================================================
