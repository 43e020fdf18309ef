-------------------------- MODULE MCSimulatedRobot --------------------------
(***************************************************************************)
(* One joint and three waypoints, one instant apart.  MaxAge is the        *)
(* staleness the contract allows a position.                               *)
(***************************************************************************)
EXTENDS SimulatedRobot

CONSTANTS path, MaxAge

MCTrajectories == {path}
MCLength == [t \in MCTrajectories |-> 3]
MCRequirement ==
  <<[position |-> MaxAge, velocity |-> NotRequired, effort |-> NotRequired]>>
MCThresholds == {"position", "velocity"}
MCObservations == {Report(s, w) : s \in Scenarios, w \in 0 .. 2}

\* The hypothesis under which progress is proved to need evidence.
ASSUME MCPositionsWatched == PositionsWatched
=============================================================================
