------------------------ MODULE MCClosedLoopExecutor ------------------------
(***************************************************************************)
(* A two-joint robot following a trajectory of three waypoints or of one.  *)
(* The contract asks for both positions, fresh for joint 1, and for the    *)
(* velocity of joint 2; positions and velocities have thresholds.  The     *)
(* device may return any mixture of readings, one joint too few or too     *)
(* many, with a past, present or future stamp.                             *)
(***************************************************************************)
EXTENDS ClosedLoopExecutor

CONSTANTS long, short, empty

MCTrajectories == {long, short, empty}
MCLength ==
  [t \in MCTrajectories |-> IF t = long THEN 3 ELSE IF t = short THEN 1 ELSE 0]

Joint(p, v) == [position |-> p, velocity |-> v, effort |-> "absent"]
Contract(p, v) == [position |-> p, velocity |-> v, effort |-> NotRequired]

MCRequirement == <<Contract(1, NotRequired), Contract(NoLimit, NoLimit)>>
MCThresholds == {"position", "velocity"}

Joints == {Joint("near", "near"), Joint("far", "near"), Joint("near", "far"),
           Joint("nan", "near"), Joint("absent", "near"), Joint("near", "absent")}

MCObservations ==
  [stamp : {0, 2},
   joints : {<<a, b>> : a, b \in Joints} \cup {<<>>, <<Joint("near", "near")>>}
              \cup {<<a, b, a>> : a, b \in {Joint("near", "near"), Joint("far", "near")}}]
=============================================================================
