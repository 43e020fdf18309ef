--------------------------- MODULE SegmentPlanner ---------------------------
(***************************************************************************)
(* How one motion segment becomes a trajectory (thalos-planning,           *)
(* DefaultPlannerDispatcher in motion/compiler.rs with its planners).      *)
(*                                                                         *)
(* The arm works along a line of places, with an orientation at each; a    *)
(* configuration of the joints has a place and an orientation, and several *)
(* configurations may share them.  Time and distance are whole numbers of  *)
(* samples.  The IK solver is a parameter, as it is in the code.           *)
(***************************************************************************)
EXTENDS Integers, Sequences

CONSTANTS
  Joints,                \* configurations of the joints
  Place,                 \* end-effector place of each of them
  Facing,                \* and its orientation
  AnyFacing,             \* a target that leaves the orientation free
  JointDistance(_, _),   \* largest displacement of a joint
  SolvePosition(_, _),   \* IKGoal::Position from a seed
  SolvePose(_, _, _),    \* IKGoal::Pose from a seed
  MaxIterations,         \* the solver did not converge
  IkError,               \* the solver refused the goal
  WithinLimits,          \* configurations no joint limit forbids
  CartesianStep,         \* cartesian_step, in samples
  DefaultSpeed, NoSpeed, \* PlannerDefaults, and a segment without a request
  IkFailed, JointLimitViolation  \* PlanningError

Distance(p, q) == IF p < q THEN q - p ELSE p - q

Waypoint(joints, at) == [joints |-> joints, at |-> at]

\* Errors are values of their own, never sequences.
PlanningErrors == {IkFailed, JointLimitViolation}

\* What the planners rely on, over a line of places and with these orientations:
\* the solver answers with a configuration at the place asked for or with none,
\* and with its seed where that is a solution, before the first iteration; two
\* configurations are no distance apart only where they are the same.
SolversKeep(line, facings) ==
  /\ line \subseteq Int /\ \A a, b \in line : a .. b \subseteq line
  /\ Place \in [Joints -> line] /\ Facing \in [Joints -> facings]
  /\ WithinLimits \subseteq Joints
  /\ {MaxIterations, IkError, IkFailed, JointLimitViolation} \cap Joints = {}
  /\ \A q \in Joints, place \in line :
       LET found == SolvePosition(q, place)
       IN  /\ found \in {MaxIterations, IkError} \cup {r \in Joints : Place[r] = place}
           /\ place = Place[q] => found = q
  /\ \A q \in Joints, place \in line, facing \in facings \cup {AnyFacing} :
       LET found == SolvePose(q, place, facing)
       IN  /\ facing # AnyFacing => found \in {MaxIterations, IkError} \cup Joints
           /\ found \in Joints => Place[found] = place
           /\ place = Place[q] /\ facing = Facing[q] => found = q
  /\ \A q, r \in Joints :
       JointDistance(q, r) \in Nat /\ (JointDistance(q, r) = 0 => q = r)
  /\ DefaultSpeed \in Nat \ {0} /\ NoSpeed \notin Nat

-----------------------------------------------------------------------------
(* Goals                                                                    *)

\* Limits are checked after the solver has answered.
Validated(solution) ==
  CASE solution \in {MaxIterations, IkError} -> IkFailed
    [] solution \notin {MaxIterations, IkError} /\ solution \notin WithinLimits
       -> JointLimitViolation
    [] OTHER -> solution

ResolvePosition(q, place) == Validated(SolvePosition(q, place))

\* A pose that cannot be reached is retried without its orientation; a pose
\* that is reached outside the limits is not.
ResolvePose(q, target) ==
  LET resolved == Validated(SolvePose(q, target.place, target.facing))
  IN  IF resolved = IkFailed THEN ResolvePosition(q, target.place)
                             ELSE resolved

\* Kinds whose target has no orientation.
PositionKinds == {"MoveJPosition", "MoveLPosition"}

Resolve(segment, q) ==
  CASE segment.kind = "MoveJ" -> Validated(segment.target)
    [] segment.kind \in PositionKinds -> ResolvePosition(q, segment.target.place)
    [] OTHER -> ResolvePose(q, segment.target)

-----------------------------------------------------------------------------
(* Motion                                                                   *)

Speed(segment) == IF segment.speed = NoSpeed THEN DefaultSpeed ELSE segment.speed

\* Rounded up to a whole sample; a degenerate speed takes no time at all.
TotalTime(distance, speed) ==
  IF speed = 0 THEN 0 ELSE (distance + speed - 1) \div speed

\* Without time to move, the one waypoint is where the arm already is.
JointMove(q, goal, speed) ==
  LET time == TotalTime(JointDistance(q, goal), speed)
  IN  IF time = 0 THEN <<Waypoint(q, 0)>>
                  ELSE <<Waypoint(q, 0), Waypoint(goal, time)>>

\* Solution at a place on the way.  A pose that does not converge is retried as
\* a position, one the solver refuses is not.
OnTheWay(q, place, facing) ==
  LET pose == SolvePose(q, place, facing)
  IN  IF facing = AnyFacing \/ pose = MaxIterations THEN SolvePosition(q, place)
                                                    ELSE pose

\* The sample at time t of the line from q0 to target.  A place on the way that
\* has no solution is skipped when it is near the last waypoint.
Sample(q0, target, facing, speed, so_far, t) ==
  LET from     == Place[q0]
      distance == Distance(from, target)
      d      == IF speed * t > distance THEN distance ELSE speed * t
      place  == IF from < target THEN from + d ELSE from - d
      turned == IF facing = AnyFacing THEN AnyFacing
                ELSE IF 2 * d < distance THEN Facing[q0] ELSE facing
      q      == OnTheWay(so_far.q, place, turned)
      solved == q \notin {MaxIterations, IkError}
      near   == d - so_far.travelled < CartesianStep
  IN  CASE so_far.failed -> so_far
        [] ~so_far.failed /\ solved ->
             [so_far EXCEPT !.q = q, !.travelled = d,
                            !.points = Append(@, Waypoint(q, t))]
        [] ~so_far.failed /\ ~solved /\ near /\ q = MaxIterations -> so_far
        [] OTHER -> [so_far EXCEPT !.failed = TRUE]

\* The samples before time.
Sampled(q0, target, facing, speed, time) ==
  LET before[t \in 0 .. time] ==
        IF t = 0 THEN [q |-> q0, travelled |-> 0, points |-> <<>>, failed |-> FALSE]
        ELSE Sample(q0, target, facing, speed, before[t - 1], t - 1)
  IN  before[time]

\* Without time to move, the one waypoint is the goal, at time 0.
LineMove(q0, goal, target, facing, speed) ==
  LET time    == TotalTime(Distance(Place[q0], target), speed)
      sampled == Sampled(q0, target, facing, speed, time)
  IN  IF sampled.failed THEN IkFailed
                        ELSE Append(sampled.points, Waypoint(goal, time))

\* A wait holds the arm still; an output takes no time and moves nothing.
TrajectoryFor(segment, q) ==
  LET goal == Resolve(segment, q)
  IN  CASE segment.kind = "Delay" ->
             <<Waypoint(q, 0), Waypoint(q, segment.seconds)>>
        [] segment.kind = "SetOutput" -> <<>>
        [] segment.kind \in {"MoveJ", "MoveJPosition", "MoveJPose"} ->
             IF goal \in PlanningErrors THEN goal ELSE JointMove(q, goal, Speed(segment))
        [] segment.kind \in {"MoveL", "MoveLPosition"} ->
             IF goal \in PlanningErrors THEN goal
             ELSE LineMove(q, goal, segment.target.place, segment.target.facing,
                           Speed(segment))
=============================================================================
