------------------------ MODULE MCPlanningPipeline ------------------------
(***************************************************************************)
(* An arm with an elbow that bends one way or the other, places 0 .. 6 and *)
(* two orientations.  The solver does not converge at 2, 4 and 5; it finds *)
(* orientation 1 at 1 only with the elbow the other way, at 6 not at all,  *)
(* and refuses it at 0.  The elbow cannot be bent (1) at 6.                *)
(***************************************************************************)
EXTENDS PlanningPipeline

CONSTANTS MaxIterations, IkError, IkFailed, JointLimitViolation, MCAnyFacing

Arm == [elbow : {0, 1}, place : {0, 1, 3, 6}, facing : {0, 1}]
MCPlaces == 0 .. 6
MCPlace == [q \in Arm |-> q.place]
Facing == [q \in Arm |-> q.facing]

Dist(a, b) == IF a < b THEN b - a ELSE a - b
MCJointDistance(q, r) ==
  Max({Dist(q.place, r.place), Dist(q.facing, r.facing), Dist(q.elbow, r.elbow)})

MCSolvePosition(q, place) ==
  IF place \in {0, 1, 3, 6} THEN [q EXCEPT !.place = place] ELSE MaxIterations

\* A seed that is a solution is the answer.
MCSolvePose(q, place, facing) ==
  IF q.place = place /\ q.facing = facing THEN q
  ELSE CASE place \notin {0, 1, 3, 6} \/ (place = 6 /\ facing = 1) -> MaxIterations
         [] place = 0 /\ facing = 1 -> IkError
         [] place = 1 /\ facing = 1 -> [elbow |-> 1, place |-> 1, facing |-> 1]
         [] OTHER -> [q EXCEPT !.place = place, !.facing = facing]

Planner == INSTANCE SegmentPlanner WITH
  Joints <- Arm, Place <- MCPlace, AnyFacing <- MCAnyFacing,
  JointDistance <- MCJointDistance,
  SolvePosition <- MCSolvePosition, SolvePose <- MCSolvePose,
  WithinLimits <- {q \in Arm : ~(q.elbow = 1 /\ q.place = 6)},
  CartesianStep <- 2, DefaultSpeed <- 1

ASSUME SolverKeeps == Planner!SolversKeep(MCPlaces, {0, 1})

MCPlanSegment(segment, q) == Planner!TrajectoryFor(segment, q)
MCErrors == Planner!PlanningErrors

MCStarts ==
  {[elbow |-> 0, place |-> 1, facing |-> 0], [elbow |-> 1, place |-> 3, facing |-> 1]}

Target(frame, place, facing) == [frame |-> frame, place |-> place, facing |-> facing]
At(place, facing) == Target("world", place, facing)
MCTargets ==
  {At(p, f) : p \in {0, 1, 3, 6}, f \in {0, 1, MCAnyFacing}} \cup
  {At(2, MCAnyFacing), Target("unknown", 1, MCAnyFacing)}

MCOrigins == {1, 2, 3, 4}

Alternatives(i) ==
  [kind : {"MoveJ"}, origin : {i}, speed : {1},
   target : {At(p, MCAnyFacing) : p \in {1, 2, 3, 6}}] \cup
  [kind : {"MoveL"}, origin : {i}, speed : {2},
   target : {Target("unknown", 1, MCAnyFacing), At(1, 1), At(3, 1),
             At(6, MCAnyFacing)}] \cup
  [kind : {"MoveJ", "MoveL"}, origin : {i}, speed : {0}, target : {At(3, 0)}] \cup
  {[kind |-> "Delay", origin |-> i, amount |-> 2],
   [kind |-> "SetOutput", origin |-> i, amount |-> 1]}

MCPrograms ==
  {<<a>> : a \in Alternatives(1)} \cup
  {<<a, b>> : a \in Alternatives(1), b \in Alternatives(2)} \cup
  {<<a, b, c>> : a \in Alternatives(1), b \in Alternatives(2), c \in Alternatives(3)}

MCEditorSegments ==
  [kind : {"MoveJPose"}, origin : {1}, speed : {NoSpeed},
   target : {At(1, 1), At(6, 1), At(2, 0)}] \cup
  [kind : {"MoveJPosition"}, origin : {1}, speed : {1},
   target : {At(6, MCAnyFacing)}] \cup
  [kind : {"MoveL"}, origin : {1}, speed : {1},
   target : {At(0, 1), At(1, 1), At(3, 0)}] \cup
  {[kind |-> "Delay", origin |-> 1, seconds |-> 2],
   [kind |-> "SetOutput", origin |-> 1, amount |-> 1]}

MCSegmentPrograms ==
  {<<a, b>> : a, b \in MCEditorSegments} \cup
  {<<a, b, c>> : a, b, c \in MCEditorSegments}

MCOperation(kind, origin, place, facing) ==
  [kind |-> kind, origin |-> origin, target |-> At(place, facing)]

MCOperationPrograms ==
  {<<MCOperation(a, 1, p, 0), MCOperation(b, 2, q, f), MCOperation(c, 3, p, 0)>> :
     a, b, c \in {"Pick", "Place", "Transit"}, p, q \in {1, 3, 6}, f \in {0, 1}}

=============================================================================
