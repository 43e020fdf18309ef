-------------------------- MODULE SemanticLowering --------------------------
(***************************************************************************)
(* From what a robot should do to the instructions that do it              *)
(* (thalos-language-service: ir.rs, validation/, lowering/, and the skill  *)
(* registry of thalos-core).  The knowledge provider, the robots and the   *)
(* registry are parameters; so is the robot lowering is done for.          *)
(***************************************************************************)
EXTENDS Naturals, FiniteSets, SequencesExt

CONSTANTS
  Grasps,          \* grasp_plan of each object: [approach, grasp, retreat], or Unresolved
  Placements,      \* place_plan of each <<object, location>>: [approach, drop, retreat]
  LocationPose,    \* location_pose of each location
  HomePose,        \* home_pose
  Unresolved,      \* an error of the provider
  JointSpeed,      \* default_profile
  LineSpeed,       \* default_cartesian_profile, or NoProfile
  NoProfile,
  GlobalSkills,    \* skills registered for all robots: a function of their ids
  RobotSkills,     \* skills registered for one robot, of <<robot, id>>
  Supported,       \* skill_capabilities of each robot
  NoSkill,
  LoweringError, NormalizeError

\* Operations: Pick [object], Place [object, destination], MoveTo [destination],
\* Wait [amount], Home, Skill [skill, arguments].  A lowering context is made for
\* a robot or for none.
NoRobot == "none"

\* What the provider answers.
Asked(knowledge, resource) ==
  IF resource \in DOMAIN knowledge THEN knowledge[resource] ELSE Unresolved

\* Arguments that are missing.
DefaultObject == "default_object"
DefaultLocation == "default_location"

-----------------------------------------------------------------------------
(* Normalization of a robot program                                         *)

MotionsToTarget == {"Move", "MoveJoint", "MoveLinear", "Approach"}

\* All motions to a target become the same operation; reading and writing a
\* signal becomes a wait of no duration.
NormalizeInstruction(instruction, origin) ==
  CASE instruction.kind \in MotionsToTarget ->
         [kind |-> "MoveTo", origin |-> origin, destination |-> instruction.target]
    [] instruction.kind = "Retract" -> [kind |-> "Home", origin |-> origin]
    [] instruction.kind = "Skill" ->
         [kind |-> "Skill", origin |-> origin, skill |-> instruction.skill,
          arguments |-> instruction.arguments]
    [] instruction.kind = "Wait" ->
         [kind |-> "Wait", origin |-> origin, amount |-> instruction.amount]
    [] instruction.kind \in {"WaitSignal", "SetSignal"} ->
         [kind |-> "Wait", origin |-> origin, amount |-> 0]

Normalize(body, targets) ==
  IF \E i \in DOMAIN body : body[i].kind \in MotionsToTarget /\ body[i].target \notin targets
  THEN NormalizeError
  ELSE [i \in DOMAIN body |-> NormalizeInstruction(body[i], i)]

-----------------------------------------------------------------------------
(* Validation                                                               *)

\* Mutant: a place is justified by a pick anywhere in the program.
PlaceWithoutAnyPick(ir) ==
  {i \in DOMAIN ir : ir[i].kind = "Place" /\
     ~\E j \in DOMAIN ir : ir[j].kind = "Pick" /\ ir[j].object = ir[i].object}

\* A pick is not consumed: it justifies every later place of its object.
PlaceWithoutPick(ir) ==
  {i \in DOMAIN ir : ir[i].kind = "Place" /\
     ~\E j \in 1 .. i - 1 : ir[j].kind = "Pick" /\ ir[j].object = ir[i].object}

UnresolvableReference(ir) ==
  {i \in DOMAIN ir :
     \/ ir[i].kind = "Pick" /\ Asked(Grasps, ir[i].object) = Unresolved
     \/ ir[i].kind = "Place" /\
          Asked(Placements, <<ir[i].object, ir[i].destination>>) = Unresolved
     \/ ir[i].kind = "MoveTo" /\ Asked(LocationPose, ir[i].destination) = Unresolved
     \/ ir[i].kind = "Home" /\ HomePose = Unresolved}

\* Errors observed: references are looked at only when the order is right.
Validate(ir) ==
  IF PlaceWithoutPick(ir) # {} THEN PlaceWithoutPick(ir) ELSE UnresolvableReference(ir)

-----------------------------------------------------------------------------
(* Lowering                                                                 *)

CartesianProfile == IF LineSpeed = NoProfile THEN JointSpeed ELSE LineSpeed

MoveJ(origin, target) ==
  [kind |-> "MoveJ", origin |-> origin, target |-> target, speed |-> JointSpeed]
MoveL(origin, target) ==
  [kind |-> "MoveL", origin |-> origin, target |-> target, speed |-> CartesianProfile]
Delay(origin, amount) == [kind |-> "Delay", origin |-> origin, amount |-> amount]
Output(origin, value) == [kind |-> "SetOutput", origin |-> origin, amount |-> value]

\* Mutant: the gripper moves before the arm is there.
HandleEarly(origin, plan, there, value) ==
  IF plan = Unresolved THEN LoweringError
  ELSE <<MoveJ(origin, plan.approach), Output(origin, value),
         MoveL(origin, plan[there]), MoveL(origin, plan.retreat)>>

\* Approach, go there, grip or let go, leave again.
Handle(origin, plan, there, value) ==
  IF plan = Unresolved THEN LoweringError
  ELSE <<MoveJ(origin, plan.approach), MoveL(origin, plan[there]),
         Output(origin, value), MoveL(origin, plan.retreat)>>

EmitPick(origin, object) == Handle(origin, Asked(Grasps, object), "grasp", 1)
EmitPlace(origin, object, location) ==
  Handle(origin, Asked(Placements, <<object, location>>), "drop", 0)
EmitMove(origin, pose) ==
  IF pose = Unresolved THEN LoweringError ELSE <<MoveJ(origin, pose)>>
EmitHome(origin) == EmitMove(origin, HomePose)

\* The first error is the error of the whole.
Together(parts) ==
  IF \E i \in DOMAIN parts : parts[i] = LoweringError
  THEN LoweringError ELSE FlattenSeq(parts)

\* Mutant: an output of a fragment is left out.
LowerFragmentSilently(origin, fragment) ==
  Together([i \in DOMAIN fragment |->
    CASE fragment[i].kind = "Motion" -> EmitHome(origin)
      [] fragment[i].kind = "Wait" -> <<Delay(origin, fragment[i].amount)>>
      [] OTHER -> <<>>])

\* Whatever a motion of a fragment aims at, the arm is sent home; waiting for a
\* signal and calling another skill are left out.
LowerFragment(origin, fragment) ==
  Together([i \in DOMAIN fragment |->
    CASE fragment[i].kind = "Motion" -> EmitHome(origin)
      [] fragment[i].kind = "Wait" -> <<Delay(origin, fragment[i].amount)>>
      [] fragment[i].kind = "SetSignal" -> <<Output(origin, fragment[i].amount)>>
      [] fragment[i].kind \in {"WaitSignal", "Skill"} -> <<>>])

Argument(op, i, default) ==
  IF i \in DOMAIN op.arguments THEN op.arguments[i] ELSE default

\* The registry prefers a skill made for the robot.
GetForRobot(robot, skill) ==
  IF <<robot, skill>> \in DOMAIN RobotSkills THEN RobotSkills[<<robot, skill>>]
  ELSE IF skill \in DOMAIN GlobalSkills THEN GlobalSkills[skill] ELSE NoSkill

\* A skill that is no program is known by its name, or sends the arm home.
LowerNative(op) ==
  CASE op.skill = "pick" -> EmitPick(op.origin, Argument(op, 1, DefaultObject))
    [] op.skill = "place" ->
         EmitPlace(op.origin, Argument(op, 1, DefaultObject),
                   Argument(op, 2, DefaultLocation))
    [] OTHER -> EmitHome(op.origin)

\* The context's robot comes before the one the program names.
LowerSkill(op, irRobot, ctxRobot) ==
  LET skill == GetForRobot(IF ctxRobot = NoRobot THEN irRobot ELSE ctxRobot, op.skill)
      supported == ctxRobot # NoRobot => op.skill \in Supported[ctxRobot]
  IN  IF ~supported \/ skill = NoSkill THEN LoweringError
      ELSE IF skill.implementation = "program"
           THEN LowerFragment(op.origin, skill.fragment) ELSE LowerNative(op)

LowerOperation(op, irRobot, ctxRobot) ==
  CASE op.kind = "Pick" -> EmitPick(op.origin, op.object)
    [] op.kind = "Place" -> EmitPlace(op.origin, op.object, op.destination)
    [] op.kind = "MoveTo" -> EmitMove(op.origin, Asked(LocationPose, op.destination))
    [] op.kind = "Wait" -> <<Delay(op.origin, op.amount)>>
    [] op.kind = "Home" -> EmitHome(op.origin)
    [] op.kind = "Skill" -> LowerSkill(op, irRobot, ctxRobot)

Lower(ir, irRobot, ctxRobot) ==
  Together([i \in DOMAIN ir |-> LowerOperation(ir[i], irRobot, ctxRobot)])

=============================================================================
