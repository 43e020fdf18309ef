--------------------------- MODULE SkillExecution ---------------------------
(***************************************************************************)
(* Semantic programs on a robot: lowered (SemanticLowering), planned       *)
(* (PlanningPipeline), carried out, and judged by the contracts of their   *)
(* skills (SkillExecutionEngine, thalos-language-service/execution.rs).    *)
(*                                                                         *)
(* A host runs a program in one of two ways.  As a whole: it is planned    *)
(* and carried out, then execute_program judges all its skills at once by  *)
(* the states before and after.  Or skill by skill: each is prepared,      *)
(* planned, carried out and judged before the next one.  Carrying out a    *)
(* plan is the host's; closing the gripper on an object may miss it.  The  *)
(* engine has no call for a skill whose plan failed: the host has it       *)
(* judged like any other, or writes its record of failure itself.          *)
(***************************************************************************)
EXTENDS PlanningPipeline, SemanticLowering

CONSTANTS
  Irs,           \* semantic programs run as a whole
  Bodies,        \* robot programs run as a whole, before normalization
  SkillPrograms, \* semantic programs run skill by skill, of skills only
  Defined,       \* targets the robot programs define
  Contexts,      \* <<robot of the program, robot of the lowering context>>
  NoObject

VARIABLES
  ir,         \* operations of the request
  robots,     \* its element of Contexts
  mode,       \* "none", "whole" or "step"
  stage,      \* "none", "running", "ran" or "judged"
  next,       \* step: operation under way
  world,      \* [grip, held, joints]
  observed,   \* world before the program, or before the skill under way
  lived,      \* history: world before and after each operation, and what
              \* became of its plan: "carried", "failed" or "none"
  records     \* SkillExecutionRecords

skillVars == <<ir, robots, mode, stage, next, world, observed, lived, records>>
allVars == <<vars, skillVars>>

\* A list of steps, numbered by their origins where they have one.
IsList(list) == Len(list) \in Nat /\ DOMAIN list = 1 .. Len(list)

\* What a wait and an output need to know.
HasAmount(step, kinds) == step.kind \in kinds => step.amount \in Nat

IsSemantic(code) ==
  /\ IsList(code) /\ DOMAIN code \subseteq Origins
  /\ \A i \in DOMAIN code :
       /\ code[i].kind \in {"Pick", "Place", "MoveTo", "Wait", "Home", "Skill"}
       /\ code[i].origin = i /\ HasAmount(code[i], {"Wait"})

IsBody(body) ==
  /\ IsList(body) /\ DOMAIN body \subseteq Origins
  /\ \A i \in DOMAIN body :
       /\ body[i].kind \in MotionsToTarget \cup {"Retract", "Skill", "Wait", "WaitSignal", "SetSignal"}
       /\ HasAmount(body[i], {"Wait"})

IsFragment(fragment) ==
  /\ IsList(fragment)
  /\ \A i \in DOMAIN fragment :
       /\ fragment[i].kind \in {"Motion", "Wait", "SetSignal", "WaitSignal", "Skill"}
       /\ HasAmount(fragment[i], {"Wait", "SetSignal"})

ASSUME ProgramAssumption ==
  /\ \A code \in Irs \cup SkillPrograms : IsSemantic(code)
  /\ \A code \in SkillPrograms : \A i \in DOMAIN code : code[i].kind = "Skill"
  /\ \A body \in Bodies : IsBody(body)

\* What the provider knows are targets, at the speeds of its profiles.
ASSUME KnowledgeAssumption ==
  /\ \A object \in DOMAIN Grasps : Grasps[object] \in
       [approach : Targets, grasp : Targets, retreat : Targets] \cup {Unresolved}
  /\ \A drop \in DOMAIN Placements : Placements[drop] \in
       [approach : Targets, drop : Targets, retreat : Targets] \cup {Unresolved}
  /\ \A location \in DOMAIN LocationPose : LocationPose[location] \in Targets \cup {Unresolved}
  /\ HomePose \in Targets \cup {Unresolved}
  /\ JointSpeed \in Speeds /\ CartesianProfile \in Speeds

ASSUME RegistryAssumption ==
  /\ \A skill \in DOMAIN GlobalSkills : IsFragment(GlobalSkills[skill].fragment)
  /\ \A key \in DOMAIN RobotSkills : IsFragment(RobotSkills[key].fragment)
  /\ LoweringError \notin Seq(Instruction)

\* Profiles at which the arm moves at all.
ProfilesMove == JointSpeed > 0 /\ CartesianProfile > 0

IrRobot == robots[1]
CtxRobot == robots[2]

-----------------------------------------------------------------------------
(* Contracts                                                                *)

\* ConditionEvaluator: a condition it does not know is unknown, not violated.
Truth(condition, state) ==
  LET known(holds) == IF holds THEN "success" ELSE "violated"
  IN  CASE condition = "GripperOpen" -> known(state.grip = "open")
        [] condition = "GripperClosed" -> known(state.grip = "closed")
        [] condition = "ObjectAttached" -> known(state.held # NoObject)
        [] OTHER -> "unknown"

\* The first condition that is not satisfied decides.
Evaluate(conditions, state) ==
  LET open == {i \in DOMAIN conditions : Truth(conditions[i], state) # "success"}
  IN  IF open = {} THEN "success" ELSE Truth(conditions[Min(open)], state)

Record(op, pre, outcome, post) ==
  [skill |-> op.skill, origin |-> op.origin,
   pre |-> pre, outcome |-> outcome, post |-> post]

\* The contract is that of the program's robot, what is lowered that of the
\* context's.
Contract(op) == GetForRobot(IrRobot, op.skill)
LoweredAlone(op) == LowerOperation(op, IrRobot, CtxRobot)

\* A skill that is not found, must not start or cannot be lowered has its record
\* already; one that is ready has none.
Ready(op, state) ==
  /\ Contract(op) # NoSkill
  /\ Evaluate(Contract(op).pre, state) = "success"
  /\ LoweredAlone(op) # LoweringError

EarlyRecord(op, state) ==
  IF Contract(op) = NoSkill THEN Record(op, "unknown", "none", "none")
  ELSE LET pre == Evaluate(Contract(op).pre, state)
       IN  Record(op, pre, IF pre = "success" THEN "failure" ELSE "none", "none")

\* Whatever became of the lowered program, its outcome is a success.
EvaluatePostconditions(op, state) ==
  Record(op, "success", "success", Evaluate(Contract(op).post, state))

\* Mutant: the state before decides twice.
ExecuteSkillOpStale(op, pre, post) ==
  IF Ready(op, pre) THEN EvaluatePostconditions(op, pre) ELSE EarlyRecord(op, pre)

ExecuteSkillOp(op, pre, post) ==
  IF Ready(op, pre) THEN EvaluatePostconditions(op, post) ELSE EarlyRecord(op, pre)

\* Only the skills of a program are judged, all by the same two states.
ExecuteProgram(pre, post) ==
  FlattenSeq([i \in DOMAIN ir |->
    IF ir[i].kind = "Skill" THEN <<ExecuteSkillOp(ir[i], pre, post)>> ELSE <<>>])

-----------------------------------------------------------------------------
(* The host                                                                 *)

Idling == phase = "idle" /\ mode = "none"

Ask(code, context, how) ==
  /\ ir' = code /\ robots' = context /\ mode' = how /\ next' = 1
  /\ observed' = world /\ UNCHANGED <<world, lived, records>>

RunWhole(code, context) ==
  LET lowered == Lower(code, context[1], context[2])
  IN  /\ Ask(code, context, "whole") /\ stage' = "running"
      /\ IF lowered = LoweringError THEN Fail ELSE Submit(lowered, world.joints)

RunBody(body, context) ==
  LET code == Normalize(body, Defined)
  IN  IF code = NormalizeError
      THEN Fail /\ UNCHANGED skillVars
      ELSE RunWhole(code, context)

RunSteps(code, context) ==
  /\ Ask(code, context, "step") /\ stage' = "none"
  /\ UNCHANGED vars

\* What carrying out the instructions of an operation does.
Effect(state, op, instructions, joint, missed) ==
  LET outputs == {i \in DOMAIN instructions : instructions[i].kind = "SetOutput"}
      grip == IF outputs = {} THEN state.grip
              ELSE IF instructions[Max(outputs)].amount = 1 THEN "closed" ELSE "open"
  IN  [grip |-> grip, joints |-> joint,
       held |-> CASE grip = "open" -> NoObject
                  [] grip = "closed" /\ outputs # {} /\ ~missed -> op.origin
                  [] OTHER -> state.held]

Of(origin) == SelectSeq(program, LAMBDA instruction : instruction.origin = origin)
JointsAfter(origin) ==
  ArmAfter(Cardinality({j \in DOMAIN segments : segments[j].origin <= origin}))

\* Plan carried out: each operation from the world the one before left.
CarryOut(missed) ==
  /\ mode = "whole" /\ stage = "running" /\ phase = "planned" /\ entry = "program"
  /\ LET after[i \in 0 .. Len(ir)] ==
           IF i = 0 THEN world
           ELSE Effect(after[i - 1], ir[i], Of(i), JointsAfter(i), i \in missed)
     IN  /\ world' = after[Len(ir)]
         /\ lived' = [i \in DOMAIN ir |->
                        [origin |-> i, plan |-> "carried",
                         before |-> after[i - 1], after |-> after[i]]]
  /\ stage' = "ran"
  /\ UNCHANGED <<vars, ir, robots, mode, next, observed, records>>

Judge ==
  /\ mode = "whole" /\ stage = "ran"
  /\ records' = ExecuteProgram(observed, world)
  /\ stage' = "judged"
  /\ UNCHANGED <<vars, ir, robots, mode, next, world, observed, lived>>

PrepareSkill ==
  /\ mode = "step" /\ stage = "none" /\ phase = "idle" /\ next <= Len(ir)
  /\ observed' = world
  /\ IF Ready(ir[next], world)
     THEN /\ Submit(LoweredAlone(ir[next]), world.joints)
          /\ stage' = "running" /\ UNCHANGED <<next, records>>
          /\ UNCHANGED lived
     ELSE /\ records' = Append(records, EarlyRecord(ir[next], world))
          /\ lived' = Append(lived, [origin |-> next, plan |-> "none",
                                     before |-> world, after |-> world])
          /\ next' = next + 1 /\ UNCHANGED <<vars, stage>>
  /\ UNCHANGED <<ir, robots, mode, world>>

\* A program that could not be planned is not carried out.
CarryOutSkill(missed) ==
  /\ mode = "step" /\ stage = "running" /\ phase \in {"planned", "failed"}
  /\ entry = "program"
  /\ world' = IF phase = "failed" THEN world
              ELSE Effect(world, ir[next], program, joints, missed)
  /\ lived' = Append(lived,
       [origin |-> next, plan |-> IF phase = "failed" THEN "failed" ELSE "carried",
        before |-> world, after |-> world'])
  /\ stage' = "ran"
  /\ UNCHANGED <<vars, ir, robots, mode, next, observed, records>>

RecordSkill(record) ==
  /\ mode = "step" /\ stage = "ran"
  /\ records' = Append(records, record)
  /\ next' = next + 1 /\ stage' = "none"
  /\ Release
  /\ UNCHANGED <<ir, robots, mode, world, observed, lived>>

\* As execute_skill_op has it, whether the plan failed or not.
JudgeSkill == RecordSkill(EvaluatePostconditions(ir[next], world))

\* The host writes the record of a failed plan itself.
ReportFailure ==
  /\ stage = "ran" /\ lived[next].plan = "failed"
  /\ RecordSkill(Record(ir[next], "success", "failure", "none"))

-----------------------------------------------------------------------------

SkillInit ==
  /\ Init
  /\ ir = <<>> /\ robots \in Contexts /\ mode = "none" /\ stage = "none" /\ next = 1
  /\ world = [grip |-> "open", held |-> NoObject, joints |-> start]
  /\ observed = world /\ lived = <<>> /\ records = <<>>

\* The planner goes on with the host's request, or serves others.
Planning ==
  /\ UNCHANGED skillVars
  /\ \/ mode = "none" /\ Next
     \/ mode # "none" /\ stage = "running" /\ Step

Requests ==
  /\ Idling
  /\ \E c \in Contexts :
       \/ \E code \in Irs : RunWhole(code, c)
       \/ \E body \in Bodies : RunBody(body, c)
       \/ \E code \in SkillPrograms : RunSteps(code, c)

SkillNext ==
  \/ Requests
  \/ \E missed \in SUBSET DOMAIN ir : CarryOut(missed)
  \/ \E missed \in BOOLEAN : CarryOutSkill(missed)
  \/ Judge \/ PrepareSkill \/ JudgeSkill \/ ReportFailure
  \/ Planning

SkillSpec == SkillInit /\ [][SkillNext]_allVars
-----------------------------------------------------------------------------
(* Properties                                                               *)

Planned == mode = "whole" /\ stage = "running" /\ phase = "planned"

\* The skill that is lowered is that of the context's robot, if it has one.
CarriedSkill(op) ==
  GetForRobot(IF CtxRobot = NoRobot THEN IrRobot ELSE CtxRobot, op.skill)

\* Where an operation that handles an object closes or opens the gripper.
IsHandling(op) ==
  \/ op.kind \in {"Pick", "Place"}
  \/ /\ op.kind = "Skill" /\ op.skill \in {"pick", "place"}
     /\ CarriedSkill(op).implementation # "program"

HandlingPlace(op) ==
  LET object == IF op.kind = "Skill" THEN Argument(op, 1, DefaultObject) ELSE op.object
      destination == IF op.kind = "Skill" THEN Argument(op, 2, DefaultLocation)
                                          ELSE op.destination
  IN  IF op.kind = "Pick" \/ (op.kind = "Skill" /\ op.skill = "pick")
      THEN Grasps[object].grasp.place ELSE Placements[<<object, destination>>].drop.place

OutputsOf(i) == {k \in DOMAIN temporal : temporal[k].origin = i /\ temporal[k].kind = "SetOutput"}

\* From the semantic program down to the plan: at the moment the gripper of a
\* pick (place) closes (opens), less the delays before, the plan has the arm at
\* the grasp (drop) of its object, and every such operation has one such moment.
GripsWhereItShould ==
  Planned =>
    \A i \in DOMAIN ir : IsHandling(ir[i]) =>
      /\ Cardinality(OutputsOf(i)) = 1
      /\ \A k \in OutputsOf(i) :
           LET now == ExpectedAt(temporal[k].at - Delays(temporal)[k - 1])
           IN  now # 0 /\ Place[waypoints[now].joints] = HandlingPlace(ir[i])

\* Lowering has failed: there is nothing to plan.
Refused == phase = "failed" /\ program = <<>>

NoSkills == \A i \in DOMAIN ir : ir[i].kind # "Skill"

\* A program without skills that validation passes is never refused by lowering,
\* and nothing is let go of before it was picked.
ValidatedMeansSafe ==
  mode = "whole" /\ (Planned \/ Refused) /\ NoSkills /\ Validate(ir) = {} =>
    /\ ~Refused
    /\ \A i \in DOMAIN ir : ir[i].kind = "Place" =>
         \E j \in DOMAIN ir :
           /\ ir[j].kind = "Pick" /\ ir[j].object = ir[i].object
           /\ \E h \in OutputsOf(j), k \in OutputsOf(i) : h < k

\* A fragment that leaves no trace.
Silent(op) ==
  /\ op.kind = "Skill" /\ CarriedSkill(op).implementation = "program"
  /\ \A i \in DOMAIN CarriedSkill(op).fragment :
       CarriedSkill(op).fragment[i].kind \in {"WaitSignal", "Skill"}

\* Every operation can be told in the plan and in the events, by its origin and
\* nothing else, and in the order of the program.
OriginsKept ==
  Planned =>
    /\ {planned[j].source.origin : j \in DOMAIN planned} \cup
       {temporal[k].origin : k \in DOMAIN temporal}
         = {i \in DOMAIN ir : ~Silent(ir[i])}
    /\ \A i, j \in DOMAIN planned :
         i < j => planned[i].source.origin <= planned[j].source.origin
    /\ \A i, j \in DOMAIN temporal : i < j => temporal[i].origin <= temporal[j].origin

\* The verdicts on a skill are those of its contract (the one its program's robot
\* has for it) in the worlds it began and ended in: of every skill when they are
\* run one by one; when a program is judged as a whole, of its first operation
\* before and of its last after.  Run one by one, a skill whose plan was carried
\* out is on record as a success with a verdict, and one that had no plan as no
\* success and without, and changed nothing.  Every skill has one record.
\* Nothing is said of the record of a skill whose plan failed, nor of the other
\* verdicts of a whole program: of both see DeviationsAreReal.
RecordsTellTheTruth ==
  /\ \A k \in DOMAIN records :
       LET r == records[k]
           op == ir[r.origin]
           life == lived[r.origin]
       IN  /\ Contract(op) # NoSkill =>
                /\ mode = "step" \/ r.origin = 1 =>
                     r.pre = Evaluate(Contract(op).pre, life.before)
                /\ (mode = "step" \/ r.origin = Len(ir)) /\ r.post # "none" =>
                     r.post = Evaluate(Contract(op).post, life.after)
           /\ mode = "step" /\ life.plan = "carried" =>
                r.outcome = "success" /\ r.post # "none"
           /\ mode = "step" /\ life.plan = "none" =>
                r.outcome # "success" /\ r.post = "none" /\ life.before = life.after
  /\ stage = "judged" \/ (mode = "step" /\ stage = "none" /\ next > Len(ir)) =>
       /\ {records[k].origin : k \in DOMAIN records} =
            {i \in DOMAIN ir : ir[i].kind = "Skill"}
       /\ \A k, l \in DOMAIN records : k < l => records[k].origin < records[l].origin

-----------------------------------------------------------------------------
(* What the code says and does not do                                       *)

\* execution.rs:43-51, is_semantic_deviation.
IsSemanticDeviation(r) ==
  r.pre = "success" /\ r.outcome = "success" /\ r.post = "violated"

\* execution.rs:43: a semantic deviation is a skill that was carried out cleanly
\* and did not leave the world its postconditions ask for (a part was dropped).
\* One that had no plan is a failure and no deviation (execution.rs:38), nor is one
\* that left what it should and whose world a later skill has changed.
DeviationsAreReal ==
  \A k \in DOMAIN records :
    LET r == records[k]
        life == lived[r.origin]
    IN  IsSemanticDeviation(r) =>
          /\ life.plan = "carried"
          /\ Evaluate(Contract(ir[r.origin]).post, life.after) = "violated"
=============================================================================
