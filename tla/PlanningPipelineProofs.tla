----------------------- MODULE PlanningPipelineProofs -----------------------
(***************************************************************************)
(* A program goes through three passes, and only the order of its          *)
(* instructions ties their results together.  The invariant says what each *)
(* pass has made of the instructions before its place: Split of the        *)
(* resolver, Chain of the compiler, Placed of the scheduler.               *)
(***************************************************************************)
EXTENDS PlanningPipeline, SequenceTheorems, FiniteSetTheorems, TLAPS

OfProgram == entry \in {"program", "suffix"}

\* Instructions the resolver has been through.
Upto == IF phase = "resolve" THEN pc - 1 ELSE Len(program)

\* What a motion becomes.
Made(segment, instruction) ==
  /\ instruction \in Instruction /\ IsMotion(instruction)
  /\ segment.speed = instruction.speed /\ segment.origin = instruction.origin
  /\ instruction.kind = "MoveJ" =>
       segment \in JointSegment /\ Place[segment.target] = instruction.target.place
  /\ instruction.kind = "MoveL" =>
       segment \in LineSegment /\ segment.target = instruction.target

Increasing(list) == \A i, j \in DOMAIN list : i < j => list[i] < list[j]

\* list names the instructions before the resolver's place that satisfy P.
Names(list, count) ==
  /\ Len(list) = count
  /\ \A j \in DOMAIN list : list[j] \in 1 .. Upto
  /\ Increasing(list)

SegmentsMade == \A j \in DOMAIN segmentOf : Made(segments[j], program[segmentOf[j]])

EventsMade ==
  \A j \in DOMAIN eventOf :
    ~IsMotion(program[eventOf[j]]) /\ events[j] = LogicalEvent(eventOf[j])

NothingLost ==
  \A i \in 1 .. Upto : IF IsMotion(program[i])
                        THEN \E j \in DOMAIN segmentOf : segmentOf[j] = i
                        ELSE \E j \in DOMAIN eventOf : eventOf[j] = i

Split ==
  /\ phase = "expand" => ~OfProgram
  /\ OfProgram /\ phase \in {"resolve", "compile", "schedule", "planned"} =>
       /\ phase = "resolve" => pc <= Len(program) + 1
       /\ Names(segmentOf, Len(segments)) /\ Names(eventOf, Len(events))
       /\ SegmentsMade /\ EventsMade /\ NothingLost

\* Configuration the compiler has before its segment j.
JointsAt(j) ==
  IF j = 1 THEN start ELSE LastJoints(planned[j - 1].trajectory, handed[j - 1])

\* Each segment planned from where the one before it ended.
Linked ==
  /\ Len(handed) = Len(planned) /\ Len(planned) <= Len(segments)
  /\ \A j \in DOMAIN planned :
       /\ planned[j].source = segments[j]
       /\ planned[j].trajectory = PlanSegment(segments[j], handed[j])
       /\ planned[j].trajectory \notin Errors
       /\ planned[j].from <= planned[j].to
       /\ handed[j] = JointsAt(j)
  /\ joints = JointsAt(Len(planned) + 1)

Chain ==
  /\ phase \in {"idle", "expand", "resolve"} =>
       planned = <<>> /\ handed = <<>> /\ joints = start
  /\ phase \in {"compile", "schedule", "planned"} => Linked
  /\ phase \in {"schedule", "planned"} => Len(planned) = Len(segments)

\* list's first taken entries are the ones before the scheduler's place.
Taken(list, taken) ==
  /\ taken <= Len(list)
  /\ \A j \in DOMAIN list : j <= taken <=> list[j] < pc

Placed ==
  /\ phase \in {"idle", "expand", "resolve", "compile"} =>
       segmentIdx = 0 /\ eventIdx = 0 /\ cursor = 0 /\ temporal = <<>>
  /\ phase = "schedule" => OfProgram
  /\ CarriedOut =>
       /\ pc <= Len(program) + 1
       /\ Taken(segmentOf, segmentIdx) /\ Taken(eventOf, eventIdx)
       /\ InOrder(temporal) /\ \A k \in DOMAIN temporal : temporal[k].at <= cursor

IInv == PipelineTypeOK /\ Split /\ Chain /\ Placed

-----------------------------------------------------------------------------
(* Types                                                                    *)

LEMMA FreshType ==
  ASSUME NEW list \in Seq(Segment \cup EditorSegments), NEW at \in Joints,
         Fresh(list, at)
  PROVE  /\ start' \in Joints /\ pc' \in Nat \ {0}
         /\ segments' \in Seq(Segment \cup EditorSegments) /\ events' \in Seq(Event)
         /\ nodeRanges' \in Seq([first : Nat, last : Nat]) /\ seed' \in Joints
         /\ planned' \in Seq(PlannedSegment) /\ waypoints' \in Seq(Waypoint)
         /\ offset' \in Nat /\ joints' \in Joints
         /\ segmentIdx' \in Nat /\ eventIdx' \in Nat /\ cursor' \in Nat
         /\ temporal' \in Seq(TimedEvent)
         /\ segmentOf' \in Seq(Nat) /\ eventOf' \in Seq(Nat)
         /\ seeds' \in Seq(Joints) /\ handed' \in Seq(Joints)
BY DEF Fresh

\* A motion is one of the first alternative, anything else one of the second.
LEMMA InstructionKinds ==
  ASSUME NEW instruction \in Instruction
  PROVE  /\ instruction.origin \in Origins
         /\ IsMotion(instruction) <=> instruction.kind \in Motions
         /\ IsMotion(instruction) =>
              instruction.target \in Targets /\ instruction.speed \in Speeds
         /\ ~IsMotion(instruction) =>
              instruction.amount \in Nat /\ instruction.kind \in {"Delay", "SetOutput"}
BY DEF Instruction, IsMotion, Motions

LEMMA ExpandType ==
  ASSUME NEW operation \in Operation
  PROVE  Expand(operation) \in Seq(Segment \cup EditorSegments)
<1>1. Nodes(operation) \in Nat
  BY DEF Nodes, Operation
<1>2. [kind |-> "MoveL", origin |-> operation.origin, target |-> operation.target,
       speed |-> NoSpeed] \in Segment \cup EditorSegments
  BY DEF Operation, Segment, LineSegment
<1>. QED
  BY <1>1, <1>2 DEF Expand

LEMMA TrajectoryType ==
  ASSUME PipelineTypeOK, Compiling, Trajectory \notin Errors
  PROVE  /\ segments[Len(planned) + 1] \in Segment \cup EditorSegments
         /\ Trajectory \in Seq(Waypoint)
         /\ Duration(Trajectory) \in Nat
         /\ LastJoints(Trajectory, joints) \in Joints
         /\ Shifted(Trajectory, offset) \in Seq(Waypoint)
<1>1. segments[Len(planned) + 1] \in Segment \cup EditorSegments
  BY DEF PipelineTypeOK, Compiling
<1>2. Trajectory \in Seq(Waypoint)
  BY <1>1, DispatcherAssumption DEF Promised, Trajectory, PipelineTypeOK
<1>3. \A i \in DOMAIN Trajectory : Trajectory[i] \in Waypoint
  BY <1>2
<1>4. Duration(Trajectory) \in Nat /\ LastJoints(Trajectory, joints) \in Joints
  BY <1>2, <1>3 DEF Duration, LastJoints, Waypoint, PipelineTypeOK
<1>5. Shifted(Trajectory, offset) \in Seq(Waypoint)
  <2>1. \A i \in DOMAIN Trajectory :
          [Trajectory[i] EXCEPT !.at = @ + offset] \in Waypoint
    <3>1. offset \in Nat
      BY DEF PipelineTypeOK
    <3>. QED
      BY <1>3, <3>1 DEF Waypoint
  <2>. QED
    BY <1>2, <2>1 DEF Shifted
<1>. QED
  BY <1>1, <1>2, <1>4, <1>5

\* An instruction under the resolver's or the scheduler's eyes.
LEMMA CurrentType ==
  ASSUME PipelineTypeOK, pc <= Len(program)
  PROVE  program[pc] \in Instruction
BY DEF PipelineTypeOK

LEMMA ExpansionType ==
  ASSUME PipelineTypeOK, ExpandOperation \/ Expanded
  PROVE  PipelineTypeOK'
<1>1. CASE ExpandOperation
  <2>0. /\ operations \in Seq(Operation) /\ pc \in Nat \ {0} /\ pc <= Len(operations)
        /\ segments \in Seq(Segment \cup EditorSegments)
        /\ nodeRanges \in Seq([first : Nat, last : Nat])
        /\ segments' = segments \o Expand(operations[pc])
        /\ nodeRanges' = Append(nodeRanges, [first |-> Len(segments), last |-> Len(segments')])
    BY <1>1 DEF ExpandOperation, PipelineTypeOK
  <2>1. operations[pc] \in Operation
    BY <2>0
  <2>2. Expand(operations[pc]) \in Seq(Segment \cup EditorSegments)
    BY <2>1, ExpandType
  <2>3. segments' \in Seq(Segment \cup EditorSegments)
    BY <2>0, <2>2
  <2>4. nodeRanges' \in Seq([first : Nat, last : Nat])
    BY <2>0, <2>3
  <2>. QED
    BY <1>1, <2>3, <2>4 DEF ExpandOperation, PipelineTypeOK, requestVars,
       compilerVars, schedulerVars
<1>2. CASE Expanded
  BY <1>2 DEF Expanded, PipelineTypeOK, requestVars, resolverVars, compilerVars,
     schedulerVars
<1>. QED
  BY <1>1, <1>2

LEMMA PushType ==
  ASSUME PipelineTypeOK, NEW segment \in Segment, PushSegment(segment),
         seed' \in Joints
  PROVE  PipelineTypeOK'
<1>1. segments' \in Seq(Segment \cup EditorSegments)
  BY DEF PushSegment, PipelineTypeOK
<1>2. segmentOf' \in Seq(Nat) /\ seeds' \in Seq(Joints) /\ pc' \in Nat \ {0}
  BY DEF PushSegment, PipelineTypeOK
<1>. QED
  BY <1>1, <1>2 DEF PushSegment, PipelineTypeOK, requestVars, compilerVars,
     schedulerVars

LEMMA FailType ==
  ASSUME PipelineTypeOK, Fail
  PROVE  PipelineTypeOK'
BY DEF Fail, PipelineTypeOK, requestVars, resolverVars, compilerVars, schedulerVars

LEMMA MoveJSegment ==
  ASSUME PipelineTypeOK, ResolveMoveJ
  PROVE  /\ program[pc] \in Instruction /\ program[pc].kind = "MoveJ"
         /\ [kind |-> "MoveJ", origin |-> program[pc].origin, target |-> Goal,
             speed |-> program[pc].speed] \in JointSegment
         /\ Place[Goal] = program[pc].target.place
<1>1. program[pc] \in Instruction /\ program[pc].kind = "MoveJ" /\ Goal \in Joints
  BY CurrentType DEF ResolveMoveJ, Resolving
<1>2. /\ program[pc].origin \in Origins /\ program[pc].target \in Targets
      /\ program[pc].speed \in Speeds
  BY <1>1, InstructionKinds DEF IsMotion, Motions
<1>3. Place[Goal] = program[pc].target.place
  BY <1>1, <1>2, SolverAssumption DEF Goal, PipelineTypeOK
<1>. QED
  BY <1>1, <1>2, <1>3 DEF JointSegment

LEMMA MoveLSegment ==
  ASSUME PipelineTypeOK, ResolveMoveL
  PROVE  /\ program[pc] \in Instruction /\ program[pc].kind = "MoveL"
         /\ [kind |-> IF program[pc].target.facing = AnyFacing
                      THEN "MoveLPosition" ELSE "MoveL",
             origin |-> program[pc].origin, target |-> program[pc].target,
             speed |-> program[pc].speed] \in LineSegment
<1>1. program[pc] \in Instruction /\ program[pc].kind = "MoveL"
  BY CurrentType DEF ResolveMoveL, Resolving
<1>2. /\ program[pc].origin \in Origins /\ program[pc].target \in Targets
      /\ program[pc].speed \in Speeds
  BY <1>1, InstructionKinds DEF IsMotion, Motions
<1>. QED
  BY <1>1, <1>2 DEF LineSegment

LEMMA EventType ==
  ASSUME PipelineTypeOK, ResolveEvent
  PROVE  /\ program[pc] \in Instruction /\ ~IsMotion(program[pc])
         /\ LogicalEvent(pc) \in Event
<1>1. program[pc] \in Instruction /\ program[pc].kind \in {"Delay", "SetOutput"}
  BY CurrentType DEF ResolveEvent, Resolving
<1>2. ~IsMotion(program[pc])
  BY <1>1 DEF IsMotion, Motions
<1>3. program[pc].origin \in Origins /\ program[pc].amount \in Nat
  BY <1>1, <1>2, InstructionKinds
<1>. QED
  BY <1>1, <1>2, <1>3 DEF LogicalEvent, Event

LEMMA ResolvingType ==
  ASSUME PipelineTypeOK,
         ResolveMoveJ \/ ResolveMoveL \/ ResolveEvent \/ ResolveFails \/ Resolved
  PROVE  PipelineTypeOK'
<1>1. CASE ResolveMoveJ
  BY <1>1, MoveJSegment, PushType DEF ResolveMoveJ, Segment
<1>2. CASE ResolveMoveL
  <2>1. seed' \in Joints
    BY <1>2 DEF ResolveMoveL, PipelineTypeOK
  <2>. QED
    BY <1>2, <2>1, MoveLSegment, PushType DEF ResolveMoveL, Segment
<1>3. CASE ResolveEvent
  <2>1. events' \in Seq(Event)
    BY <1>3, EventType DEF ResolveEvent, PipelineTypeOK
  <2>2. eventOf' \in Seq(Nat) /\ pc' \in Nat \ {0}
    BY <1>3 DEF ResolveEvent, PipelineTypeOK
  <2>. QED
    BY <1>3, <2>1, <2>2 DEF ResolveEvent, PipelineTypeOK, requestVars,
       compilerVars, schedulerVars
<1>4. CASE ResolveFails
  BY <1>4, FailType DEF ResolveFails
<1>5. CASE Resolved
  BY <1>5 DEF Resolved, PipelineTypeOK, requestVars, resolverVars, compilerVars,
     schedulerVars
<1>. QED
  BY <1>1, <1>2, <1>3, <1>4, <1>5

LEMMA CompilingType ==
  ASSUME PipelineTypeOK, CompileSegment \/ CompileFails \/ Compiled
  PROVE  PipelineTypeOK'
<1>1. CASE CompileSegment
  <2>. DEFINE compiled ==
         [source |-> segments[Len(planned) + 1], trajectory |-> Trajectory,
          first |-> Len(waypoints), last |-> Len(waypoints'),
          from |-> offset, to |-> offset']
  <2>1. /\ segments[Len(planned) + 1] \in Segment \cup EditorSegments
        /\ Trajectory \in Seq(Waypoint) /\ Duration(Trajectory) \in Nat
        /\ LastJoints(Trajectory, joints) \in Joints
        /\ Shifted(Trajectory, offset) \in Seq(Waypoint)
    BY <1>1, TrajectoryType DEF CompileSegment
  <2>2. waypoints' \in Seq(Waypoint)
    BY <1>1, <2>1 DEF CompileSegment, PipelineTypeOK
  <2>3. offset' \in Nat /\ offset \in Nat /\ joints' \in Joints
    <3>1. offset \in Nat
      BY DEF PipelineTypeOK
    <3>2. /\ offset' = offset + Duration(Trajectory)
          /\ joints' = LastJoints(Trajectory, joints)
      BY <1>1 DEF CompileSegment
    <3>. QED
      BY <2>1, <3>1, <3>2
  <2>4. Len(waypoints) \in Nat /\ Len(waypoints') \in Nat
    BY <2>2 DEF PipelineTypeOK
  <2>5. compiled \in PlannedSegment
    BY <2>1, <2>3, <2>4 DEF PlannedSegment
  <2>6. planned' \in Seq(PlannedSegment)
    <3>1. planned' = Append(planned, compiled) /\ planned \in Seq(PlannedSegment)
      BY <1>1 DEF CompileSegment, PipelineTypeOK
    <3>. HIDE DEF compiled
    <3>. QED
      BY <3>1, <2>5
  <2>7. handed' \in Seq(Joints)
    BY <1>1 DEF CompileSegment, PipelineTypeOK
  <2>. QED
    BY <1>1, <2>2, <2>3, <2>6, <2>7 DEF CompileSegment, PipelineTypeOK, requestVars,
       resolverVars, schedulerVars
<1>2. CASE CompileFails
  BY <1>2, FailType DEF CompileFails
<1>3. CASE Compiled
  BY <1>3 DEF Compiled, PipelineTypeOK, requestVars, resolverVars, compilerVars,
     schedulerVars
<1>. QED
  BY <1>1, <1>2, <1>3

\* An event is put at the clock's place, and a motion never turns the clock back.
LEMMA SchedulingType ==
  ASSUME IInv, ScheduleMotion \/ ScheduleEvent \/ Scheduled
  PROVE  PipelineTypeOK'
<1>. USE DEF IInv
<1>1. CASE ScheduleMotion
  <2>0. cursor \in Nat /\ segmentIdx \in Nat /\ pc \in Nat \ {0}
    BY DEF PipelineTypeOK
  <2>1. phase = "schedule" /\ pc' = pc + 1
    BY <1>1 DEF ScheduleMotion, Scheduling
  <2>2. cursor' \in Nat /\ segmentIdx' \in Nat
    <3>1. CASE segmentIdx < Len(planned)
      <4>1. segmentIdx + 1 \in DOMAIN planned
        BY <3>1 DEF PipelineTypeOK
      <4>2. planned[segmentIdx + 1] \in PlannedSegment
        BY <4>1 DEF PipelineTypeOK
      <4>3. planned[segmentIdx + 1].from <= planned[segmentIdx + 1].to
        BY <2>1, <4>1 DEF Chain, Linked
      <4>. QED
        BY <1>1, <2>0, <3>1, <4>2, <4>3 DEF ScheduleMotion, PlannedSegment
    <3>2. CASE ~(segmentIdx < Len(planned))
      BY <1>1, <2>0, <3>2 DEF ScheduleMotion
    <3>. QED
      BY <3>1, <3>2
  <2>. QED
    BY <1>1, <2>0, <2>1, <2>2 DEF ScheduleMotion, Scheduling, PipelineTypeOK, requestVars,
       resolverVars, compilerVars
<1>2. CASE ScheduleEvent
  <2>0. /\ cursor \in Nat /\ eventIdx \in Nat /\ pc \in Nat \ {0}
        /\ temporal \in Seq(TimedEvent)
    BY DEF PipelineTypeOK
  <2>1. /\ cursor' \in Nat /\ eventIdx' \in Nat /\ pc' \in Nat \ {0}
        /\ temporal' \in Seq(TimedEvent)
    <3>1. CASE eventIdx < Len(events)
      <4>1. events[eventIdx + 1] \in Event
        BY <3>1 DEF PipelineTypeOK
      <4>2. Stamped(events[eventIdx + 1]) \in TimedEvent
        BY <2>0, <4>1 DEF Stamped, Event, TimedEvent
      <4>3. temporal' \in Seq(TimedEvent)
        BY <1>2, <2>0, <3>1, <4>2 DEF ScheduleEvent
      <4>4. events[eventIdx + 1].amount \in Nat
        BY <4>1 DEF Event
      <4>. QED
        BY <1>2, <2>0, <3>1, <4>3, <4>4 DEF ScheduleEvent, Scheduling
    <3>2. CASE ~(eventIdx < Len(events))
      BY <1>2, <2>0, <3>2 DEF ScheduleEvent, Scheduling
    <3>. QED
      BY <3>1, <3>2
  <2>. QED
    BY <1>2, <2>1 DEF ScheduleEvent, Scheduling, PipelineTypeOK, requestVars,
       resolverVars, compilerVars
<1>3. CASE Scheduled
  <2>1. temporal' \in Seq(TimedEvent)
    <3>1. CASE InOrder(temporal)
      BY <1>3, <3>1 DEF Scheduled, SortByTime, PipelineTypeOK
    <3>2. InOrder(temporal)
      BY <1>3 DEF Scheduled, Placed, CarriedOut, OfProgram
    <3>. QED
      BY <3>1, <3>2
  <2>. QED
    BY <1>3, <2>1 DEF Scheduled, PipelineTypeOK, requestVars, resolverVars, compilerVars
<1>. QED
  BY <1>1, <1>2, <1>3

\* A request starts the passes over.
LEMMA FreshRequest ==
  ASSUME NEW list \in Seq(Segment \cup EditorSegments), NEW at \in Joints,
         Fresh(list, at), program' \in Seq(Instruction), operations' \in Seq(Operation),
         phase' \in {"idle", "expand", "resolve", "compile"},
         entry' \in {"program", "suffix", "segments", "operations"},
         phase' = "compile" => entry' = "segments",
         phase' = "expand" => entry' = "operations",
         phase' = "resolve" => list = <<>>
  PROVE  IInv'
<1>1. PipelineTypeOK'
  BY FreshType DEF PipelineTypeOK
<1>2. Split'
  <2>1. CASE phase' = "resolve"
    <3>1. /\ segments' = <<>> /\ events' = <<>> /\ segmentOf' = <<>> /\ eventOf' = <<>>
          /\ pc' = 1
      BY <2>1 DEF Fresh
    <3>2. Names(segmentOf, Len(segments))' /\ Names(eventOf, Len(events))'
      BY <3>1 DEF Names, Increasing
    <3>3. SegmentsMade' /\ EventsMade'
      BY <3>1 DEF SegmentsMade, EventsMade
    <3>4. NothingLost'
      BY <2>1, <3>1 DEF NothingLost, Upto
    <3>. QED
      BY <2>1, <3>1, <3>2, <3>3, <3>4 DEF Split
  <2>2. CASE phase' # "resolve"
    BY <2>2 DEF Split, OfProgram
  <2>. QED
    BY <2>1, <2>2
<1>3. Chain'
  BY DEF Fresh, Chain, Linked, JointsAt
<1>4. Placed'
  BY DEF Fresh, Placed, CarriedOut
<1>. QED
  BY <1>1, <1>2, <1>3, <1>4 DEF IInv

LEMMA RequestInv ==
  ASSUME IInv, Submitting
  PROVE  IInv'
<1>1. PICK q \in Starts :
        \/ \E instructions \in Programs : Submit(instructions, q)
        \/ \E list \in SegmentPrograms : SubmitSegments(list, q)
        \/ \E list \in OperationPrograms : SubmitOperations(list, q)
  BY DEF Submitting
<1>2. q \in Joints
  BY RequestAssumption
<1>3. ASSUME NEW instructions \in Programs, Submit(instructions, q)
      PROVE  IInv'
  <2>1. /\ Fresh(<<>>, q) /\ phase' = "resolve" /\ entry' = "program"
        /\ program' = instructions /\ operations' = <<>>
    BY <1>3 DEF Submit
  <2>2. program' \in Seq(Instruction)
    BY <2>1, RequestAssumption
  <2>3. <<>> \in Seq(Segment \cup EditorSegments) /\ operations' \in Seq(Operation)
    BY <2>1
  <2>. QED
    BY <1>2, <2>1, <2>2, <2>3, FreshRequest
<1>4. ASSUME NEW list \in SegmentPrograms, SubmitSegments(list, q)
      PROVE  IInv'
  <2>1. /\ Fresh(list, q) /\ phase' = "compile" /\ entry' = "segments"
        /\ program' = <<>> /\ operations' = <<>>
    BY <1>4 DEF SubmitSegments
  <2>2. list \in Seq(Segment \cup EditorSegments)
    BY RequestAssumption
  <2>3. program' \in Seq(Instruction) /\ operations' \in Seq(Operation)
    BY <2>1
  <2>. QED
    BY <1>2, <2>1, <2>2, <2>3, FreshRequest
<1>5. ASSUME NEW list \in OperationPrograms, SubmitOperations(list, q)
      PROVE  IInv'
  <2>1. /\ Fresh(<<>>, q) /\ phase' = "expand" /\ entry' = "operations"
        /\ program' = <<>> /\ operations' = list
    BY <1>5 DEF SubmitOperations
  <2>2. operations' \in Seq(Operation)
    BY <2>1, RequestAssumption
  <2>3. <<>> \in Seq(Segment \cup EditorSegments) /\ program' \in Seq(Instruction)
    BY <2>1
  <2>. QED
    BY <1>2, <2>1, <2>2, <2>3, FreshRequest
<1>. QED
  BY <1>1, <1>3, <1>4, <1>5

\* The motions of a plan are those of its program.
LEMMA SemanticType ==
  ASSUME IInv, phase = "planned", OfProgram, NEW first \in 1 .. Len(SemanticTargets)
  PROVE  SubSeq(SemanticTargets, first, Len(SemanticTargets)) \in Seq(Instruction)
<1>1. segmentOf \in Seq(Nat) /\ program \in Seq(Instruction)
  BY DEF IInv, PipelineTypeOK
<1>2. \A j \in DOMAIN segmentOf : program[segmentOf[j]] \in Instruction
  BY DEF IInv, Split, SegmentsMade, Made
<1>3. SemanticTargets \in Seq(Instruction)
  BY <1>1, <1>2 DEF SemanticTargets
<1>. QED
  BY <1>3

LEMMA FailInv ==
  ASSUME IInv, Fail
  PROVE  IInv'
<1>1. PipelineTypeOK'
  BY FailType DEF IInv
<1>. QED
  BY <1>1 DEF IInv, Fail, Split, Chain, Placed, CarriedOut

LEMMA ReplanInv ==
  ASSUME IInv, NEW first \in Nat, NEW q \in Starts, NEW toolOffset \in BOOLEAN,
         Replan(first, q, toolOffset)
  PROVE  IInv'
<1>1. CASE toolOffset
  BY <1>1, FailInv DEF Replan
<1>2. CASE ~toolOffset
  <2>1. phase = "planned" /\ OfProgram /\ first \in 1 .. Len(SemanticTargets)
    BY DEF Replan, OfProgram
  <2>2. /\ phase' = "resolve" /\ entry' = "suffix" /\ operations' = <<>>
        /\ program' = SubSeq(SemanticTargets, first, Len(SemanticTargets))
        /\ Fresh(<<>>, q)
    BY <1>2 DEF Replan
  <2>3. program' \in Seq(Instruction)
    BY <2>1, <2>2, SemanticType
  <2>4. q \in Joints
    BY RequestAssumption
  <2>5. <<>> \in Seq(Segment \cup EditorSegments) /\ operations' \in Seq(Operation)
    BY <2>2
  <2>. QED
    BY <2>2, <2>3, <2>4, <2>5, FreshRequest
<1>. QED
  BY <1>1, <1>2

LEMMA ReleaseInv ==
  ASSUME IInv, Release
  PROVE  IInv'
<1>1. start \in Joints
  BY DEF IInv, PipelineTypeOK
<1>2. /\ phase' = "idle" /\ entry' = "program" /\ operations' = <<>>
      /\ program' = <<>> /\ Fresh(<<>>, start)
  BY DEF Release
<1>3. /\ <<>> \in Seq(Segment \cup EditorSegments)
      /\ program' \in Seq(Instruction) /\ operations' \in Seq(Operation)
  BY <1>2
<1>. QED
  BY <1>1, <1>2, <1>3, FreshRequest

LEMMA InitInv == Init => IInv
<1>. SUFFICES ASSUME Init PROVE IInv
  OBVIOUS
<1>1. start \in Joints
  BY RequestAssumption DEF Init
<1>2. PipelineTypeOK
  BY <1>1 DEF Init, PipelineTypeOK
<1>3. Split
  BY DEF Init, Split
<1>4. Chain /\ Placed
  BY DEF Init, Chain, Placed, CarriedOut
<1>. QED
  BY <1>2, <1>3, <1>4 DEF IInv

-----------------------------------------------------------------------------
(* The resolver                                                             *)

\* One more instruction at the end of the list of those of its sort.
LEMMA NamesNext ==
  ASSUME NEW list \in Seq(Nat), NEW count \in Nat, NEW place \in Nat \ {0},
         Len(list) = count,
         \A j \in DOMAIN list : list[j] \in 1 .. place - 1, Increasing(list)
  PROVE  /\ Len(Append(list, place)) = count + 1
         /\ \A j \in DOMAIN Append(list, place) : Append(list, place)[j] \in 1 .. place
         /\ Increasing(Append(list, place))
<1>1. DOMAIN Append(list, place) = 1 .. count + 1 /\ DOMAIN list = 1 .. count
  OBVIOUS
<1>2. \A j \in 1 .. count : Append(list, place)[j] = list[j] /\ list[j] < place
  OBVIOUS
<1>3. Append(list, place)[count + 1] = place
  OBVIOUS
<1>. QED
  BY <1>1, <1>2, <1>3 DEF Increasing

LEMMA PushSplit ==
  ASSUME IInv, phase = "resolve", OfProgram, pc <= Len(program),
         NEW segment \in Segment, PushSegment(segment), Made(segment, program[pc])
  PROVE  Split'
<1>. DEFINE n == Len(segments)
<1>1. /\ pc \in Nat \ {0} /\ segmentOf \in Seq(Nat) /\ program \in Seq(Instruction)
      /\ segments \in Seq(Segment \cup EditorSegments) /\ n \in Nat
  BY DEF IInv, PipelineTypeOK
<1>2. /\ segments' = Append(segments, segment) /\ segmentOf' = Append(segmentOf, pc)
      /\ pc' = pc + 1 /\ phase' = "resolve" /\ program' = program /\ entry' = entry
      /\ events' = events /\ eventOf' = eventOf
  BY DEF PushSegment, requestVars
<1>3. /\ Len(segmentOf) = n /\ Increasing(segmentOf)
      /\ \A j \in DOMAIN segmentOf : segmentOf[j] \in 1 .. pc - 1
  BY DEF IInv, Split, Names, Upto
<1>4. Upto = pc - 1 /\ Upto' = pc
  BY <1>1, <1>2 DEF Upto
<1>5. Len(segments') = n + 1
  BY <1>1, <1>2
<1>6. Names(segmentOf, Len(segments))'
  <2>1. /\ Len(segmentOf') = n + 1
        /\ \A j \in DOMAIN segmentOf' : segmentOf'[j] \in 1 .. pc
        /\ Increasing(segmentOf')
    <3>. HIDE DEF n
    <3>. QED
      BY <1>1, <1>2, <1>3, NamesNext
  <2>. QED
    BY <1>4, <1>5, <2>1 DEF Names, Increasing
<1>7. Names(eventOf, Len(events))'
  BY <1>1, <1>2, <1>4 DEF IInv, Split, Names, Increasing
<1>8. \A j \in DOMAIN segmentOf' : Made(segments'[j], program[segmentOf'[j]])
  <2>1. \A j \in 1 .. n : segments'[j] = segments[j] /\ segmentOf'[j] = segmentOf[j]
    BY <1>1, <1>2, <1>3
  <2>2. \A j \in 1 .. n : Made(segments[j], program[segmentOf[j]])
    <3>1. SegmentsMade
      BY DEF IInv, Split
    <3>2. DOMAIN segmentOf = 1 .. n
      BY <1>1, <1>3
    <3>. QED
      BY <3>1, <3>2 DEF SegmentsMade
  <2>3. segments'[n + 1] = segment /\ segmentOf'[n + 1] = pc
    BY <1>1, <1>2, <1>3
  <2>4. DOMAIN segmentOf' = 1 .. n + 1
    BY <1>1, <1>2, <1>3
  <2>. HIDE DEF n
  <2>5. ASSUME NEW j \in DOMAIN segmentOf'
        PROVE  Made(segments'[j], program[segmentOf'[j]])
    <3>1. j \in 1 .. n \/ j = n + 1
      BY <1>1, <2>4
    <3>2. CASE j \in 1 .. n
      BY <2>1, <2>2, <3>2
    <3>3. CASE j = n + 1
      BY <2>3, <3>3
    <3>. QED
      BY <3>1, <3>2, <3>3
  <2>. QED
    BY <2>5
<1>9. \A j \in DOMAIN eventOf :
        ~IsMotion(program[eventOf[j]]) /\ events[j] = LogicalEvent(eventOf[j])
  BY DEF IInv, Split, EventsMade
<1>10. \A i \in 1 .. pc : IF IsMotion(program[i])
                           THEN \E j \in DOMAIN segmentOf' : segmentOf'[j] = i
                           ELSE \E j \in DOMAIN eventOf : eventOf[j] = i
  <2>1. \A i \in 1 .. pc - 1 : IF IsMotion(program[i])
                               THEN \E j \in DOMAIN segmentOf : segmentOf[j] = i
                               ELSE \E j \in DOMAIN eventOf : eventOf[j] = i
    BY <1>4 DEF IInv, Split, NothingLost
  <2>2. \A j \in DOMAIN segmentOf : j \in DOMAIN segmentOf' /\ segmentOf'[j] = segmentOf[j]
    <3>1. segmentOf \in Seq(Nat) /\ pc \in Nat /\ segmentOf' = Append(segmentOf, pc)
      BY <1>1, <1>2
    <3>. QED
      BY <3>1
  <2>3. n + 1 \in DOMAIN segmentOf' /\ segmentOf'[n + 1] = pc
    BY <1>1, <1>2, <1>3
  <2>4. IsMotion(program[pc])
    BY DEF Made
  <2>. HIDE DEF n
  <2>5. \A i \in 1 .. pc : i \in 1 .. pc - 1 \/ i = pc
    BY <1>1
  <2>6. \A i \in 1 .. pc - 1 : IF IsMotion(program[i])
                               THEN \E j \in DOMAIN segmentOf' : segmentOf'[j] = i
                               ELSE \E j \in DOMAIN eventOf : eventOf[j] = i
    BY <2>1, <2>2
  <2>. QED
    BY <2>3, <2>4, <2>5, <2>6
<1>11. SegmentsMade'
  BY <1>2, <1>8 DEF SegmentsMade, Made, IsMotion
<1>12. EventsMade'
  BY <1>2, <1>9 DEF EventsMade, LogicalEvent, IsMotion
<1>13. NothingLost'
  BY <1>2, <1>4, <1>10 DEF NothingLost, IsMotion
<1>. QED
  BY <1>1, <1>2, <1>6, <1>7, <1>11, <1>12, <1>13 DEF Split

LEMMA EventSplit ==
  ASSUME IInv, OfProgram, ResolveEvent
  PROVE  Split'
<1>. DEFINE n == Len(events)
<1>1. /\ pc \in Nat \ {0} /\ eventOf \in Seq(Nat) /\ program \in Seq(Instruction)
      /\ events \in Seq(Event) /\ n \in Nat
  BY DEF IInv, PipelineTypeOK
<1>2. /\ events' = Append(events, LogicalEvent(pc)) /\ eventOf' = Append(eventOf, pc)
      /\ pc' = pc + 1 /\ phase' = "resolve" /\ program' = program /\ entry' = entry
      /\ segments' = segments /\ segmentOf' = segmentOf
      /\ phase = "resolve" /\ pc <= Len(program)
  BY DEF ResolveEvent, Resolving, requestVars
<1>3. /\ Len(eventOf) = n /\ Increasing(eventOf)
      /\ \A j \in DOMAIN eventOf : eventOf[j] \in 1 .. pc - 1
  BY <1>2 DEF IInv, Split, Names, Upto
<1>4. Upto = pc - 1 /\ Upto' = pc
  BY <1>1, <1>2 DEF Upto
<1>5. Len(events') = n + 1
  BY <1>1, <1>2
<1>6. Names(eventOf, Len(events))'
  <2>1. /\ Len(eventOf') = n + 1
        /\ \A j \in DOMAIN eventOf' : eventOf'[j] \in 1 .. pc
        /\ Increasing(eventOf')
    <3>. HIDE DEF n
    <3>. QED
      BY <1>1, <1>2, <1>3, NamesNext
  <2>. QED
    BY <1>4, <1>5, <2>1 DEF Names, Increasing
<1>7. Names(segmentOf, Len(segments))'
  BY <1>1, <1>2, <1>4 DEF IInv, Split, Names, Increasing
<1>8. ~IsMotion(program[pc])
  BY EventType DEF IInv
<1>9. EventsMade'
  <2>0. \A j \in 1 .. n : eventOf'[j] = eventOf[j] /\ events'[j] = events[j]
    BY <1>1, <1>2, <1>3
  <2>1. \A j \in 1 .. n : /\ ~IsMotion(program[eventOf[j]])
                          /\ events[j] = LogicalEvent(eventOf[j])
    <3>1. EventsMade /\ DOMAIN eventOf = 1 .. n
      BY <1>1, <1>2, <1>3 DEF IInv, Split
    <3>. HIDE DEF n
    <3>. QED
      BY <3>1 DEF EventsMade
  <2>2. events'[n + 1] = LogicalEvent(pc) /\ eventOf'[n + 1] = pc
    BY <1>1, <1>2, <1>3
  <2>3. DOMAIN eventOf' = 1 .. n + 1
    BY <1>1, <1>2, <1>3
  <2>. HIDE DEF n
  <2>4. ASSUME NEW j \in DOMAIN eventOf'
        PROVE  ~IsMotion(program[eventOf'[j]]) /\ events'[j] = LogicalEvent(eventOf'[j])
    <3>1. j \in 1 .. n \/ j = n + 1
      BY <1>1, <2>3
    <3>. QED
      BY <1>8, <2>0, <2>1, <2>2, <3>1
  <2>. QED
    BY <1>2, <2>4 DEF EventsMade, LogicalEvent, IsMotion
<1>10. NothingLost'
  <2>1. NothingLost
    BY <1>2 DEF IInv, Split
  <2>2. \A j \in DOMAIN eventOf : j \in DOMAIN eventOf' /\ eventOf'[j] = eventOf[j]
    BY <1>1, <1>2, <1>3
  <2>3. n + 1 \in DOMAIN eventOf' /\ eventOf'[n + 1] = pc
    BY <1>1, <1>2, <1>3
  <2>. HIDE DEF n
  <2>4. \A i \in 1 .. pc : IF IsMotion(program[i])
                           THEN \E j \in DOMAIN segmentOf : segmentOf[j] = i
                           ELSE \E j \in DOMAIN eventOf' : eventOf'[j] = i
    BY <1>1, <1>4, <1>8, <2>1, <2>2, <2>3 DEF NothingLost
  <2>. QED
    BY <1>2, <1>4, <2>4 DEF NothingLost, IsMotion
<1>11. SegmentsMade'
  BY <1>2 DEF IInv, Split, SegmentsMade, Made, IsMotion
<1>. QED
  BY <1>1, <1>2, <1>6, <1>7, <1>9, <1>10, <1>11 DEF Split

\* Once the resolver is through, its streams are left alone.
LEMMA SplitKept ==
  ASSUME IInv, phase' # "expand", Upto' = Upto,
         OfProgram' => OfProgram, phase' # "resolve",
         phase' \in {"resolve", "compile", "schedule", "planned"} =>
           phase \in {"resolve", "compile", "schedule", "planned"},
         UNCHANGED <<program, segments, events, segmentOf, eventOf>>
  PROVE  Split'
<1>. SUFFICES ASSUME OfProgram, phase \in {"resolve", "compile", "schedule", "planned"}
              PROVE  Split'
  BY DEF Split
<1>1. /\ Names(segmentOf, Len(segments)) /\ Names(eventOf, Len(events))
      /\ SegmentsMade /\ EventsMade /\ NothingLost
  BY DEF IInv, Split
<1>2. Names(segmentOf, Len(segments))' /\ Names(eventOf, Len(events))'
  BY <1>1 DEF Names, Increasing
<1>3. SegmentsMade' /\ EventsMade'
  BY <1>1 DEF SegmentsMade, EventsMade, Made, IsMotion, LogicalEvent
<1>4. NothingLost'
  BY <1>1 DEF NothingLost, IsMotion
<1>. QED
  BY <1>2, <1>3, <1>4 DEF Split

LEMMA StepSplit ==
  ASSUME IInv, Step
  PROVE  Split'
<1>1. CASE ExpandOperation
  BY <1>1 DEF ExpandOperation, IInv, Split, OfProgram, requestVars
<1>2. CASE Expanded
  BY <1>2 DEF Expanded, IInv, Split, OfProgram, requestVars
<1>3. CASE ResolveMoveJ
  <2>1. CASE OfProgram
    <3>. DEFINE made == [kind |-> "MoveJ", origin |-> program[pc].origin,
                         target |-> Goal, speed |-> program[pc].speed]
    <3>1. /\ program[pc] \in Instruction /\ program[pc].kind = "MoveJ"
          /\ made \in JointSegment /\ Place[Goal] = program[pc].target.place
      BY <1>3, MoveJSegment DEF IInv
    <3>2. Made(made, program[pc])
      BY <3>1 DEF Made, IsMotion, Motions
    <3>3. PushSegment(made) /\ phase = "resolve" /\ pc <= Len(program)
      BY <1>3 DEF ResolveMoveJ, Resolving
    <3>. HIDE DEF made
    <3>. QED
      BY <2>1, <3>1, <3>2, <3>3, PushSplit DEF Segment
  <2>2. CASE ~OfProgram
    BY <1>3, <2>2 DEF ResolveMoveJ, Resolving, PushSegment, requestVars, Split, OfProgram
  <2>. QED
    BY <2>1, <2>2
<1>4. CASE ResolveMoveL
  <2>1. CASE OfProgram
    BY <1>4, <2>1, MoveLSegment, PushSplit
       DEF IInv, ResolveMoveL, Resolving, Made, Segment, IsMotion, Motions
  <2>2. CASE ~OfProgram
    BY <1>4, <2>2 DEF ResolveMoveL, Resolving, PushSegment, requestVars, Split, OfProgram
  <2>. QED
    BY <2>1, <2>2
<1>5. CASE ResolveEvent
  <2>1. CASE OfProgram
    BY <1>5, <2>1, EventSplit
  <2>2. CASE ~OfProgram
    BY <1>5, <2>2 DEF ResolveEvent, Resolving, requestVars, Split, OfProgram
  <2>. QED
    BY <2>1, <2>2
<1>6. CASE ResolveFails
  BY <1>6, FailInv DEF ResolveFails, IInv
<1>7. CASE Resolved
  <2>1. CASE OfProgram
    <3>1. pc \in Nat /\ Len(program) \in Nat /\ pc <= Len(program) + 1
      BY <1>7, <2>1 DEF Resolved, IInv, PipelineTypeOK, Split
    <3>2. Upto' = Upto
      BY <1>7, <3>1 DEF Resolved, Upto, requestVars
    <3>. QED
      BY <1>7, <2>1, <3>2, SplitKept DEF Resolved, requestVars, resolverVars, OfProgram
  <2>2. CASE ~OfProgram
    BY <1>7, <2>2 DEF Resolved, requestVars, Split, OfProgram
  <2>. QED
    BY <2>1, <2>2
<1>8. CASE CompileSegment
  BY <1>8, SplitKept DEF CompileSegment, Compiling, requestVars, resolverVars, Upto,
     OfProgram
<1>9. CASE CompileFails
  BY <1>9, FailInv DEF CompileFails, IInv
<1>10. CASE Compiled
  BY <1>10, SplitKept DEF Compiled, requestVars, resolverVars, Upto, OfProgram
<1>11. CASE ScheduleMotion
  BY <1>11, SplitKept DEF ScheduleMotion, Scheduling, requestVars, resolverVars, Upto,
     OfProgram
<1>12. CASE ScheduleEvent
  BY <1>12, SplitKept DEF ScheduleEvent, Scheduling, requestVars, resolverVars, Upto,
     OfProgram
<1>13. CASE Scheduled
  BY <1>13, SplitKept DEF Scheduled, requestVars, resolverVars, Upto, OfProgram
<1>. QED
  BY <1>1, <1>2, <1>3, <1>4, <1>5, <1>6, <1>7, <1>8, <1>9, <1>10, <1>11, <1>12, <1>13
     DEF Step

-----------------------------------------------------------------------------
(* The compiler                                                             *)

LEMMA CompileLinked ==
  ASSUME IInv, CompileSegment
  PROVE  Linked'
<1>. DEFINE n == Len(planned)
            compiled == [source |-> segments[n + 1], trajectory |-> Trajectory,
                         first |-> Len(waypoints), last |-> Len(waypoints'),
                         from |-> offset, to |-> offset']
<1>1. /\ planned \in Seq(PlannedSegment) /\ handed \in Seq(Joints) /\ n \in Nat
      /\ segments \in Seq(Segment \cup EditorSegments) /\ offset \in Nat
  BY DEF IInv, PipelineTypeOK
<1>2. Linked /\ n < Len(segments) /\ Len(handed) = n
  BY DEF CompileSegment, Compiling, IInv, Chain, Linked
<1>3. /\ planned' = Append(planned, compiled) /\ handed' = Append(handed, joints)
      /\ segments' = segments /\ start' = start
      /\ Trajectory \notin Errors
      /\ offset' = offset + Duration(Trajectory)
      /\ joints' = LastJoints(Trajectory, joints)
  BY DEF CompileSegment, resolverVars, requestVars
<1>4. Duration(Trajectory) \in Nat
  BY TrajectoryType DEF CompileSegment, IInv
<1>5. /\ compiled.source = segments[n + 1] /\ compiled.trajectory = Trajectory
      /\ compiled.from <= compiled.to
  BY <1>1, <1>3, <1>4
<1>. HIDE DEF compiled
<1>6. /\ \A j \in 1 .. n : planned'[j] = planned[j] /\ handed'[j] = handed[j]
      /\ planned'[n + 1] = compiled /\ handed'[n + 1] = joints
      /\ DOMAIN planned' = 1 .. n + 1 /\ Len(planned') = n + 1 /\ Len(handed') = n + 1
      /\ DOMAIN planned = 1 .. n
  BY <1>1, <1>2, <1>3
<1>7. \A j \in 1 .. n + 1 : JointsAt(j)' = JointsAt(j)
  <2>. SUFFICES ASSUME NEW j \in 1 .. n + 1
                PROVE  JointsAt(j)' = JointsAt(j)
    OBVIOUS
  <2>1. j = 1 \/ j - 1 \in 1 .. n
    BY <1>1
  <2>. QED
    BY <1>3, <1>6, <2>1 DEF JointsAt
<1>8. \A j \in 1 .. n : /\ planned[j].source = segments[j]
                        /\ planned[j].trajectory = PlanSegment(segments[j], handed[j])
                        /\ planned[j].trajectory \notin Errors
                        /\ planned[j].from <= planned[j].to
                        /\ handed[j] = JointsAt(j)
  BY <1>2, <1>6 DEF Linked
<1>9. joints = JointsAt(n + 1)
  BY <1>2 DEF Linked
<1>10. Trajectory = PlanSegment(segments[n + 1], joints)
  BY DEF Trajectory
<1>11. ASSUME NEW j \in 1 .. n + 1
       PROVE  /\ planned'[j].source = segments[j]
              /\ planned'[j].trajectory = PlanSegment(segments[j], handed'[j])
              /\ planned'[j].trajectory \notin Errors
              /\ planned'[j].from <= planned'[j].to
              /\ handed'[j] = JointsAt(j)'
  <2>1. j \in 1 .. n \/ j = n + 1
    BY <1>1
  <2>2. CASE j \in 1 .. n
    BY <1>6, <1>7, <1>8, <2>2
  <2>3. CASE j = n + 1
    BY <1>3, <1>5, <1>6, <1>7, <1>9, <1>10, <2>3
  <2>. QED
    BY <2>1, <2>2, <2>3
<1>12. ASSUME NEW k \in Nat, k = n + 2
       PROVE  joints' = JointsAt(k)'
  <2>1. k # 1 /\ k - 1 = n + 1
    BY <1>1, <1>12
  <2>2. /\ planned'[k - 1].trajectory = Trajectory /\ handed'[k - 1] = joints
    BY <1>5, <1>6, <2>1
  <2>3. JointsAt(k)' = LastJoints(planned'[k - 1].trajectory, handed'[k - 1])
    BY <2>1 DEF JointsAt, LastJoints
  <2>. QED
    BY <1>3, <2>2, <2>3
<1>13. Len(planned') + 1 = n + 2 /\ n + 2 \in Nat
  BY <1>1, <1>6
<1>14. /\ Len(handed') = Len(planned') /\ Len(planned') <= Len(segments')
       /\ DOMAIN planned' = 1 .. n + 1
  BY <1>1, <1>2, <1>3, <1>6
<1>15. joints' = JointsAt(Len(planned) + 1)'
  BY <1>12, <1>13
<1>. QED
  BY <1>3, <1>11, <1>14, <1>15 DEF Linked

LEMMA LinkedKept ==
  ASSUME Linked, UNCHANGED <<segments, start, planned, handed, joints>>
  PROVE  Linked'
BY DEF Linked, JointsAt

LEMMA StepChain ==
  ASSUME IInv, Step
  PROVE  Chain'
<1>1. CASE ExpandOperation
  BY <1>1 DEF ExpandOperation, IInv, Chain, compilerVars, requestVars
<1>2. CASE Expanded \/ Resolved
  <2>1. /\ planned = <<>> /\ handed = <<>> /\ joints = start /\ phase' = "compile"
        /\ planned' = planned /\ handed' = handed /\ joints' = joints /\ start' = start
        /\ segments' = segments
    BY <1>2 DEF Expanded, Resolved, IInv, Chain, compilerVars, requestVars, resolverVars
  <2>2. Len(segments) \in Nat
    BY DEF IInv, PipelineTypeOK
  <2>. QED
    BY <2>1, <2>2 DEF Chain, Linked, JointsAt
<1>3. CASE ResolveMoveJ \/ ResolveMoveL \/ ResolveEvent
  BY <1>3 DEF ResolveMoveJ, ResolveMoveL, ResolveEvent, Resolving, PushSegment, IInv,
     Chain, compilerVars, requestVars
<1>4. CASE ResolveFails \/ CompileFails
  BY <1>4, FailInv DEF ResolveFails, CompileFails, IInv
<1>5. CASE CompileSegment
  <2>1. phase' = "compile"
    BY <1>5 DEF CompileSegment, Compiling
  <2>. QED
    BY <1>5, <2>1, CompileLinked DEF Chain
<1>6. CASE Compiled
  BY <1>6, LinkedKept DEF Compiled, IInv, Chain, compilerVars, requestVars, resolverVars
<1>7. CASE ScheduleMotion \/ ScheduleEvent \/ Scheduled
  BY <1>7, LinkedKept DEF ScheduleMotion, ScheduleEvent, Scheduled, Scheduling, IInv,
     Chain, compilerVars, requestVars, resolverVars
<1>. QED
  BY <1>1, <1>2, <1>3, <1>4, <1>5, <1>6, <1>7 DEF Step

-----------------------------------------------------------------------------
(* The scheduler                                                            *)

\* Of an increasing list, the one entry the scheduler's place can be is the next.
LEMMA TakenNext ==
  ASSUME NEW list \in Seq(Nat), NEW taken \in Nat, NEW at \in Nat, Increasing(list),
         taken <= Len(list), \A j \in DOMAIN list : j <= taken <=> list[j] < at
  PROVE  /\ (\E j \in DOMAIN list : list[j] = at) =>
              /\ taken < Len(list) /\ list[taken + 1] = at
              /\ \A j \in DOMAIN list : j <= taken + 1 <=> list[j] < at + 1
         /\ ~(\E j \in DOMAIN list : list[j] = at) =>
              \A j \in DOMAIN list : j <= taken <=> list[j] < at + 1
<1>0. /\ \A j \in DOMAIN list : list[j] \in Nat /\ j \in Nat
      /\ DOMAIN list = 1 .. Len(list) /\ Len(list) \in Nat
  OBVIOUS
<1>1. ASSUME NEW j \in DOMAIN list, list[j] = at
      PROVE  /\ taken < Len(list) /\ list[taken + 1] = at
             /\ \A i \in DOMAIN list : i <= taken + 1 <=> list[i] < at + 1
  <2>1. ~(j <= taken)
    BY <1>0, <1>1
  <2>2. taken + 1 \in DOMAIN list /\ taken < Len(list)
    BY <1>0, <2>1
  <2>3. ~(list[taken + 1] < at)
    BY <1>0, <2>2
  <2>4. j = taken + 1
    <3>1. ~(taken + 1 < j)
      BY <1>0, <1>1, <2>2, <2>3 DEF Increasing
    <3>. QED
      BY <1>0, <2>1, <3>1
  <2>5. ASSUME NEW i \in DOMAIN list
        PROVE  i <= taken + 1 <=> list[i] < at + 1
    <3>1. CASE i <= taken
      BY <1>0, <3>1
    <3>2. CASE i = taken + 1
      BY <1>0, <1>1, <2>4, <3>2
    <3>3. CASE i > taken + 1
      BY <1>0, <1>1, <2>4, <3>3 DEF Increasing
    <3>. QED
      BY <1>0, <3>1, <3>2, <3>3
  <2>. QED
    BY <1>1, <2>2, <2>4, <2>5
<1>2. ASSUME ~(\E j \in DOMAIN list : list[j] = at), NEW j \in DOMAIN list
      PROVE  j <= taken <=> list[j] < at + 1
  <2>1. list[j] # at /\ list[j] \in Nat
    BY <1>0, <1>2
  <2>. QED
    BY <2>1
<1>. QED
  BY <1>1, <1>2

\* The scheduler's motion is the next segment's, its event the next event.
LEMMA Reached ==
  ASSUME IInv, phase = "schedule", pc <= Len(program)
  PROVE  /\ IsMotion(program[pc]) =>
              /\ segmentIdx < Len(segmentOf) /\ segmentIdx < Len(planned)
              /\ segmentOf[segmentIdx + 1] = pc
              /\ \A j \in DOMAIN segmentOf : j <= segmentIdx + 1 <=> segmentOf[j] < pc + 1
              /\ \A j \in DOMAIN eventOf : j <= eventIdx <=> eventOf[j] < pc + 1
         /\ ~IsMotion(program[pc]) =>
              /\ eventIdx < Len(eventOf) /\ eventIdx < Len(events)
              /\ eventOf[eventIdx + 1] = pc
              /\ \A j \in DOMAIN eventOf : j <= eventIdx + 1 <=> eventOf[j] < pc + 1
              /\ \A j \in DOMAIN segmentOf : j <= segmentIdx <=> segmentOf[j] < pc + 1
<1>1. /\ segmentOf \in Seq(Nat) /\ eventOf \in Seq(Nat) /\ segmentIdx \in Nat
      /\ eventIdx \in Nat /\ pc \in Nat \ {0} /\ Len(program) \in Nat
  BY DEF IInv, PipelineTypeOK
<1>2. OfProgram
  BY DEF IInv, Placed
<1>3. CarriedOut
  BY <1>2 DEF CarriedOut, OfProgram
<1>4. /\ Names(segmentOf, Len(segments)) /\ Names(eventOf, Len(events))
      /\ SegmentsMade /\ EventsMade /\ NothingLost
  BY <1>2 DEF IInv, Split
<1>5. Taken(segmentOf, segmentIdx) /\ Taken(eventOf, eventIdx)
  BY <1>3 DEF IInv, Placed
<1>6. pc \in 1 .. Upto
  BY <1>1 DEF Upto
<1>7. /\ Len(segmentOf) = Len(segments) /\ Len(eventOf) = Len(events)
      /\ Len(planned) = Len(segments)
  BY <1>4 DEF Names, IInv, Chain
<1>8. CASE IsMotion(program[pc])
  <2>1. \E j \in DOMAIN segmentOf : segmentOf[j] = pc
    BY <1>4, <1>6, <1>8 DEF NothingLost
  <2>2. ~(\E j \in DOMAIN eventOf : eventOf[j] = pc)
    BY <1>4, <1>8 DEF EventsMade
  <2>3. /\ segmentIdx < Len(segmentOf) /\ segmentOf[segmentIdx + 1] = pc
        /\ \A j \in DOMAIN segmentOf : j <= segmentIdx + 1 <=> segmentOf[j] < pc + 1
    BY <1>1, <1>4, <1>5, <2>1, TakenNext DEF Names, Taken
  <2>4. \A j \in DOMAIN eventOf : j <= eventIdx <=> eventOf[j] < pc + 1
    BY <1>1, <1>4, <1>5, <2>2, TakenNext DEF Names, Taken
  <2>. QED
    BY <1>7, <1>8, <2>3, <2>4
<1>9. CASE ~IsMotion(program[pc])
  <2>1. \E j \in DOMAIN eventOf : eventOf[j] = pc
    BY <1>4, <1>6, <1>9 DEF NothingLost
  <2>2. ~(\E j \in DOMAIN segmentOf : segmentOf[j] = pc)
    BY <1>4, <1>9 DEF SegmentsMade, Made
  <2>3. /\ eventIdx < Len(eventOf) /\ eventOf[eventIdx + 1] = pc
        /\ \A j \in DOMAIN eventOf : j <= eventIdx + 1 <=> eventOf[j] < pc + 1
    BY <1>1, <1>4, <1>5, <2>1, TakenNext DEF Names, Taken
  <2>4. \A j \in DOMAIN segmentOf : j <= segmentIdx <=> segmentOf[j] < pc + 1
    BY <1>1, <1>4, <1>5, <2>2, TakenNext DEF Names, Taken
  <2>. QED
    BY <1>7, <1>9, <2>3, <2>4
<1>. QED
  BY <1>8, <1>9

\* Outside a program's schedule, and while none is placed, nothing is claimed.
LEMMA PlacedNowhere ==
  ASSUME IInv, ~CarriedOut', phase' # "schedule",
         phase \in {"idle", "expand", "resolve", "compile"} \/ phase' \in {"planned", "failed"},
         UNCHANGED <<segmentIdx, eventIdx, cursor, temporal>>
  PROVE  Placed'
BY DEF IInv, Placed

LEMMA Moments ==
  ASSUME NEW list \in Seq(TimedEvent)
  PROVE  \A k \in DOMAIN list : list[k].at \in Nat
<1>. SUFFICES ASSUME NEW k \in DOMAIN list
              PROVE  list[k].at \in Nat
  OBVIOUS
<1>1. list[k] \in TimedEvent
  OBVIOUS
<1>. QED
  BY <1>1 DEF TimedEvent

LEMMA Longer ==
  ASSUME NEW S, NEW list \in Seq(S), NEW e \in S, NEW longer, longer = Append(list, e)
  PROVE  /\ DOMAIN longer = 1 .. Len(list) + 1
         /\ DOMAIN list = 1 .. Len(list) /\ Len(list) \in Nat
         /\ \A k \in 1 .. Len(list) : longer[k] = list[k]
         /\ longer[Len(list) + 1] = e
OBVIOUS

LEMMA StepPlaced ==
  ASSUME IInv, Step
  PROVE  Placed'
<1>0. /\ segmentOf \in Seq(Nat) /\ eventOf \in Seq(Nat) /\ segmentIdx \in Nat
      /\ eventIdx \in Nat /\ pc \in Nat \ {0} /\ Len(program) \in Nat /\ cursor \in Nat
      /\ temporal \in Seq(TimedEvent)
  BY DEF IInv, PipelineTypeOK
<1>1. CASE ExpandOperation \/ Expanded
  BY <1>1, PlacedNowhere DEF ExpandOperation, Expanded, CarriedOut, schedulerVars
<1>2. CASE ResolveMoveJ \/ ResolveMoveL \/ ResolveEvent \/ Resolved
  BY <1>2, PlacedNowhere DEF ResolveMoveJ, ResolveMoveL, ResolveEvent, Resolving,
     PushSegment, Resolved, CarriedOut, schedulerVars
<1>3. CASE ResolveFails \/ CompileFails
  BY <1>3, FailInv DEF ResolveFails, CompileFails, IInv
<1>4. CASE CompileSegment
  BY <1>4, PlacedNowhere DEF CompileSegment, Compiling, CarriedOut, schedulerVars
<1>5. CASE Compiled
  <2>1. CASE OfProgram
    <3>1. /\ phase' = "schedule" /\ pc' = 1 /\ segmentIdx' = 0 /\ eventIdx' = 0
          /\ cursor' = 0 /\ temporal' = <<>> /\ program' = program
          /\ segmentOf' = segmentOf /\ eventOf' = eventOf /\ entry' = entry
      BY <1>5, <2>1 DEF Compiled, OfProgram, IInv, Placed, schedulerVars, requestVars,
         resolverVars
    <3>2. /\ \A j \in DOMAIN segmentOf : segmentOf[j] \in 1 .. Upto
          /\ \A j \in DOMAIN eventOf : eventOf[j] \in 1 .. Upto
      BY <1>5, <2>1 DEF Compiled, IInv, Split, Names
    <3>3. Upto \in Nat
      BY <1>0 DEF Upto
    <3>4. Taken(segmentOf, segmentIdx)'
      BY <1>0, <3>1, <3>2, <3>3 DEF Taken
    <3>5. Taken(eventOf, eventIdx)'
      BY <1>0, <3>1, <3>2, <3>3 DEF Taken
    <3>6. InOrder(temporal)' /\ (\A k \in DOMAIN temporal : temporal[k].at <= cursor)'
      BY <3>1 DEF InOrder
    <3>7. OfProgram' /\ pc' <= Len(program') + 1
      BY <1>0, <2>1, <3>1 DEF OfProgram
    <3>. QED
      BY <3>1, <3>4, <3>5, <3>6, <3>7 DEF Placed
  <2>2. CASE ~OfProgram
    BY <1>5, <2>2, PlacedNowhere DEF Compiled, OfProgram, CarriedOut, requestVars,
       schedulerVars
  <2>. QED
    BY <2>1, <2>2
<1>6. ASSUME phase = "schedule"
      PROVE  /\ OfProgram /\ CarriedOut
             /\ Taken(segmentOf, segmentIdx) /\ Taken(eventOf, eventIdx)
             /\ InOrder(temporal) /\ \A k \in DOMAIN temporal : temporal[k].at <= cursor
  BY <1>6 DEF IInv, Placed, OfProgram, CarriedOut
<1>7. CASE ScheduleMotion
  <2>1. /\ phase = "schedule" /\ pc <= Len(program) /\ IsMotion(program[pc])
        /\ phase' = phase /\ entry' = entry /\ pc' = pc + 1 /\ program' = program
        /\ segmentOf' = segmentOf /\ eventOf' = eventOf /\ eventIdx' = eventIdx
        /\ temporal' = temporal
    BY <1>7 DEF ScheduleMotion, Scheduling, IsMotion, requestVars, resolverVars
  <2>2. segmentIdx < Len(planned)
    BY <2>1, Reached
  <2>3. /\ segmentIdx' = segmentIdx + 1
        /\ cursor' = cursor + (planned[segmentIdx + 1].to - planned[segmentIdx + 1].from)
    BY <1>7, <2>2 DEF ScheduleMotion
  <2>4. Taken(segmentOf, segmentIdx)' /\ Taken(eventOf, eventIdx)'
    BY <1>0, <1>6, <2>1, <2>3, Reached DEF Taken
  <2>5. /\ planned[segmentIdx + 1].from \in Nat /\ planned[segmentIdx + 1].to \in Nat
        /\ planned[segmentIdx + 1].from <= planned[segmentIdx + 1].to
    <3>1. segmentIdx + 1 \in DOMAIN planned
      BY <2>2 DEF IInv, PipelineTypeOK
    <3>2. planned[segmentIdx + 1] \in PlannedSegment
      BY <3>1 DEF IInv, PipelineTypeOK
    <3>3. planned[segmentIdx + 1].from <= planned[segmentIdx + 1].to
      BY <1>6, <2>1, <3>1 DEF IInv, Chain, Linked
    <3>. QED
      BY <3>2, <3>3 DEF PlannedSegment
  <2>6. cursor <= cursor' /\ cursor' \in Nat
    BY <1>0, <2>3, <2>5
  <2>7. \A k \in DOMAIN temporal : temporal[k].at \in Nat
    BY <1>0, Moments
  <2>8. InOrder(temporal)' /\ (\A k \in DOMAIN temporal : temporal[k].at <= cursor)'
    BY <1>0, <1>6, <2>1, <2>6, <2>7 DEF InOrder
  <2>. QED
    BY <1>0, <1>6, <2>1, <2>4, <2>8 DEF Placed, OfProgram
<1>8. CASE ScheduleEvent
  <2>1. /\ phase = "schedule" /\ pc <= Len(program) /\ ~IsMotion(program[pc])
        /\ phase' = phase /\ entry' = entry /\ pc' = pc + 1 /\ program' = program
        /\ segmentOf' = segmentOf /\ eventOf' = eventOf /\ segmentIdx' = segmentIdx
    BY <1>8 DEF ScheduleEvent, Scheduling, IsMotion, Motions, requestVars, resolverVars
  <2>2. eventIdx < Len(events)
    BY <2>1, Reached
  <2>3. events[eventIdx + 1] \in Event
    BY <1>0, <2>2 DEF IInv, PipelineTypeOK
  <2>4. /\ eventIdx' = eventIdx + 1 /\ temporal' = Append(temporal, Stamped(events[eventIdx + 1]))
        /\ cursor' = IF events[eventIdx + 1].kind = "Delay"
                     THEN cursor + events[eventIdx + 1].amount ELSE cursor
    BY <1>8, <2>2 DEF ScheduleEvent
  <2>5. Taken(segmentOf, segmentIdx)' /\ Taken(eventOf, eventIdx)'
    BY <1>0, <1>6, <2>1, <2>4, Reached DEF Taken
  <2>6. cursor <= cursor' /\ cursor' \in Nat
    BY <1>0, <2>3, <2>4 DEF Event
  <2>7. /\ \A k \in DOMAIN temporal : temporal[k].at \in Nat
        /\ Stamped(events[eventIdx + 1]).at = cursor
        /\ Stamped(events[eventIdx + 1]) \in TimedEvent
    BY <1>0, <2>3, Moments DEF TimedEvent, Event, Stamped
  <2>8. /\ DOMAIN temporal' = 1 .. Len(temporal) + 1 /\ DOMAIN temporal = 1 .. Len(temporal)
        /\ Len(temporal) \in Nat
        /\ \A k \in 1 .. Len(temporal) : temporal'[k] = temporal[k]
        /\ temporal'[Len(temporal) + 1].at = cursor
    <3>. DEFINE e == Stamped(events[eventIdx + 1])
    <3>1. e \in TimedEvent /\ e.at = cursor /\ temporal' = Append(temporal, e)
      BY <2>4, <2>7
    <3>. HIDE DEF e
    <3>2. /\ DOMAIN temporal' = 1 .. Len(temporal) + 1
          /\ DOMAIN temporal = 1 .. Len(temporal) /\ Len(temporal) \in Nat
          /\ \A k \in 1 .. Len(temporal) : temporal'[k] = temporal[k]
          /\ temporal'[Len(temporal) + 1] = e
      BY <1>0, <3>1, Longer
    <3>. QED
      BY <3>1, <3>2
  <2>9. \A k \in DOMAIN temporal' :
          temporal'[k].at \in Nat /\ temporal'[k].at <= cursor
    <3>. SUFFICES ASSUME NEW k \in DOMAIN temporal'
                  PROVE  temporal'[k].at \in Nat /\ temporal'[k].at <= cursor
      OBVIOUS
    <3>1. CASE k = Len(temporal) + 1
      BY <1>0, <2>8, <3>1
    <3>2. CASE k # Len(temporal) + 1
      <4>1. k \in DOMAIN temporal /\ temporal'[k] = temporal[k]
        BY <2>8, <3>2
      <4>. QED
        BY <1>6, <2>1, <2>7, <4>1
    <3>. QED
      BY <3>1, <3>2
  <2>10. \A k \in DOMAIN temporal' : temporal'[k].at <= cursor'
    BY <1>0, <2>6, <2>9
  <2>11. \A i, j \in DOMAIN temporal' : i < j => temporal'[i].at <= temporal'[j].at
    <3>. SUFFICES ASSUME NEW i \in DOMAIN temporal', NEW j \in DOMAIN temporal', i < j
                  PROVE  temporal'[i].at <= temporal'[j].at
      OBVIOUS
    <3>1. CASE j = Len(temporal) + 1
      BY <2>8, <2>9, <3>1
    <3>2. CASE j # Len(temporal) + 1
      BY <1>6, <2>1, <2>8, <3>2 DEF InOrder
    <3>. QED
      BY <3>1, <3>2
  <2>12. InOrder(temporal)' /\ (\A k \in DOMAIN temporal : temporal[k].at <= cursor)'
    BY <2>10, <2>11 DEF InOrder
  <2>. QED
    BY <1>0, <1>6, <2>1, <2>5, <2>12 DEF Placed, OfProgram
<1>9. CASE Scheduled
  <2>1. /\ phase = "schedule" /\ phase' = "planned" /\ entry' = entry
        /\ pc' = pc /\ program' = program /\ segmentOf' = segmentOf /\ eventOf' = eventOf
        /\ segmentIdx' = segmentIdx /\ eventIdx' = eventIdx /\ cursor' = cursor
    BY <1>9 DEF Scheduled, requestVars, resolverVars
  <2>2. temporal' = temporal
    BY <1>6, <1>9, <2>1 DEF Scheduled, SortByTime
  <2>. QED
    BY <1>6, <2>1, <2>2 DEF IInv, Placed, CarriedOut, Taken, InOrder
<1>. QED
  BY <1>1, <1>2, <1>3, <1>4, <1>5, <1>7, <1>8, <1>9 DEF Step

-----------------------------------------------------------------------------
(* The invariant                                                            *)

LEMMA StepInv ==
  ASSUME IInv, Step
  PROVE  IInv'
<1>1. PipelineTypeOK'
  <2>1. PipelineTypeOK
    BY DEF IInv
  <2>. QED
    BY <2>1, ExpansionType, ResolvingType, CompilingType, SchedulingType DEF Step
<1>. QED
  BY <1>1, StepSplit, StepChain, StepPlaced DEF IInv

LEMMA NextInv == IInv /\ [Next]_vars => IInv'
<1>. SUFFICES ASSUME IInv, [Next]_vars PROVE IInv'
  OBVIOUS
<1>1. CASE Step
  BY <1>1, StepInv
<1>2. CASE Submitting
  BY <1>2, RequestInv
<1>3. CASE Replanning
  BY <1>3, ReplanInv DEF Replanning
<1>4. CASE Release
  BY <1>4, ReleaseInv
<1>5. CASE UNCHANGED vars
  <2>. USE <1>5 DEF vars, requestVars, resolverVars, compilerVars, schedulerVars
  <2>1. PipelineTypeOK'
    BY DEF IInv, PipelineTypeOK
  <2>2. Split'
    BY DEF IInv, Split, OfProgram, Names, Increasing, SegmentsMade, EventsMade,
       NothingLost, Made, IsMotion, LogicalEvent, Upto
  <2>3. Chain'
    BY DEF IInv, Chain, Linked, JointsAt
  <2>4. Placed'
    BY DEF IInv, Placed, OfProgram, CarriedOut, Taken, InOrder
  <2>. QED
    BY <2>1, <2>2, <2>3, <2>4 DEF IInv
<1>. QED
  BY <1>1, <1>2, <1>3, <1>4, <1>5 DEF Next

\* In every state the streams are what the passes have made of the instructions.
THEOREM Invariant == Spec => []IInv
BY InitInv, NextInv, PTL DEF Spec

\* All streams hold what their names say, whatever requests follow each other
\* (MotionResolver, PlanCompiler, TimelineScheduler).
THEOREM TypeCorrect == Spec => []PipelineTypeOK
<1>1. IInv => PipelineTypeOK
  BY DEF IInv
<1>. QED
  BY <1>1, Invariant, PTL

-----------------------------------------------------------------------------
(* The plan of a program carries it out                                     *)

\* Segments of motions have a trajectory, which ends where their instruction
\* asks.
LEMMA MotionPlanned ==
  ASSUME IInv, CarriedOut, NEW j \in DOMAIN planned
  PROVE  /\ j \in DOMAIN segmentOf /\ Made(segments[j], program[segmentOf[j]])
         /\ planned[j].trajectory = PlanSegment(segments[j], handed[j])
         /\ planned[j].trajectory \in Seq(Waypoint) /\ planned[j].trajectory # <<>>
         /\ handed[j] \in Joints /\ segments[j] \in Segment
         /\ segments[j] \in JointSegment =>
              LastJoints(planned[j].trajectory, start) =
                IF segments[j].speed = 0 THEN handed[j] ELSE segments[j].target
         /\ segments[j] \in LineSegment =>
              Place[LastJoints(planned[j].trajectory, start)] = segments[j].target.place
<1>1. OfProgram /\ phase \in {"schedule", "planned"}
  BY DEF CarriedOut, OfProgram
<1>2. /\ Linked /\ Len(planned) = Len(segments) /\ SegmentsMade
      /\ Len(segmentOf) = Len(segments)
  BY <1>1 DEF IInv, Chain, Split, Names
<1>3. /\ planned \in Seq(PlannedSegment) /\ handed \in Seq(Joints)
      /\ segmentOf \in Seq(Nat)
  BY DEF IInv, PipelineTypeOK
<1>4. j \in DOMAIN segmentOf /\ j \in DOMAIN handed
  BY <1>2, <1>3 DEF Linked
<1>5. /\ Made(segments[j], program[segmentOf[j]]) /\ handed[j] \in Joints
      /\ planned[j].trajectory = PlanSegment(segments[j], handed[j])
      /\ planned[j].trajectory \notin Errors
  BY <1>2, <1>3, <1>4 DEF Linked, SegmentsMade
<1>6. segments[j] \in Segment /\ segments[j].kind # "SetOutput"
  BY <1>5, InstructionKinds DEF Made, Motions, Segment, JointSegment, LineSegment
<1>. DEFINE t == PlanSegment(segments[j], handed[j])
            s == segments[j]
<1>7. /\ t \in Seq(Waypoint)
      /\ t = <<>> => s.kind = "SetOutput"
      /\ s \in JointSegment =>
           t[Len(t)].joints = IF s.speed = 0 THEN handed[j] ELSE s.target
      /\ s \in LineSegment => Place[t[Len(t)].joints] = s.target.place
  BY <1>5, <1>6, DispatcherAssumption DEF Promised
<1>. QED
  BY <1>4, <1>5, <1>6, <1>7 DEF LastJoints

\* What the compiler had before a segment is where the arm is after the one
\* before it.
LEMMA HandedIsArm ==
  ASSUME IInv, CarriedOut, NEW j \in DOMAIN planned
  PROVE  handed[j] = ArmAfter(j - 1)
<1>1. Linked
  BY DEF IInv, Chain, CarriedOut
<1>2. handed[j] = JointsAt(j)
  BY <1>1 DEF Linked
<1>3. planned \in Seq(PlannedSegment)
  BY DEF IInv, PipelineTypeOK
<1>4. CASE j = 1
  BY <1>2, <1>4 DEF JointsAt, ArmAfter
<1>5. CASE j # 1
  <2>1. j - 1 \in DOMAIN planned /\ j - 1 # 0
    BY <1>3, <1>5
  <2>2. planned[j - 1].trajectory # <<>>
    BY <2>1, MotionPlanned
  <2>. QED
    BY <1>2, <1>5, <2>1, <2>2 DEF JointsAt, ArmAfter, LastJoints
<1>. QED
  BY <1>4, <1>5

LEMMA Carried ==
  ASSUME IInv, CarriedOut
  PROVE  /\ program # NoProgram /\ program \in Seq(Instruction)
         /\ pc \in Nat \ {0} /\ cursor \in Nat
         /\ temporal \in Seq(TimedEvent) /\ segmentIdx \in Nat
BY RequestAssumption DEF IInv, PipelineTypeOK

LEMMA BeginStep ==
  ASSUME IInv, IInv', Compiled, OfProgram
  PROVE  Timeline!Begin
<1>1. /\ ~CarriedOut /\ CarriedOut' /\ pc' = 1 /\ segmentIdx' = 0
      /\ cursor' = 0 /\ temporal' = <<>>
  BY DEF Compiled, OfProgram, CarriedOut, IInv, Placed, requestVars, schedulerVars
<1>2. program' \in Seq(Instruction) /\ start' \in Joints
  BY DEF IInv, PipelineTypeOK
<1>3. Place[ArmAfter(segmentIdx)]' \in Places
  BY <1>1, <1>2, RequestAssumption DEF ArmAfter
<1>. QED
  BY <1>1, <1>2, <1>3 DEF Timeline!Begin

LEMMA MoveStep ==
  ASSUME IInv, IInv', ScheduleMotion
  PROVE  Timeline!Move
<1>1. /\ phase = "schedule" /\ pc <= Len(program) /\ IsMotion(program[pc])
      /\ phase' = phase /\ entry' = entry /\ pc' = pc + 1 /\ program' = program
      /\ planned' = planned /\ start' = start /\ temporal' = temporal
  BY DEF ScheduleMotion, Scheduling, IsMotion, requestVars, compilerVars
<1>2. CarriedOut /\ CarriedOut'
  BY <1>1 DEF CarriedOut, IInv, Placed, OfProgram
<1>3. segmentIdx < Len(planned) /\ segmentOf[segmentIdx + 1] = pc
  BY <1>1, Reached
<1>. DEFINE j == segmentIdx + 1
<1>4. /\ program # NoProgram /\ program \in Seq(Instruction) /\ pc \in Nat \ {0}
      /\ cursor \in Nat /\ segmentIdx \in Nat /\ planned \in Seq(PlannedSegment)
      /\ cursor' \in Nat
  BY <1>2, Carried DEF IInv, PipelineTypeOK
<1>5. j \in DOMAIN planned /\ j - 1 = segmentIdx /\ j # 0
  BY <1>3, <1>4
<1>6. segmentIdx' = j /\ cursor' = cursor + (planned[j].to - planned[j].from)
  BY <1>3 DEF ScheduleMotion
<1>7. cursor' >= cursor
  <2>1. planned[j] \in PlannedSegment /\ planned[j].from <= planned[j].to
    BY <1>1, <1>4, <1>5 DEF IInv, Chain, Linked
  <2>. QED
    BY <1>4, <1>6, <2>1 DEF PlannedSegment
<1>8. ArmAfter(segmentIdx)' = LastJoints(planned[j].trajectory, start)
  BY <1>1, <1>5, <1>6 DEF ArmAfter, LastJoints
<1>. DEFINE a == program[pc]
<1>9. /\ Made(segments[j], a) /\ a \in Instruction
      /\ a.kind \in Motions
  BY <1>1, <1>2, <1>3, <1>5, MotionPlanned DEF Made, IsMotion
<1>10. Place[ArmAfter(segmentIdx)]' =
         IF a.kind = "MoveJ" /\ a.speed = 0
         THEN Place[ArmAfter(segmentIdx)] ELSE a.target.place
  <2>1. CASE a.kind = "MoveJ"
    <3>1. /\ segments[j] \in JointSegment /\ Place[segments[j].target] = a.target.place
          /\ segments[j].speed = a.speed
      BY <1>9, <2>1 DEF Made
    <3>2. LastJoints(planned[j].trajectory, start) =
            IF segments[j].speed = 0 THEN ArmAfter(segmentIdx) ELSE segments[j].target
      BY <1>2, <1>5, <3>1, MotionPlanned, HandedIsArm
    <3>. QED
      BY <1>8, <2>1, <3>1, <3>2
  <2>2. CASE a.kind = "MoveL"
    <3>1. segments[j] \in LineSegment /\ segments[j].target = a.target
      BY <1>9, <2>2 DEF Made
    <3>2. Place[LastJoints(planned[j].trajectory, start)] = segments[j].target.place
      BY <1>2, <1>5, <3>1, MotionPlanned
    <3>. QED
      BY <1>8, <2>2, <3>1, <3>2
  <2>. QED
    BY <1>9, <2>1, <2>2 DEF Motions
<1>11. pc - 1 < Len(program) /\ pc' - 1 = pc - 1 + 1 /\ pc - 1 + 1 = pc
  BY <1>1, <1>4
<1>. QED
  BY <1>1, <1>2, <1>4, <1>7, <1>9, <1>10, <1>11
     DEF Timeline!Move, Timeline!Advance, Timeline!Current, Timeline!Motions, Motions

LEMMA EventStep ==
  ASSUME IInv, IInv', ScheduleEvent
  PROVE  Timeline!Wait \/ Timeline!Output
<1>1. /\ phase = "schedule" /\ pc <= Len(program)
      /\ program[pc].kind \in {"Delay", "SetOutput"} /\ ~IsMotion(program[pc])
      /\ phase' = phase /\ entry' = entry /\ pc' = pc + 1 /\ program' = program
      /\ planned' = planned /\ start' = start /\ segmentIdx' = segmentIdx
  BY DEF ScheduleEvent, Scheduling, IsMotion, Motions, requestVars, compilerVars
<1>2. CarriedOut /\ CarriedOut'
  BY <1>1 DEF CarriedOut, IInv, Placed, OfProgram
<1>3. eventIdx < Len(events) /\ eventIdx + 1 \in DOMAIN eventOf /\ eventOf[eventIdx + 1] = pc
  <2>1. eventOf \in Seq(Nat) /\ eventIdx \in Nat
    BY DEF IInv, PipelineTypeOK
  <2>2. eventIdx < Len(events) /\ eventIdx < Len(eventOf) /\ eventOf[eventIdx + 1] = pc
    BY <1>1, Reached
  <2>. QED
    BY <2>1, <2>2
<1>4. events[eventIdx + 1] = LogicalEvent(pc)
  <2>1. EventsMade
    BY <1>2 DEF IInv, Split, CarriedOut, OfProgram
  <2>. QED
    BY <1>3, <2>1 DEF EventsMade
<1>5. /\ temporal' = Append(temporal, Stamped(LogicalEvent(pc)))
      /\ cursor' = IF LogicalEvent(pc).kind = "Delay"
                   THEN cursor + LogicalEvent(pc).amount ELSE cursor
  BY <1>3, <1>4 DEF ScheduleEvent
<1>6. /\ program # NoProgram /\ pc \in Nat \ {0} /\ Len(program) \in Nat
  BY <1>2, Carried
<1>7. pc - 1 < Len(program) /\ pc' - 1 = pc - 1 + 1 /\ pc - 1 + 1 = pc
  BY <1>1, <1>6
<1>8. ArmAfter(segmentIdx)' = ArmAfter(segmentIdx)
  BY <1>1 DEF ArmAfter, LastJoints
<1>9. Place[ArmAfter(segmentIdx)]' = Place[ArmAfter(segmentIdx)]
  BY <1>8
<1>10. Stamped(LogicalEvent(pc)) =
         [kind |-> program[pc].kind, origin |-> program[pc].origin,
          amount |-> program[pc].amount, at |-> cursor]
  BY DEF Stamped, LogicalEvent
<1>11. /\ LogicalEvent(pc).kind = program[pc].kind
       /\ LogicalEvent(pc).amount = program[pc].amount
  BY DEF LogicalEvent
<1>. QED
  BY <1>1, <1>2, <1>5, <1>6, <1>7, <1>9, <1>10, <1>11
     DEF Timeline!Wait, Timeline!Output, Timeline!Advance, Timeline!Current, Timeline!Entry

\* A request that ends takes its program with it.
LEMMA EndStep ==
  ASSUME IInv, CarriedOut, ~CarriedOut'
  PROVE  Timeline!End
BY Carried DEF Timeline!End

LEMMA Elsewhere ==
  ASSUME ~CarriedOut, ~CarriedOut'
  PROVE  UNCHANGED Timeline!vars
BY DEF Timeline!vars

LEMMA Stays ==
  ASSUME UNCHANGED <<program, pc, cursor, segmentIdx, temporal, start, planned>>,
         CarriedOut' = CarriedOut
  PROVE  UNCHANGED Timeline!vars
<1>1. Place[ArmAfter(segmentIdx)]' = Place[ArmAfter(segmentIdx)]
  BY DEF ArmAfter, LastJoints
<1>. QED
  BY <1>1 DEF Timeline!vars

LEMMA NextMaps ==
  ASSUME IInv, IInv', [Next]_vars
  PROVE  [Timeline!Next]_Timeline!vars
<1>1. CASE ~CarriedOut' /\ CarriedOut
  BY <1>1, EndStep DEF Timeline!Next
<1>2. CASE ~CarriedOut' /\ ~CarriedOut
  BY <1>2, Elsewhere
<1>3. CASE CarriedOut'
  <2>1. CASE Compiled
    BY <1>3, <2>1, BeginStep DEF Compiled, CarriedOut, OfProgram, requestVars, Timeline!Next
  <2>2. CASE ScheduleMotion
    BY <2>2, MoveStep DEF Timeline!Next
  <2>3. CASE ScheduleEvent
    BY <2>3, EventStep DEF Timeline!Next
  <2>4. CASE Scheduled
    <3>1. CarriedOut /\ InOrder(temporal)
      BY <2>4 DEF Scheduled, IInv, Placed, CarriedOut, OfProgram
    <3>2. temporal' = temporal
      BY <2>4, <3>1 DEF Scheduled, SortByTime
    <3>. QED
      BY <1>3, <2>4, <3>1, <3>2, Stays DEF Scheduled, requestVars, compilerVars
  <2>5. CASE UNCHANGED vars
    BY <2>5, Stays DEF vars, requestVars, compilerVars, schedulerVars, CarriedOut
  <2>6. CASE Submitting \/ Replanning \/ Release
    BY <1>3, <2>6 DEF Submitting, Submit, SubmitSegments, SubmitOperations, Replanning,
       Replan, Fail, Release, CarriedOut
  <2>7. CASE ExpandOperation \/ Expanded
    BY <1>3, <2>7 DEF ExpandOperation, Expanded, CarriedOut
  <2>8. CASE ResolveMoveJ \/ ResolveMoveL \/ ResolveEvent \/ ResolveFails \/ Resolved
    BY <1>3, <2>8 DEF ResolveMoveJ, ResolveMoveL, ResolveEvent, ResolveFails, Resolved,
       Resolving, PushSegment, Fail, CarriedOut
  <2>9. CASE CompileSegment \/ CompileFails
    BY <1>3, <2>9 DEF CompileSegment, CompileFails, Compiling, Fail, CarriedOut
  <2>. QED
    BY <2>1, <2>2, <2>3, <2>4, <2>5, <2>6, <2>7, <2>8, <2>9 DEF Next, Step
<1>. QED
  BY <1>1, <1>2, <1>3

\* Resolver, compiler and scheduler together carry every program out in the
\* order it was written: every motion ends at the place its own instruction asks
\* for, and every delay and output is stamped with the moment it is reached, for
\* any IK solver and any planner of segments that keeps the dispatcher's promise.
THEOREM PlanCarriesProgramOut == Spec => ImplementsTimeline
<1>1. Init => Timeline!Init
  BY DEF Init, Timeline!Init, CarriedOut
<1>2. IInv /\ IInv' /\ [Next]_vars => [Timeline!Next]_Timeline!vars
  BY NextMaps
<1>. QED
  BY <1>1, <1>2, Invariant, PTL DEF Spec, ImplementsTimeline, Timeline!Spec

-----------------------------------------------------------------------------
(* The arm before a segment and after the last                              *)

LEMMA HandedAgree ==
  ASSUME IInv
  PROVE  StartJointsAgree
<1>. SUFFICES ASSUME phase = "planned", NEW j \in DOMAIN planned,
                     planned[j - 1].source.kind # "SetOutput"
              PROVE  SegmentStartJoints(j) = handed[j]
  BY DEF StartJointsAgree
<1>1. /\ planned \in Seq(PlannedSegment) /\ handed \in Seq(Joints)
      /\ segments \in Seq(Segment \cup EditorSegments)
  BY DEF IInv, PipelineTypeOK
<1>2. Linked
  BY DEF IInv, Chain
<1>3. handed[j] = JointsAt(j)
  BY <1>2 DEF Linked
<1>4. CASE j = 1
  BY <1>3, <1>4 DEF JointsAt, SegmentStartJoints
<1>5. CASE j # 1
  <2>1. j - 1 \in DOMAIN planned /\ j - 1 \in DOMAIN segments /\ j - 1 \in DOMAIN handed
    BY <1>1, <1>2, <1>5 DEF Linked
  <2>2. /\ planned[j - 1].source = segments[j - 1]
        /\ planned[j - 1].trajectory = PlanSegment(segments[j - 1], handed[j - 1])
        /\ planned[j - 1].trajectory \notin Errors
    BY <1>2, <2>1 DEF Linked
  <2>3. segments[j - 1] \in Segment \cup EditorSegments /\ handed[j - 1] \in Joints
    BY <1>1, <2>1
  <2>4. planned[j - 1].trajectory # <<>>
    BY <2>2, <2>3, DispatcherAssumption DEF Promised
  <2>. QED
    BY <1>3, <1>5, <2>4 DEF JointsAt, SegmentStartJoints, LastJoints
<1>. QED
  BY <1>4, <1>5

\* segment_start_joints is right about every plan: it names what the compiler
\* handed to the segment, unless an output stands right before it.
THEOREM StartJointsAreHanded == Spec => []StartJointsAgree
<1>1. IInv => StartJointsAgree
  BY HandedAgree
<1>. QED
  BY <1>1, Invariant, PTL

\* Seed of the resolver before its segment j.
SeedAt(j) ==
  IF j = 1 THEN start
  ELSE IF segments[j - 1].kind = "MoveJ" THEN segments[j - 1].target ELSE seeds[j - 1]

Seeded ==
  OfProgram /\ phase \in {"resolve", "compile", "schedule", "planned"} =>
    /\ Len(seeds) = Len(segments)
    /\ \A j \in DOMAIN seeds : seeds[j] = SeedAt(j)
    /\ phase = "resolve" => seed = SeedAt(Len(seeds) + 1)

LEMMA SeededPush ==
  ASSUME IInv, Seeded, OfProgram, phase = "resolve", NEW segment, PushSegment(segment),
         segments' \in Seq(Segment \cup EditorSegments), seeds' \in Seq(Joints),
         seed' = IF segment.kind = "MoveJ" THEN segment.target ELSE seed
  PROVE  Seeded'
<1>1. /\ segments \in Seq(Segment \cup EditorSegments) /\ seeds \in Seq(Joints)
  BY DEF IInv, PipelineTypeOK
<1>2. /\ segments' = Append(segments, segment) /\ seeds' = Append(seeds, seed)
      /\ start' = start /\ phase' = phase
  BY DEF PushSegment, requestVars
<1>3. /\ Len(seeds) = Len(segments) /\ \A j \in DOMAIN seeds : seeds[j] = SeedAt(j)
      /\ seed = SeedAt(Len(seeds) + 1)
  BY DEF Seeded
<1>4. PICK n \in Nat : n = Len(seeds)
  BY <1>1
<1>5. /\ Len(segments') = n + 1 /\ Len(seeds') = n + 1 /\ DOMAIN seeds' = 1 .. n + 1
      /\ DOMAIN seeds = 1 .. n
      /\ \A j \in 1 .. n : segments'[j] = segments[j] /\ seeds'[j] = seeds[j]
      /\ segments'[n + 1] = segment /\ seeds'[n + 1] = seed
  BY <1>1, <1>2, <1>3, <1>4
<1>6. ASSUME NEW j \in 1 .. n + 1
      PROVE  SeedAt(j)' = SeedAt(j)
  <2>1. j = 1 \/ j - 1 \in 1 .. n
    BY <1>4
  <2>. QED
    BY <1>2, <1>5, <2>1 DEF SeedAt
<1>7. \A j \in 1 .. n + 1 : seeds'[j] = SeedAt(j)'
  <2>. SUFFICES ASSUME NEW j \in 1 .. n + 1
                PROVE  seeds'[j] = SeedAt(j)'
    OBVIOUS
  <2>1. j \in 1 .. n \/ j = n + 1
    BY <1>4
  <2>. QED
    BY <1>3, <1>4, <1>5, <1>6, <2>1
<1>8. ASSUME NEW k \in Nat, k = n + 2
      PROVE  seed' = SeedAt(k)'
  <2>1. k # 1 /\ k - 1 = n + 1
    BY <1>4, <1>8
  <2>. QED
    BY <1>5, <2>1 DEF SeedAt
<1>9. ASSUME NEW k \in Nat, k = Len(seeds')
      PROVE  seed' = SeedAt(k + 1)'
  <2>1. k + 1 \in Nat /\ k + 1 = n + 2
    BY <1>5, <1>9
  <2>. QED
    BY <1>8, <2>1
<1>10. seed' = SeedAt(Len(seeds) + 1)'
  <2>1. Len(seeds') \in Nat
    BY <1>5
  <2>. QED
    BY <1>9, <2>1
<1>. QED
  BY <1>5, <1>7, <1>10 DEF Seeded

LEMMA SeededKept ==
  ASSUME Seeded, OfProgram' => OfProgram, UNCHANGED <<segments, seeds, seed, start>>,
         phase' \in {"resolve", "compile", "schedule", "planned"} =>
           phase \in {"resolve", "compile", "schedule", "planned"},
         phase' = "resolve" => phase = "resolve"
  PROVE  Seeded'
BY DEF Seeded, SeedAt

LEMMA NextSeeded ==
  ASSUME IInv, IInv', Seeded, [Next]_vars
  PROVE  Seeded'
<1>0. /\ segments' \in Seq(Segment \cup EditorSegments) /\ seeds' \in Seq(Joints)
  BY DEF IInv, PipelineTypeOK
<1>1. CASE ResolveMoveJ
  BY <1>0, <1>1, SeededPush DEF ResolveMoveJ, Resolving, Seeded, OfProgram, PushSegment,
     requestVars
<1>2. CASE ResolveMoveL
  BY <1>0, <1>2, SeededPush DEF ResolveMoveL, Resolving, Seeded, OfProgram, PushSegment,
     requestVars
<1>3. CASE ResolveEvent \/ ResolveFails \/ Resolved
  BY <1>3, SeededKept DEF ResolveEvent, ResolveFails, Resolved, Resolving, Fail,
     OfProgram, requestVars, resolverVars
<1>4. CASE CompileSegment \/ CompileFails \/ Compiled
  BY <1>4, SeededKept DEF CompileSegment, CompileFails, Compiled, Compiling, Fail,
     OfProgram, requestVars, resolverVars
<1>5. CASE ScheduleMotion \/ ScheduleEvent \/ Scheduled
  BY <1>5, SeededKept DEF ScheduleMotion, ScheduleEvent, Scheduled, Scheduling,
     OfProgram, requestVars, resolverVars
<1>6. CASE ExpandOperation \/ Expanded
  <2>1. ~OfProgram'
    BY <1>6 DEF ExpandOperation, Expanded, IInv, Split, OfProgram, requestVars
  <2>. QED
    BY <2>1 DEF Seeded
<1>7. CASE Submitting
  <2>1. PICK q \in Starts :
          \/ \E instructions \in Programs : Submit(instructions, q)
          \/ \E list \in SegmentPrograms : SubmitSegments(list, q)
          \/ \E list \in OperationPrograms : SubmitOperations(list, q)
    BY <1>7 DEF Submitting
  <2>. QED
    BY <2>1 DEF Submit, SubmitSegments, SubmitOperations, Fresh, Seeded, SeedAt, OfProgram
<1>8. CASE Replanning
  <2>1. PICK first \in 1 .. Len(program), q \in Starts, toolOffset \in BOOLEAN :
          Replan(first, q, toolOffset)
    BY <1>8 DEF Replanning
  <2>2. CASE toolOffset
    BY <2>1, <2>2 DEF Replan, Fail, Seeded
  <2>3. CASE ~toolOffset
    BY <2>1, <2>3 DEF Replan, Fresh, Seeded, SeedAt
  <2>. QED
    BY <2>2, <2>3
<1>9. CASE Release
  BY <1>9 DEF Release, Seeded
<1>10. CASE UNCHANGED vars
  BY <1>10, SeededKept DEF vars, requestVars, resolverVars, OfProgram
<1>. QED
  BY <1>1, <1>2, <1>3, <1>4, <1>5, <1>6, <1>7, <1>8, <1>9, <1>10 DEF Next, Step

\* A joint move at some speed ends in the configuration it names.
LEMMA JointMoveEnds ==
  ASSUME IInv, CarriedOut, NEW j \in DOMAIN planned, segments[j].kind = "MoveJ",
         segments[j].speed # 0
  PROVE  LastJoints(planned[j].trajectory, handed[j]) = segments[j].target
<1>1. segments[j] \in JointSegment
  BY MotionPlanned DEF Segment, JointSegment, LineSegment
<1>. QED
  BY <1>1, MotionPlanned DEF LastJoints

LEMMA SeedsAgree ==
  ASSUME IInv, Seeded
  PROVE  SeedIsTheArm
<1>. SUFFICES ASSUME phase = "planned", CarriedOut, MotionsAtSpeed, NEW j \in DOMAIN planned,
                     \A i \in 1 .. j - 1 : segments[i].kind = "MoveJ"
              PROVE  seeds[j] = handed[j]
  BY DEF SeedIsTheArm
<1>1. /\ planned \in Seq(PlannedSegment) /\ seeds \in Seq(Joints)
      /\ program \in Seq(Instruction)
  BY DEF IInv, PipelineTypeOK
<1>2. /\ Linked /\ Len(planned) = Len(segments) /\ Len(seeds) = Len(segments)
      /\ \A i \in DOMAIN seeds : seeds[i] = SeedAt(i)
  BY DEF IInv, Chain, Seeded, CarriedOut, OfProgram
<1>3. seeds[j] = SeedAt(j) /\ handed[j] = JointsAt(j)
  BY <1>1, <1>2 DEF Linked
<1>4. CASE j = 1
  BY <1>3, <1>4 DEF SeedAt, JointsAt
<1>5. CASE j # 1
  <2>1. j - 1 \in DOMAIN planned /\ j - 1 \in 1 .. j - 1
    BY <1>1, <1>5
  <2>2. segments[j - 1].kind = "MoveJ"
    BY <2>1
  <2>3. /\ Made(segments[j - 1], program[segmentOf[j - 1]])
        /\ j - 1 \in DOMAIN segmentOf
    BY <2>1, MotionPlanned
  <2>4. segmentOf[j - 1] \in DOMAIN program
    BY <1>1, <2>3 DEF IInv, Split, Names, Upto, CarriedOut, OfProgram
  <2>5. segments[j - 1].speed # 0
    BY <2>3, <2>4 DEF MotionsAtSpeed, Made
  <2>. QED
    BY <1>3, <1>5, <2>1, <2>2, <2>5, JointMoveEnds DEF SeedAt, JointsAt
<1>. QED
  BY <1>4, <1>5

\* The resolver solves each joint move from the configuration the arm will have
\* when the move begins, as long as no linear move stands before it.
THEOREM SeedsAreTheArm == Spec => []SeedIsTheArm
<1>1. Init => Seeded
  BY DEF Init, Seeded
<1>2. IInv /\ IInv' /\ Seeded /\ [Next]_vars => Seeded'
  BY NextSeeded
<1>3. IInv /\ Seeded => SeedIsTheArm
  BY SeedsAgree
<1>. QED
  BY <1>1, <1>2, <1>3, Invariant, PTL DEF Spec

LEMMA FinalAgrees ==
  ASSUME IInv
  PROVE  FinalStateAfterJointMove
<1>. DEFINE n == Len(segments)
<1>. SUFFICES ASSUME phase = "planned", entry = "suffix", segments # <<>>,
                     segments[n].kind = "MoveJ", segments[n].speed > 0
              PROVE  FinalState = joints
  BY DEF FinalStateAfterJointMove
<1>1. /\ planned \in Seq(PlannedSegment) /\ segments \in Seq(Segment \cup EditorSegments)
  BY DEF IInv, PipelineTypeOK
<1>2. CarriedOut /\ Linked /\ Len(planned) = n
  BY DEF CarriedOut, IInv, Chain
<1>3. n \in DOMAIN planned /\ n \in DOMAIN segments /\ DOMAIN segments = 1 .. n /\ n \in Nat
  BY <1>1, <1>2
<1>4. joints = LastJoints(planned[n].trajectory, handed[n])
  <2>1. n + 1 # 1 /\ n + 1 - 1 = n
    BY <1>3
  <2>. QED
    BY <1>2, <2>1 DEF Linked, JointsAt
<1>5. joints = segments[n].target
  BY <1>2, <1>3, <1>4, JointMoveEnds
<1>. DEFINE moves == {j \in DOMAIN segments : segments[j].kind = "MoveJ"}
<1>6. n \in moves /\ \A i \in moves : i <= n /\ i \in Nat
  BY <1>3
<1>7. (CHOOSE j \in moves : \A i \in moves : i <= j) = n
  BY <1>3, <1>6
<1>. QED
  BY <1>5, <1>6, <1>7 DEF FinalState

\* After a joint move the state a replanned suffix reports as its last is the one
\* its trajectory ends in.
THEOREM FinalStateIsReached == Spec => []FinalStateAfterJointMove
<1>1. IInv => FinalStateAfterJointMove
  BY FinalAgrees
<1>. QED
  BY <1>1, Invariant, PTL
-----------------------------------------------------------------------------
(* The merged trajectory is one movement                                    *)

\* Where segment j begins in the waypoints, and when.
FirstOf(j) == IF j = 1 THEN 0 ELSE planned[j - 1].last
FromOf(j) == IF j = 1 THEN 0 ELSE planned[j - 1].to

JumpAt(time) == \E j \in DOMAIN planned : Jumps(planned[j]) /\ planned[j].from = time

\* Segments follow each other, and the last of them ends where the waypoints do.
Laid ==
  /\ \A j \in DOMAIN planned :
       /\ planned[j].first = FirstOf(j) /\ planned[j].from = FromOf(j)
       /\ planned[j].first <= planned[j].last
       /\ planned[j].trajectory # <<>> /\ ~Jumps(planned[j]) =>
            planned[j].trajectory[1].joints = handed[j]
  /\ Len(waypoints) = FirstOf(Len(planned) + 1)
  /\ offset = FromOf(Len(planned) + 1)

\* What is still to come begins at the offset, with the compiler's joints.
Smooth ==
  /\ \A i, k \in DOMAIN waypoints : i < k =>
       /\ waypoints[i].at <= waypoints[k].at
       /\ waypoints[i].at = waypoints[k].at =>
            waypoints[i].joints = waypoints[k].joints \/ JumpAt(waypoints[i].at)
  /\ \A i \in DOMAIN waypoints :
       /\ waypoints[i].at <= offset
       /\ waypoints[i].at = offset => waypoints[i].joints = joints \/ JumpAt(offset)
  /\ Duration(waypoints) = offset

Track == Laid /\ Smooth

\* What the dispatcher promises of the segment in hand.
LEMMA TrajectoryShape ==
  ASSUME PipelineTypeOK, CompileSegment
  PROVE  /\ Trajectory \in Seq(Waypoint) /\ Len(Trajectory) \in Nat
         /\ \A i \in 1 .. Len(Trajectory) : Trajectory[i].at \in Nat
         /\ Trajectory # <<>> =>
              \/ Trajectory[1].joints = joints
              \/ /\ Trajectory[Len(Trajectory)].at = 0
                 /\ segments[Len(planned) + 1].kind \in CartesianKinds
         /\ \A i, k \in 1 .. Len(Trajectory) : i < k =>
              /\ Trajectory[i].at <= Trajectory[k].at
              /\ Trajectory[i].at = Trajectory[k].at =>
                   Trajectory[i].joints = Trajectory[k].joints
<1>1. /\ segments[Len(planned) + 1] \in Segment \cup EditorSegments
      /\ Trajectory \in Seq(Waypoint)
  BY TrajectoryType DEF CompileSegment
<1>2. joints \in Joints /\ Trajectory \notin Errors
  BY DEF PipelineTypeOK, CompileSegment
<1>3. /\ Len(Trajectory) \in Nat /\ DOMAIN Trajectory = 1 .. Len(Trajectory)
      /\ \A i \in 1 .. Len(Trajectory) : Trajectory[i] \in Waypoint
  BY <1>1
<1>4. \A i \in 1 .. Len(Trajectory) : Trajectory[i].at \in Nat
  BY <1>3 DEF Waypoint
<1>5. /\ Trajectory # <<>> =>
           \/ Trajectory[1].joints = joints
           \/ /\ Trajectory[Len(Trajectory)].at = 0
              /\ segments[Len(planned) + 1].kind \in CartesianKinds
      /\ \A i, k \in DOMAIN Trajectory : i < k =>
           /\ Trajectory[i].at <= Trajectory[k].at
           /\ Trajectory[i].at = Trajectory[k].at =>
                Trajectory[i].joints = Trajectory[k].joints
  BY <1>1, <1>2, DispatcherAssumption DEF Promised, Trajectory
<1>. QED
  BY <1>1, <1>3, <1>4, <1>5

LEMMA Elements ==
  ASSUME NEW S, NEW list \in Seq(S)
  PROVE  \A k \in DOMAIN list : list[k] \in S
OBVIOUS

\* The places of two lists in their concatenation.
LEMMA Joined ==
  ASSUME NEW S, NEW a \in Seq(S), NEW b \in Seq(S), NEW both, both = a \o b
  PROVE  /\ Len(a) \in Nat /\ Len(b) \in Nat /\ Len(both) = Len(a) + Len(b)
         /\ DOMAIN both = 1 .. Len(a) + Len(b) /\ DOMAIN a = 1 .. Len(a)
         /\ \A i \in 1 .. Len(a) : both[i] = a[i]
         /\ \A i \in 1 .. Len(b) : both[Len(a) + i] = b[i]
OBVIOUS

\* The merged trajectory after it: the waypoints before, and the segment's own,
\* later by the offset.
LEMMA Merged ==
  ASSUME PipelineTypeOK, CompileSegment
  PROVE  /\ Len(waypoints) \in Nat
         /\ Len(waypoints') = Len(waypoints) + Len(Trajectory)
         /\ DOMAIN waypoints' = 1 .. Len(waypoints) + Len(Trajectory)
         /\ DOMAIN waypoints = 1 .. Len(waypoints)
         /\ \A i \in 1 .. Len(waypoints) : waypoints'[i] = waypoints[i]
         /\ \A i \in 1 .. Len(Trajectory) :
              /\ waypoints'[Len(waypoints) + i].at = Trajectory[i].at + offset
              /\ waypoints'[Len(waypoints) + i].joints = Trajectory[i].joints
<1>1. /\ Trajectory \in Seq(Waypoint) /\ Shifted(Trajectory, offset) \in Seq(Waypoint)
      /\ waypoints \in Seq(Waypoint)
  BY TrajectoryType DEF CompileSegment, PipelineTypeOK
<1>2. waypoints' = waypoints \o Shifted(Trajectory, offset)
  BY DEF CompileSegment
<1>3. /\ Len(Shifted(Trajectory, offset)) = Len(Trajectory) /\ Len(Trajectory) \in Nat
      /\ DOMAIN Trajectory = 1 .. Len(Trajectory)
  BY <1>1 DEF Shifted
<1>4. \A i \in 1 .. Len(Trajectory) :
        /\ Shifted(Trajectory, offset)[i].at = Trajectory[i].at + offset
        /\ Shifted(Trajectory, offset)[i].joints = Trajectory[i].joints
  <2>1. \A i \in 1 .. Len(Trajectory) :
          /\ Trajectory[i] \in Waypoint
          /\ Shifted(Trajectory, offset)[i] = [Trajectory[i] EXCEPT !.at = @ + offset]
    BY <1>1, <1>3 DEF Shifted
  <2>. QED
    BY <2>1 DEF Waypoint
<1>. DEFINE later == Shifted(Trajectory, offset)
<1>. HIDE DEF later
<1>5. /\ Len(waypoints) \in Nat /\ DOMAIN waypoints = 1 .. Len(waypoints)
      /\ Len(waypoints') = Len(waypoints) + Len(later)
      /\ DOMAIN waypoints' = 1 .. Len(waypoints) + Len(later)
      /\ \A i \in 1 .. Len(waypoints) : waypoints'[i] = waypoints[i]
      /\ \A i \in 1 .. Len(later) : waypoints'[Len(waypoints) + i] = later[i]
  <2>1. /\ later \in Seq(Waypoint) /\ waypoints \in Seq(Waypoint)
        /\ waypoints' = waypoints \o later
    BY <1>1, <1>2 DEF later
  <2>. QED
    BY <2>1, Joined
<1>6. /\ Len(waypoints) \in Nat /\ DOMAIN waypoints = 1 .. Len(waypoints)
      /\ Len(waypoints') = Len(waypoints) + Len(Trajectory)
      /\ DOMAIN waypoints' = 1 .. Len(waypoints) + Len(Trajectory)
      /\ \A i \in 1 .. Len(waypoints) : waypoints'[i] = waypoints[i]
      /\ \A i \in 1 .. Len(Trajectory) :
           waypoints'[Len(waypoints) + i] = Shifted(Trajectory, offset)[i]
  BY <1>3, <1>5 DEF later
<1>. QED
  BY <1>4, <1>6

LEMMA TrackFresh ==
  ASSUME NEW list, NEW at, Fresh(list, at)
  PROVE  Track'
<1>1. planned' = <<>> /\ waypoints' = <<>> /\ offset' = 0
  BY DEF Fresh
<1>2. DOMAIN planned' = {} /\ DOMAIN waypoints' = {} /\ Len(planned') + 1 = 1 /\ Len(waypoints') = 0
  BY <1>1
<1>3. Laid'
  BY <1>1, <1>2 DEF Laid, FirstOf, FromOf
<1>4. Smooth'
  BY <1>1, <1>2 DEF Smooth, Duration
<1>. QED
  BY <1>3, <1>4 DEF Track

LEMMA TrackKept ==
  ASSUME Track, UNCHANGED compilerVars
  PROVE  Track'
<1>. USE DEF compilerVars
<1>1. Laid'
  BY DEF Track, Laid, FirstOf, FromOf, Jumps, Duration
<1>2. Smooth'
  BY DEF Track, Smooth, JumpAt, Jumps, Duration
<1>. QED
  BY <1>1, <1>2 DEF Track

\* One segment more, where the last one ended.
LEMMA LaidNext ==
  ASSUME IInv, Track, CompileSegment
  PROVE  Laid'
<1>. DEFINE n == Len(planned)
            compiled == [source |-> segments[n + 1], trajectory |-> Trajectory,
                         first |-> Len(waypoints), last |-> Len(waypoints'),
                         from |-> offset, to |-> offset']
<1>1. /\ planned \in Seq(PlannedSegment) /\ handed \in Seq(Joints) /\ n \in Nat
      /\ PipelineTypeOK
  BY DEF IInv, PipelineTypeOK
<1>2. Len(handed) = n
  BY DEF CompileSegment, Compiling, IInv, Chain, Linked
<1>3. planned' = Append(planned, compiled) /\ handed' = Append(handed, joints)
  BY DEF CompileSegment
<1>4. /\ compiled.source = segments[n + 1] /\ compiled.trajectory = Trajectory
      /\ compiled.first = Len(waypoints) /\ compiled.last = Len(waypoints')
      /\ compiled.from = offset /\ compiled.to = offset'
  OBVIOUS
<1>. HIDE DEF compiled
<1>5. /\ \A j \in 1 .. n : planned'[j] = planned[j] /\ handed'[j] = handed[j]
      /\ planned'[n + 1] = compiled /\ handed'[n + 1] = joints
      /\ DOMAIN planned' = 1 .. n + 1 /\ Len(planned') = n + 1 /\ DOMAIN planned = 1 .. n
  BY <1>1, <1>2, <1>3
<1>6. \A j \in 1 .. n + 1 : FirstOf(j)' = FirstOf(j) /\ FromOf(j)' = FromOf(j)
  <2>. SUFFICES ASSUME NEW j \in 1 .. n + 1
                PROVE  FirstOf(j)' = FirstOf(j) /\ FromOf(j)' = FromOf(j)
    OBVIOUS
  <2>1. j = 1 \/ j - 1 \in 1 .. n
    BY <1>1
  <2>. QED
    BY <1>5, <2>1 DEF FirstOf, FromOf
<1>7. /\ Len(waypoints) = FirstOf(n + 1) /\ offset = FromOf(n + 1)
      /\ \A j \in 1 .. n :
           /\ planned[j].first = FirstOf(j) /\ planned[j].from = FromOf(j)
           /\ planned[j].first <= planned[j].last
           /\ planned[j].trajectory # <<>> /\ ~Jumps(planned[j]) =>
                planned[j].trajectory[1].joints = handed[j]
  BY <1>5 DEF Track, Laid
<1>8. compiled.first <= compiled.last
  BY <1>1, <1>4, Merged, TrajectoryShape
<1>9. Trajectory # <<>> /\ ~Jumps(compiled) => Trajectory[1].joints = joints
  BY <1>1, <1>4, TrajectoryShape DEF Jumps, Duration
<1>10. ASSUME NEW j \in 1 .. n + 1
       PROVE  /\ planned'[j].first = FirstOf(j)' /\ planned'[j].from = FromOf(j)'
              /\ planned'[j].first <= planned'[j].last
              /\ planned'[j].trajectory # <<>> /\ ~Jumps(planned'[j]) =>
                   planned'[j].trajectory[1].joints = handed'[j]
  <2>1. j \in 1 .. n \/ j = n + 1
    BY <1>1
  <2>2. CASE j \in 1 .. n
    BY <1>5, <1>6, <1>7, <2>2
  <2>3. CASE j = n + 1
    BY <1>4, <1>5, <1>6, <1>7, <1>8, <1>9, <2>3
  <2>. QED
    BY <2>1, <2>2, <2>3
<1>11. ASSUME NEW k \in Nat, k = n + 2
       PROVE  Len(waypoints') = FirstOf(k)' /\ offset' = FromOf(k)'
  <2>1. k # 1 /\ k - 1 = n + 1
    BY <1>1, <1>11
  <2>2. FirstOf(k)' = planned'[k - 1].last /\ FromOf(k)' = planned'[k - 1].to
    BY <2>1 DEF FirstOf, FromOf
  <2>. QED
    BY <1>4, <1>5, <2>1, <2>2
<1>12. Len(planned') + 1 = n + 2 /\ n + 2 \in Nat
  BY <1>1, <1>5
<1>13. Len(waypoints') = FirstOf(Len(planned) + 1)' /\ offset' = FromOf(Len(planned) + 1)'
  BY <1>11, <1>12
<1>14. \A j \in DOMAIN planned' :
         /\ planned'[j].first = FirstOf(j)' /\ planned'[j].from = FromOf(j)'
         /\ planned'[j].first <= planned'[j].last
         /\ planned'[j].trajectory # <<>> /\ ~Jumps(planned[j])' =>
              planned'[j].trajectory[1].joints = handed'[j]
  BY <1>5, <1>10 DEF Jumps, Duration
<1>. QED
  BY <1>13, <1>14 DEF Laid

\* What is appended begins where the waypoints end, so the arm is in one
\* configuration at the seam too.
LEMMA SmoothNext ==
  ASSUME IInv, Track, CompileSegment
  PROVE  Smooth'
<1>. DEFINE n == Len(waypoints)
            m == Len(Trajectory)
            T == Trajectory
            Jump(time) == \E j \in DOMAIN planned' :
                            Jumps(planned'[j]) /\ planned'[j].from = time
<1>1. PipelineTypeOK /\ waypoints \in Seq(Waypoint) /\ offset \in Nat /\ n \in Nat
  BY DEF IInv, PipelineTypeOK
<1>2. /\ m \in Nat /\ \A i \in 1 .. m : T[i].at \in Nat
      /\ T # <<>> => \/ T[1].joints = joints
                     \/ T[m].at = 0 /\ segments[Len(planned) + 1].kind \in CartesianKinds
      /\ \A i, k \in 1 .. m : i < k =>
           T[i].at <= T[k].at /\ (T[i].at = T[k].at => T[i].joints = T[k].joints)
      /\ T # <<>> <=> m # 0
  BY <1>1, TrajectoryShape
<1>3. /\ DOMAIN waypoints' = 1 .. n + m /\ Len(waypoints') = n + m
      /\ DOMAIN waypoints = 1 .. n
      /\ \A i \in 1 .. n : waypoints'[i] = waypoints[i]
      /\ \A i \in 1 .. m : /\ waypoints'[n + i].at = T[i].at + offset
                           /\ waypoints'[n + i].joints = T[i].joints
  BY <1>1, Merged
<1>4. /\ offset' = offset + Duration(T) /\ joints' = LastJoints(T, joints)
      /\ Duration(T) = IF m = 0 THEN 0 ELSE T[m].at
      /\ LastJoints(T, joints) = IF m = 0 THEN joints ELSE T[m].joints
  BY <1>2 DEF CompileSegment, Duration, LastJoints
<1>5. \A time : JumpAt(time) => Jump(time)
  <2>. SUFFICES ASSUME NEW j \in DOMAIN planned, Jumps(planned[j])
                PROVE  j \in DOMAIN planned' /\ planned'[j] = planned[j]
    BY DEF JumpAt
  <2>1. planned \in Seq(PlannedSegment) /\ planned' \in Seq(PlannedSegment)
    BY <1>1, CompilingType DEF PipelineTypeOK
  <2>2. planned' = Append(planned, planned'[Len(planned) + 1])
    BY <2>1 DEF CompileSegment
  <2>. QED
    BY <2>1, <2>2
\* A segment that does not begin where the arm is jumps.
<1>6. m # 0 => T[1].joints = joints \/ Jump(offset)
  <2>. SUFFICES ASSUME m # 0, T[1].joints # joints
                PROVE  Jump(offset)
    OBVIOUS
  <2>. DEFINE compiled == [source |-> segments[Len(planned) + 1], trajectory |-> T,
                           first |-> n, last |-> Len(waypoints'),
                           from |-> offset, to |-> offset']
  <2>1. planned' = Append(planned, compiled) /\ planned \in Seq(PlannedSegment)
    BY <1>1 DEF CompileSegment, PipelineTypeOK
  <2>3. /\ compiled.from = offset /\ compiled.trajectory = T
        /\ compiled.source = segments[Len(planned) + 1]
    OBVIOUS
  <2>. HIDE DEF compiled
  <2>4. Len(planned) + 1 \in DOMAIN planned' /\ planned'[Len(planned) + 1] = compiled
    BY <2>1
  <2>5. Jumps(compiled)
    BY <1>2, <1>4, <2>3 DEF Jumps
  <2>. QED
    BY <2>3, <2>4, <2>5
<1>7. /\ \A i, k \in 1 .. n : i < k =>
           /\ waypoints[i].at <= waypoints[k].at
           /\ waypoints[i].at = waypoints[k].at =>
                waypoints[i].joints = waypoints[k].joints \/ JumpAt(waypoints[i].at)
      /\ \A i \in 1 .. n :
           /\ waypoints[i].at <= offset
           /\ waypoints[i].at = offset => waypoints[i].joints = joints \/ JumpAt(offset)
      /\ Duration(waypoints) = offset
  BY <1>3 DEF Track, Smooth
<1>8. \A i \in 1 .. n : waypoints[i].at \in Nat
  <2>1. \A i \in 1 .. n : waypoints[i] \in Waypoint
    BY <1>1
  <2>. QED
    BY <2>1 DEF Waypoint
\* Positions of the new waypoints, in what was there or in what is appended.
<1>9. \A k \in 1 .. n + m : k \in 1 .. n \/ (k - n \in 1 .. m /\ k = n + (k - n))
  BY <1>1, <1>2
<1>. DEFINE At(k) == waypoints'[k].at
            Q(k) == waypoints'[k].joints
<1>10. \A k \in 1 .. n : At(k) = waypoints[k].at /\ Q(k) = waypoints[k].joints
  BY <1>3
<1>11. \A k \in 1 .. n + m : k \notin 1 .. n =>
         /\ At(k) = T[k - n].at + offset /\ Q(k) = T[k - n].joints
         /\ k - n \in 1 .. m
  BY <1>3, <1>9
<1>19. m # 0 => At(n + m) = T[m].at + offset /\ Q(n + m) = T[m].joints
  BY <1>2, <1>3
<1>. HIDE DEF n, m, T, At, Q, Jump
\* Among the appended, time does not go back, and where it stands so does the arm.
<1>12. ASSUME NEW i \in 1 .. n + m, NEW k \in 1 .. n + m, i < k
       PROVE  At(i) <= At(k) /\ (At(i) = At(k) => Q(i) = Q(k) \/ Jump(At(i)))
  <2>1. CASE k \in 1 .. n
    <3>1. i \in 1 .. n
      BY <1>1, <1>12, <2>1
    <3>. QED
      BY <1>5, <1>7, <1>10, <1>12, <2>1, <3>1
  <2>2. CASE k \notin 1 .. n /\ i \notin 1 .. n
    <3>1. /\ k - n \in 1 .. m /\ i - n \in 1 .. m /\ i - n < k - n
          /\ T[k - n].at \in Nat /\ T[i - n].at \in Nat
      BY <1>1, <1>2, <1>11, <1>12, <2>2
    <3>2. /\ T[i - n].at <= T[k - n].at
          /\ T[i - n].at = T[k - n].at => T[i - n].joints = T[k - n].joints
      BY <1>2, <3>1
    <3>3. /\ At(k) = T[k - n].at + offset /\ At(i) = T[i - n].at + offset
          /\ Q(k) = T[k - n].joints /\ Q(i) = T[i - n].joints
      BY <1>11, <2>2
    <3>4. offset \in Nat
      BY <1>1
    <3>. QED
      BY <3>1, <3>2, <3>3, <3>4
  <2>3. CASE k \notin 1 .. n /\ i \in 1 .. n
    <3>1. /\ k - n \in 1 .. m /\ T[k - n].at \in Nat /\ m # 0 /\ 1 \in 1 .. m
          /\ T[1].at \in Nat
      BY <1>2, <1>11, <2>3
    <3>2. At(k) = T[k - n].at + offset /\ Q(k) = T[k - n].joints
      BY <1>11, <2>3
    <3>3. /\ At(i) \in Nat /\ At(i) <= offset
          /\ At(i) = offset => Q(i) = joints \/ Jump(offset)
      BY <1>5, <1>7, <1>8, <1>10, <2>3
    <3>4. At(i) <= At(k)
      BY <1>1, <3>1, <3>2, <3>3
    <3>5. ASSUME At(i) = At(k)
          PROVE  Q(i) = Q(k) \/ Jump(At(i))
      <4>1. At(i) = offset /\ T[k - n].at = 0
        BY <1>1, <3>1, <3>2, <3>3, <3>5
      <4>2. T[1].joints = T[k - n].joints
        <5>1. CASE k - n = 1
          BY <5>1
        <5>2. CASE k - n # 1
          <6>1. 1 < k - n
            BY <1>2, <3>1, <5>2
          <6>2. T[1].at <= T[k - n].at
            BY <1>2, <3>1, <6>1
          <6>3. T[1].at = T[k - n].at
            BY <3>1, <4>1, <6>2
          <6>. QED
            BY <1>2, <3>1, <6>1, <6>3
        <5>. QED
          BY <5>1, <5>2
      <4>. QED
        BY <1>6, <3>1, <3>2, <3>3, <4>1, <4>2
    <3>. QED
      BY <3>4, <3>5
  <2>. QED
    BY <2>1, <2>2, <2>3
\* At the new offset the arm is where the segment leaves it.
<1>13. offset' \in Nat /\ offset <= offset' /\ (m = 0 => offset' = offset /\ joints' = joints)
  BY <1>1, <1>2, <1>4
<1>14. ASSUME NEW i \in 1 .. n + m
       PROVE  At(i) <= offset' /\ (At(i) = offset' => Q(i) = joints' \/ Jump(offset'))
  <2>1. CASE m = 0
    <3>1. i \in 1 .. n
      BY <1>1, <2>1
    <3>2. offset' = offset /\ joints' = joints
      BY <1>13, <2>1
    <3>. QED
      BY <1>5, <1>7, <1>10, <3>1, <3>2
  <2>2. CASE m # 0
    <3>1. n + m \in 1 .. n + m /\ n + m \notin 1 .. n /\ n + m - n = m
      BY <1>1, <1>2, <2>2
    <3>2. At(n + m) = T[m].at + offset /\ Q(n + m) = T[m].joints
      BY <1>19, <2>2
    <3>3. At(n + m) = offset' /\ Q(n + m) = joints'
      BY <1>1, <1>2, <1>4, <2>2, <3>1, <3>2
    <3>4. i = n + m \/ i < n + m
      BY <1>1, <1>2
    <3>. QED
      BY <1>12, <1>13, <3>1, <3>3, <3>4
  <2>. QED
    BY <2>1, <2>2
<1>15. Duration(waypoints)' = offset'
  <2>1. CASE m = 0
    <3>1. waypoints' = waypoints
      <4>1. waypoints' \in Seq(Waypoint)
        BY <1>1, CompilingType DEF PipelineTypeOK
      <4>. QED
        BY <1>1, <1>2, <1>3, <2>1, <4>1 DEF n
    <3>. QED
      BY <1>7, <1>13, <2>1, <3>1 DEF Duration
  <2>2. CASE m # 0
    <3>1. n + m \in 1 .. n + m /\ n + m \notin 1 .. n /\ n + m - n = m
      BY <1>1, <1>2, <2>2
    <3>2. At(n + m) = T[m].at + offset
      BY <1>19, <2>2
    <3>3. waypoints' # <<>> /\ Len(waypoints') = n + m
      BY <1>1, <1>2, <1>3, <2>2
    <3>4. Duration(waypoints)' = At(n + m)
      BY <3>3 DEF Duration, At
    <3>. QED
      BY <1>1, <1>2, <1>4, <2>2, <3>2, <3>4
  <2>. QED
    BY <2>1, <2>2
<1>16. \A i, k \in DOMAIN waypoints' : i < k =>
         /\ waypoints'[i].at <= waypoints'[k].at
         /\ waypoints'[i].at = waypoints'[k].at =>
              waypoints'[i].joints = waypoints'[k].joints \/ Jump(waypoints'[i].at)
  BY <1>3, <1>12 DEF At, Q
<1>17. \A i \in DOMAIN waypoints' :
         /\ waypoints'[i].at <= offset'
         /\ waypoints'[i].at = offset' => waypoints'[i].joints = joints' \/ Jump(offset')
  BY <1>3, <1>14 DEF At, Q
<1>. QED
  BY <1>15, <1>16, <1>17 DEF Smooth, JumpAt, Jump, Jumps, Duration

LEMMA NextTrack ==
  ASSUME IInv, Track, [Next]_vars
  PROVE  Track'
<1>1. CASE CompileSegment
  BY <1>1, LaidNext, SmoothNext DEF Track
<1>2. CASE Submitting
  BY <1>2, TrackFresh DEF Submitting, Submit, SubmitSegments, SubmitOperations
<1>3. CASE Replanning \/ Release
  BY <1>3, TrackFresh, TrackKept DEF Replanning, Replan, Fail, Release
<1>4. CASE Step /\ ~CompileSegment
  BY <1>4, TrackKept
     DEF Step, ExpandOperation, Expanded, ResolveMoveJ, ResolveMoveL, ResolveEvent,
         ResolveFails, Resolved, PushSegment, CompileFails, Compiled, Fail,
         ScheduleMotion, ScheduleEvent, Scheduled, Scheduling
<1>5. CASE UNCHANGED vars
  BY <1>5, TrackKept DEF vars
<1>. QED
  BY <1>1, <1>2, <1>3, <1>4, <1>5 DEF Next

LEMMA TrackIsSeamless ==
  ASSUME Track
  PROVE  Seamless
<1>1. \A j \in DOMAIN planned :
        LET before == planned[j - 1]
        IN  /\ planned[j].first = IF j = 1 THEN 0 ELSE before.last
            /\ planned[j].from = IF j = 1 THEN 0 ELSE before.to
            /\ planned[j].trajectory # <<>> /\ ~Jumps(planned[j]) =>
                 planned[j].trajectory[1].joints = handed[j]
  BY DEF Track, Laid, FirstOf, FromOf
<1>2. /\ \A i, k \in DOMAIN waypoints : i < k =>
           /\ waypoints[i].at <= waypoints[k].at
           /\ waypoints[i].at = waypoints[k].at =>
                waypoints[i].joints = waypoints[k].joints \/ JumpAt(waypoints[i].at)
      /\ Duration(waypoints) = offset
  BY DEF Track, Smooth
<1>. QED
  BY <1>1, <1>2 DEF Seamless, JumpAt

\* Whatever the solver and the planner of segments answer, the merged trajectory
\* is one movement (PlanCompiler::compile_segments): its segments follow each
\* other in the waypoints and in time, each begins with the configuration the one
\* before it ended in, and only a cartesian segment without a duration leaves the
\* arm in two configurations at a time.
THEOREM PlanIsSeamless == Spec => []Seamless
<1>1. Init => Track
  BY DEF Init, Track, Laid, Smooth, FirstOf, FromOf, Duration
<1>2. IInv /\ Track /\ [Next]_vars => Track'
  BY NextTrack
<1>3. Track => Seamless
  BY TrackIsSeamless
<1>. QED
  BY <1>1, <1>2, <1>3, Invariant, PTL DEF Spec

-----------------------------------------------------------------------------
(* Operations and their waypoints                                           *)

\* Segment i is one of those range k names, counted from 1.
InRange(i, k) == nodeRanges[k].first < i /\ i <= nodeRanges[k].last

\* Operations that have been expanded.
Handled == IF phase = "expand" THEN pc - 1 ELSE Len(operations)

\* The ranges lie side by side over all segments, each over those of its own
\* operation.
Ranged ==
  /\ phase = "resolve" => OfProgram
  /\ entry = "operations" /\ phase \in {"expand", "compile", "planned"} =>
       /\ phase = "expand" => pc <= Len(operations) + 1
       /\ Len(nodeRanges) = Handled
       /\ \A i \in DOMAIN segments : \E k \in DOMAIN nodeRanges : InRange(i, k)
       /\ \A k \in DOMAIN nodeRanges :
            /\ nodeRanges[k].first < nodeRanges[k].last
            /\ nodeRanges[k].last <= Len(segments)
            /\ \A i \in DOMAIN segments :
                 InRange(i, k) => segments[i].origin = operations[k].origin
       /\ \A k, l \in DOMAIN nodeRanges : k < l => nodeRanges[k].last <= nodeRanges[l].first

\* Segments lie side by side in the waypoints.
Abreast ==
  /\ \A j \in DOMAIN planned :
       planned[j].first <= planned[j].last /\ planned[j].last <= Len(waypoints)
  /\ \A i, j \in DOMAIN planned : i < j => planned[i].last <= planned[j].first

\* An operation has segments, all of its own origin.
LEMMA Expansion ==
  ASSUME NEW operation \in Operation
  PROVE  /\ Expand(operation) \in Seq(Segment \cup EditorSegments)
         /\ Len(Expand(operation)) \in Nat \ {0}
         /\ \A i \in 1 .. Len(Expand(operation)) :
              Expand(operation)[i].origin = operation.origin
<1>1. Nodes(operation) \in Nat \ {0}
  BY DEF Nodes, Operation
<1>2. Len(Expand(operation)) = Nodes(operation)
  BY <1>1 DEF Expand
<1>3. \A i \in 1 .. Nodes(operation) : Expand(operation)[i].origin = operation.origin
  BY <1>1 DEF Expand
<1>. QED
  BY <1>1, <1>2, <1>3, ExpandType

LEMMA RangedNext ==
  ASSUME IInv, Ranged, ExpandOperation, entry = "operations"
  PROVE  Ranged'
<1>. DEFINE n == Len(segments)
            e == Expand(operations[pc])
            r == [first |-> Len(segments), last |-> Len(segments')]
            In(i, k) == nodeRanges'[k].first < i /\ i <= nodeRanges'[k].last
<1>1. /\ segments \in Seq(Segment \cup EditorSegments) /\ n \in Nat
      /\ nodeRanges \in Seq([first : Nat, last : Nat])
      /\ operations \in Seq(Operation) /\ pc \in Nat \ {0}
  BY DEF IInv, PipelineTypeOK
<1>2. /\ phase = "expand" /\ phase' = phase /\ entry' = entry /\ operations' = operations
      /\ pc <= Len(operations) /\ pc' = pc + 1
      /\ segments' = segments \o e /\ nodeRanges' = Append(nodeRanges, r)
  BY DEF ExpandOperation, requestVars
<1>3. operations[pc] \in Operation
  BY <1>1, <1>2
<1>4. /\ e \in Seq(Segment \cup EditorSegments) /\ Len(e) \in Nat \ {0}
      /\ \A i \in 1 .. Len(e) : e[i].origin = operations[pc].origin
  BY <1>3, Expansion
<1>. HIDE DEF e
<1>5. /\ Len(segments') = n + Len(e) /\ DOMAIN segments' = 1 .. n + Len(e)
      /\ DOMAIN segments = 1 .. n
      /\ \A i \in 1 .. n : segments'[i] = segments[i]
      /\ \A i \in 1 .. Len(e) : segments'[n + i] = e[i]
  BY <1>1, <1>2, <1>4, Joined
<1>6. r.first = n /\ r.last = n + Len(e)
  BY <1>5
<1>. HIDE DEF r
<1>7. /\ Len(nodeRanges) = pc - 1 /\ DOMAIN nodeRanges = 1 .. pc - 1
      /\ DOMAIN nodeRanges' = 1 .. pc /\ Len(nodeRanges') = pc
      /\ \A k \in 1 .. pc - 1 : nodeRanges'[k] = nodeRanges[k]
      /\ nodeRanges'[pc] = r
  BY <1>1, <1>2 DEF Ranged, Handled
<1>8. \A k \in 1 .. pc - 1 : nodeRanges[k].first \in Nat /\ nodeRanges[k].last \in Nat
  <2>1. \A k \in DOMAIN nodeRanges : nodeRanges[k] \in [first : Nat, last : Nat]
    BY <1>1, Elements
  <2>. QED
    BY <1>7, <2>1
<1>9. /\ \A i \in 1 .. n : \E k \in 1 .. pc - 1 : InRange(i, k)
      /\ \A k \in 1 .. pc - 1 :
           /\ nodeRanges[k].first < nodeRanges[k].last /\ nodeRanges[k].last <= n
           /\ \A i \in 1 .. n : InRange(i, k) => segments[i].origin = operations[k].origin
      /\ \A k, l \in 1 .. pc - 1 : k < l => nodeRanges[k].last <= nodeRanges[l].first
  BY <1>2, <1>5, <1>7 DEF Ranged
<1>10. /\ \A i, k : k \in 1 .. pc - 1 => (In(i, k) <=> InRange(i, k))
       /\ \A i \in 1 .. n + Len(e) : In(i, pc) <=> i \notin 1 .. n
  <2>1. \A i, k : k \in 1 .. pc - 1 => (In(i, k) <=> InRange(i, k))
    BY <1>7 DEF InRange
  <2>2. \A i : In(i, pc) <=> n < i /\ i <= n + Len(e)
    BY <1>6, <1>7
  <2>. HIDE DEF In
  <2>. QED
    BY <1>1, <1>4, <2>1, <2>2
<1>. HIDE DEF In
<1>11. \A k \in 1 .. pc : k \in 1 .. pc - 1 \/ k = pc
  BY <1>1
<1>12. ASSUME NEW i \in 1 .. n + Len(e)
       PROVE  \E k \in 1 .. pc : In(i, k)
  <2>1. CASE i \in 1 .. n
    <3>1. PICK k \in 1 .. pc - 1 : InRange(i, k)
      BY <1>9, <2>1
    <3>2. k \in 1 .. pc
      BY <1>1, <3>1
    <3>. QED
      BY <1>10, <3>1, <3>2
  <2>2. CASE i \notin 1 .. n
    BY <1>1, <1>10, <2>2
  <2>. QED
    BY <2>1, <2>2
<1>13. ASSUME NEW k \in 1 .. pc
       PROVE  /\ nodeRanges'[k].first < nodeRanges'[k].last
              /\ nodeRanges'[k].last <= Len(segments')
              /\ \A i \in 1 .. n + Len(e) :
                   In(i, k) => segments'[i].origin = operations[k].origin
  <2>1. CASE k \in 1 .. pc - 1
    <3>1. nodeRanges'[k].first < nodeRanges'[k].last /\ nodeRanges'[k].last <= Len(segments')
      <4>1. /\ nodeRanges'[k] = nodeRanges[k] /\ nodeRanges[k].last \in Nat
            /\ nodeRanges[k].first < nodeRanges[k].last /\ nodeRanges[k].last <= n
        BY <1>7, <1>8, <1>9, <2>1
      <4>. QED
        BY <1>1, <1>4, <1>5, <4>1
    <3>2. ASSUME NEW i \in 1 .. n + Len(e), In(i, k)
          PROVE  segments'[i].origin = operations[k].origin
      <4>1. InRange(i, k)
        BY <1>10, <2>1, <3>2
      <4>2. i \in 1 .. n
        BY <1>1, <1>4, <1>8, <1>9, <2>1, <4>1 DEF InRange
      <4>. QED
        BY <1>5, <1>9, <2>1, <4>1, <4>2
    <3>. QED
      BY <1>10, <2>1, <3>1, <3>2
  <2>2. CASE k = pc
    <3>1. nodeRanges'[k].first < nodeRanges'[k].last /\ nodeRanges'[k].last <= Len(segments')
      BY <1>1, <1>4, <1>5, <1>6, <1>7, <2>2
    <3>2. ASSUME NEW i \in 1 .. n + Len(e), In(i, pc)
          PROVE  segments'[i].origin = operations[k].origin
      <4>1. i \notin 1 .. n
        BY <1>10, <3>2
      <4>2. i - n \in 1 .. Len(e) /\ n + (i - n) = i
        BY <1>1, <1>4, <4>1
      <4>. QED
        BY <1>4, <1>5, <2>2, <4>2
    <3>. QED
      BY <2>2, <3>1, <3>2
  <2>. QED
    BY <1>11, <2>1, <2>2
<1>14. ASSUME NEW k \in 1 .. pc, NEW l \in 1 .. pc, k < l
       PROVE  nodeRanges'[k].last <= nodeRanges'[l].first
  <2>1. k \in 1 .. pc - 1
    BY <1>1, <1>14
  <2>2. CASE l \in 1 .. pc - 1
    BY <1>7, <1>9, <1>14, <2>1, <2>2
  <2>3. CASE l = pc
    BY <1>6, <1>7, <1>9, <2>1, <2>3
  <2>. QED
    BY <1>11, <2>2, <2>3
<1>15. pc' <= Len(operations') + 1 /\ Handled' = pc /\ phase' # "resolve"
  BY <1>1, <1>2 DEF Handled
<1>16. /\ Len(nodeRanges') = Handled'
       /\ \A i \in DOMAIN segments' : \E k \in DOMAIN nodeRanges' : InRange(i, k)'
       /\ \A k \in DOMAIN nodeRanges' :
            /\ nodeRanges'[k].first < nodeRanges'[k].last
            /\ nodeRanges'[k].last <= Len(segments')
            /\ \A i \in DOMAIN segments' :
                 InRange(i, k)' => segments'[i].origin = operations[k].origin
       /\ \A k, l \in DOMAIN nodeRanges' : k < l => nodeRanges'[k].last <= nodeRanges'[l].first
  BY <1>5, <1>7, <1>12, <1>13, <1>14, <1>15 DEF InRange, In
<1>. QED
  BY <1>2, <1>15, <1>16 DEF Ranged

LEMMA RangedKept ==
  ASSUME Ranged, Handled' = Handled, entry' = entry,
         phase' = "resolve" => phase = "resolve", phase' = "expand" => phase = "expand" /\ pc' = pc,
         phase' \in {"expand", "compile", "planned"} =>
           phase \in {"expand", "compile", "planned"} \/ OfProgram,
         UNCHANGED <<segments, nodeRanges, operations>>
  PROVE  Ranged'
BY DEF Ranged, InRange, OfProgram

LEMMA RangedFresh ==
  ASSUME NEW list, NEW at, Fresh(list, at), operations' \in Seq(Operation),
         phase' = "resolve" => OfProgram', phase' # "planned",
         entry' = "operations" => list = <<>> /\ phase' = "expand"
  PROVE  Ranged'
<1>. SUFFICES ASSUME entry' = "operations", phase' \in {"expand", "compile", "planned"}
              PROVE  Ranged'
  BY DEF Ranged
<1>1. /\ segments' = <<>> /\ nodeRanges' = <<>> /\ pc' = 1 /\ phase' = "expand"
      /\ Len(operations') \in Nat
  BY DEF Fresh
<1>2. DOMAIN segments' = {} /\ DOMAIN nodeRanges' = {} /\ Len(nodeRanges') = 0
  BY <1>1
<1>. QED
  BY <1>1, <1>2 DEF Ranged, Handled

LEMMA NextRanged ==
  ASSUME IInv, Ranged, [Next]_vars
  PROVE  Ranged'
<1>0. pc \in Nat \ {0} /\ Len(operations) \in Nat /\ operations \in Seq(Operation)
  BY DEF IInv, PipelineTypeOK
<1>1. CASE ExpandOperation
  <2>1. CASE entry = "operations"
    BY <1>1, <2>1, RangedNext
  <2>2. CASE entry # "operations"
    BY <1>1, <2>2 DEF ExpandOperation, Ranged, requestVars
  <2>. QED
    BY <2>1, <2>2
<1>2. CASE Expanded
  <2>1. /\ phase = "expand" /\ phase' = "compile" /\ entry' = entry /\ pc' = pc
        /\ operations' = operations /\ pc > Len(operations)
        /\ segments' = segments /\ nodeRanges' = nodeRanges
    BY <1>2 DEF Expanded, requestVars, resolverVars
  <2>2. CASE entry = "operations"
    <3>1. Handled' = Handled
      BY <1>0, <2>1, <2>2 DEF Ranged, Handled
    <3>. QED
      BY <2>1, <3>1, RangedKept
  <2>3. CASE entry # "operations"
    BY <2>1, <2>3 DEF Ranged
  <2>. QED
    BY <2>2, <2>3
<1>3. CASE ResolveMoveJ \/ ResolveMoveL \/ ResolveEvent \/ ResolveFails \/ Resolved
  <2>1. OfProgram
    BY <1>3 DEF ResolveMoveJ, ResolveMoveL, ResolveEvent, ResolveFails, Resolved,
       Resolving, Ranged
  <2>2. entry' = entry
    BY <1>3 DEF ResolveMoveJ, ResolveMoveL, ResolveEvent, ResolveFails, Resolved,
       PushSegment, Fail, requestVars
  <2>. QED
    BY <2>1, <2>2 DEF Ranged, OfProgram
<1>4. CASE CompileSegment \/ CompileFails \/ Compiled
  BY <1>4, RangedKept
     DEF CompileSegment, CompileFails, Compiled, Compiling, Fail, Handled, requestVars,
         resolverVars
<1>5. CASE ScheduleMotion \/ ScheduleEvent \/ Scheduled
  <2>1. OfProgram /\ entry' = entry /\ phase' # "resolve"
    BY <1>5 DEF ScheduleMotion, ScheduleEvent, Scheduled, Scheduling, requestVars, IInv,
       Placed
  <2>. QED
    BY <2>1 DEF Ranged, OfProgram
<1>6. CASE Submitting
  <2>1. PICK q \in Starts :
          \/ \E instructions \in Programs : Submit(instructions, q)
          \/ \E list \in SegmentPrograms : SubmitSegments(list, q)
          \/ \E list \in OperationPrograms : SubmitOperations(list, q)
    BY <1>6 DEF Submitting
  <2>2. ASSUME NEW instructions \in Programs, Submit(instructions, q)
        PROVE  Ranged'
    BY <2>2, RangedFresh DEF Submit, OfProgram
  <2>3. ASSUME NEW list \in SegmentPrograms, SubmitSegments(list, q)
        PROVE  Ranged'
    BY <2>3, RangedFresh DEF SubmitSegments
  <2>4. ASSUME NEW list \in OperationPrograms, SubmitOperations(list, q)
        PROVE  Ranged'
    BY <2>4, RangedFresh, RequestAssumption DEF SubmitOperations
  <2>. QED
    BY <2>1, <2>2, <2>3, <2>4
<1>7. CASE Replanning \/ Release
  <2>1. CASE Fail
    BY <2>1, RangedKept DEF Fail, Handled, requestVars, resolverVars, Ranged
  <2>2. CASE ~Fail
    BY <1>7, <2>2 DEF Replanning, Replan, Release, Fresh, Ranged, OfProgram
  <2>. QED
    BY <2>1, <2>2
<1>8. CASE UNCHANGED vars
  BY <1>8, RangedKept DEF vars, requestVars, resolverVars, Handled
<1>. QED
  BY <1>1, <1>2, <1>3, <1>4, <1>5, <1>6, <1>7, <1>8 DEF Next, Step

LEMMA AbreastNext ==
  ASSUME IInv, Abreast, CompileSegment
  PROVE  Abreast'
<1>. DEFINE n == Len(planned)
            compiled == [source |-> segments[n + 1], trajectory |-> Trajectory,
                         first |-> Len(waypoints), last |-> Len(waypoints'),
                         from |-> offset, to |-> offset']
<1>1. /\ planned \in Seq(PlannedSegment) /\ n \in Nat /\ PipelineTypeOK
      /\ planned' = Append(planned, compiled)
  BY DEF IInv, PipelineTypeOK, CompileSegment
<1>2. compiled.first = Len(waypoints) /\ compiled.last = Len(waypoints')
  OBVIOUS
<1>. HIDE DEF compiled
<1>3. /\ \A j \in 1 .. n : planned'[j] = planned[j]
      /\ planned'[n + 1] = compiled /\ DOMAIN planned' = 1 .. n + 1 /\ DOMAIN planned = 1 .. n
  BY <1>1
<1>4. /\ Len(waypoints) \in Nat /\ Len(waypoints') \in Nat
      /\ Len(waypoints) <= Len(waypoints')
  BY <1>1, Merged, TrajectoryShape
<1>5. \A j \in 1 .. n : planned[j].last \in Nat
  <2>1. \A j \in DOMAIN planned : planned[j] \in PlannedSegment
    BY <1>1, Elements
  <2>. QED
    BY <1>3, <2>1 DEF PlannedSegment
<1>6. /\ \A j \in 1 .. n : planned[j].first <= planned[j].last /\ planned[j].last <= Len(waypoints)
      /\ \A i, j \in 1 .. n : i < j => planned[i].last <= planned[j].first
  BY <1>3 DEF Abreast
<1>. HIDE DEF n
<1>7. \A j \in 1 .. n + 1 : j \in 1 .. n \/ j = n + 1
  BY <1>1
<1>8. ASSUME NEW j \in 1 .. n + 1
      PROVE  planned'[j].first <= planned'[j].last /\ planned'[j].last <= Len(waypoints')
  BY <1>2, <1>3, <1>4, <1>5, <1>6, <1>7
<1>9. ASSUME NEW i \in 1 .. n + 1, NEW j \in 1 .. n + 1, i < j
      PROVE  planned'[i].last <= planned'[j].first
  <2>1. i \in 1 .. n
    BY <1>1, <1>9
  <2>. QED
    BY <1>2, <1>3, <1>6, <1>7, <1>9, <2>1
<1>. QED
  BY <1>3, <1>8, <1>9 DEF Abreast

LEMMA NextAbreast ==
  ASSUME IInv, Abreast, [Next]_vars
  PROVE  Abreast'
<1>1. CASE CompileSegment
  BY <1>1, AbreastNext
<1>2. CASE Submitting \/ (Replanning /\ ~Fail) \/ Release
  <2>1. planned' = <<>>
    BY <1>2 DEF Submitting, Submit, SubmitSegments, SubmitOperations, Replanning, Replan,
       Release, Fresh
  <2>. QED
    BY <2>1 DEF Abreast
<1>3. CASE (Step \/ Fail \/ UNCHANGED vars) /\ ~CompileSegment
  <2>1. UNCHANGED compilerVars
    BY <1>3
       DEF Step, ExpandOperation, Expanded, ResolveMoveJ, ResolveMoveL, ResolveEvent,
           ResolveFails, Resolved, PushSegment, CompileFails, Compiled, Fail,
           ScheduleMotion, ScheduleEvent, Scheduled, Scheduling, vars
  <2>. QED
    BY <2>1 DEF Abreast, compilerVars
<1>. QED
  BY <1>1, <1>2, <1>3 DEF Next

\* A waypoint of a segment is in the range of the operation the segment was made
\* for, and in no other.
LEMMA OneRange ==
  ASSUME IInv, Ranged, Abreast, phase = "planned", entry = "operations",
         NEW j \in DOMAIN planned, NEW w \in Nat,
         planned[j].first < w, w <= planned[j].last
  PROVE  \E k \in DOMAIN operations :
           /\ operations[k].origin = planned[j].source.origin
           /\ \A l \in DOMAIN operations :
                WaypointRange(l).first <= w - 1 /\ w - 1 < WaypointRange(l).last <=> l = k
<1>1. /\ planned \in Seq(PlannedSegment) /\ nodeRanges \in Seq([first : Nat, last : Nat])
      /\ segments \in Seq(Segment \cup EditorSegments) /\ operations \in Seq(Operation)
  BY DEF IInv, PipelineTypeOK
<1>2. /\ Linked /\ Len(planned) = Len(segments)
  BY DEF IInv, Chain
<1>3. /\ planned[j].source = segments[j] /\ j \in DOMAIN segments
      /\ DOMAIN planned = 1 .. Len(segments) /\ Len(segments) \in Nat
  BY <1>1, <1>2 DEF Linked
<1>4. /\ DOMAIN nodeRanges = DOMAIN operations
      /\ DOMAIN operations = 1 .. Len(operations) /\ Len(operations) \in Nat
  BY <1>1 DEF Ranged, Handled
<1>5. /\ \A i \in DOMAIN planned : planned[i].first \in Nat /\ planned[i].last \in Nat
      /\ \A k \in DOMAIN operations : nodeRanges[k].first \in Nat /\ nodeRanges[k].last \in Nat
  <2>1. \A i \in DOMAIN planned : planned[i] \in PlannedSegment
    BY <1>1, Elements
  <2>2. \A k \in DOMAIN nodeRanges : nodeRanges[k] \in [first : Nat, last : Nat]
    BY <1>1, Elements
  <2>. QED
    BY <1>4, <2>1, <2>2 DEF PlannedSegment
<1>6. /\ \E k \in DOMAIN operations : InRange(j, k)
      /\ \A k \in DOMAIN operations :
           /\ nodeRanges[k].first < nodeRanges[k].last /\ nodeRanges[k].last <= Len(segments)
           /\ InRange(j, k) => segments[j].origin = operations[k].origin
      /\ \A k, l \in DOMAIN operations : k < l => nodeRanges[k].last <= nodeRanges[l].first
  BY <1>3, <1>4 DEF Ranged
<1>7. PICK k \in DOMAIN operations : InRange(j, k)
  BY <1>6
<1>8. operations[k].origin = planned[j].source.origin
  BY <1>3, <1>6, <1>7
\* What comes before in the segments comes before in the waypoints.
<1>9. \A i \in DOMAIN planned :
        /\ i <= j => planned[i].first <= planned[j].first
        /\ j <= i => planned[j].last <= planned[i].last
        /\ i < j => planned[i].last <= planned[j].first
        /\ j < i => planned[j].last <= planned[i].first
  <2>. SUFFICES ASSUME NEW i \in DOMAIN planned
                PROVE  /\ i <= j => planned[i].first <= planned[j].first
                       /\ j <= i => planned[j].last <= planned[i].last
                       /\ i < j => planned[i].last <= planned[j].first
                       /\ j < i => planned[j].last <= planned[i].first
    OBVIOUS
  <2>1. i \in Nat /\ j \in Nat
    BY <1>3
  <2>2. /\ planned[i].first <= planned[i].last /\ planned[j].first <= planned[j].last
        /\ i < j => planned[i].last <= planned[j].first
        /\ j < i => planned[j].last <= planned[i].first
    BY DEF Abreast
  <2>. QED
    BY <1>5, <2>1, <2>2
<1>10. ASSUME NEW l \in DOMAIN operations
       PROVE  WaypointRange(l).first <= w - 1 /\ w - 1 < WaypointRange(l).last <=> l = k
  <2>. DEFINE a == nodeRanges[l].first + 1
              b == nodeRanges[l].last
  <2>1. /\ a \in DOMAIN planned /\ b \in DOMAIN planned /\ a <= b /\ a \in Nat /\ b \in Nat
        /\ j \in Nat /\ l \in Nat /\ k \in Nat
    <3>1. /\ nodeRanges[l].first \in Nat /\ nodeRanges[l].last \in Nat
          /\ nodeRanges[l].first < nodeRanges[l].last /\ nodeRanges[l].last <= Len(segments)
      BY <1>5, <1>6
    <3>. QED
      BY <1>3, <1>4, <3>1
  <2>2. WaypointRange(l).first = planned[a].first /\ WaypointRange(l).last = planned[b].last
    BY DEF WaypointRange
  <2>3. /\ planned[a].first \in Nat /\ planned[b].last \in Nat
        /\ planned[j].first \in Nat /\ planned[j].last \in Nat
    BY <1>5, <2>1
  <2>4. CASE l = k
    <3>1. a <= j /\ j <= b
      BY <1>5, <1>7, <2>1, <2>4 DEF InRange
    <3>2. planned[a].first <= planned[j].first /\ planned[j].last <= planned[b].last
      BY <1>9, <2>1, <3>1
    <3>. QED
      BY <2>2, <2>3, <2>4, <3>2
  <2>5. CASE l < k
    <3>1. b < j
      BY <1>5, <1>6, <1>7, <2>1, <2>5 DEF InRange
    <3>2. planned[b].last <= planned[j].first
      BY <1>9, <2>1, <3>1
    <3>. QED
      BY <2>1, <2>2, <2>3, <2>5, <3>2
  <2>6. CASE k < l
    <3>1. j < a
      BY <1>5, <1>6, <1>7, <2>1, <2>6 DEF InRange
    <3>2. planned[j].last <= planned[a].first
      BY <1>9, <2>1, <3>1
    <3>. QED
      BY <2>1, <2>2, <2>3, <2>6, <3>2
  <2>. QED
    BY <2>1, <2>4, <2>5, <2>6
<1>. QED
  BY <1>8, <1>10

LEMMA RangesConstrain ==
  ASSUME IInv, Ranged, Abreast
  PROVE  WaypointsAreConstrained
<1>. SUFFICES ASSUME phase = "planned", entry = "operations", NEW j \in DOMAIN planned,
                     NEW w \in DOMAIN waypoints,
                     planned[j].first < w, w <= planned[j].last
              PROVE  /\ ConstrainedBy(w - 1) # 0
                     /\ operations[ConstrainedBy(w - 1)].origin = planned[j].source.origin
  BY DEF WaypointsAreConstrained
<1>1. w \in Nat
  BY DEF IInv, PipelineTypeOK
<1>2. PICK k \in DOMAIN operations :
        /\ operations[k].origin = planned[j].source.origin
        /\ \A l \in DOMAIN operations :
             WaypointRange(l).first <= w - 1 /\ w - 1 < WaypointRange(l).last <=> l = k
  BY <1>1, OneRange
<1>3. {l \in DOMAIN operations :
         WaypointRange(l).first <= w - 1 /\ w - 1 < WaypointRange(l).last} = {k}
  BY <1>2
<1>4. k \in Nat \ {0}
  BY DEF IInv, PipelineTypeOK
<1>5. Min({k}) = k
  <2>1. k <= k
    BY <1>4
  <2>. QED
    BY <2>1 DEF Min
<1>6. ConstrainedBy(w - 1) = k
  BY <1>3, <1>5 DEF ConstrainedBy
<1>. QED
  BY <1>2, <1>4, <1>6

\* Whatever operations are planned, each waypoint is under the constraints of the
\* operation its segment belongs to, and of that one alone
\* (compile_with_operations, RangeConstraintQuery): ranges counted in segments
\* stay apart when they are counted in waypoints.
THEOREM OperationsConstrainTheirOwn == Spec => []WaypointsAreConstrained
<1>1. Init => Ranged /\ Abreast
  BY DEF Init, Ranged, Abreast
<1>2. IInv /\ Ranged /\ Abreast /\ [Next]_vars => Ranged' /\ Abreast'
  BY NextRanged, NextAbreast
<1>3. IInv /\ Ranged /\ Abreast => WaypointsAreConstrained
  BY RangesConstrain
<1>. QED
  BY <1>1, <1>2, <1>3, Invariant, PTL DEF Spec

-----------------------------------------------------------------------------
(* Events and the arm                                                       *)

\* What holds of some naturals holds of a smallest one.
LEMMA Smallest ==
  ASSUME NEW T, T \subseteq Nat, T # {}
  PROVE  \E m \in T : \A n \in T : m <= n
<1>. DEFINE R == OpToRel(<, Nat)
<1>1. IsWellFoundedOn(R, Nat)
  BY NatLessThanWellFounded
<1>2. \A a, b \in Nat : a < b => <<a, b>> \in R
  BY DEF OpToRel
<1>. HIDE DEF R
<1>3. PICK m \in T : \A n \in T : ~(<<n, m>> \in R)
  BY <1>1, WFMin
<1>4. ASSUME NEW n \in T
      PROVE  m <= n
  <2>1. n \in Nat /\ m \in Nat
    OBVIOUS
  <2>2. ~(n < m)
    BY <1>2, <1>3, <2>1
  <2>. QED
    BY <2>1, <2>2
<1>. QED
  BY <1>4

\* n maps of S into itself, one for each step.
Steps(S, n) == [1 .. n -> [S -> S]]

\* The ways step after step from a.
Ways(S, a, n, step) ==
  {f \in [0 .. n -> S] : f[0] = a /\ \A k \in 1 .. n : f[k] = step[k][f[k - 1]]}

\* Steps taken one after the other lead somewhere.
LEMMA Iterate ==
  ASSUME NEW S, NEW a \in S, NEW n \in Nat, NEW step \in Steps(S, n)
  PROVE  Ways(S, a, n, step) # {}
<1>. DEFINE Way(f, m) ==
              /\ f \in [0 .. m -> S] /\ f[0] = a
              /\ \A k \in 1 .. m : f[k] = step[k][f[k - 1]]
            T == {m \in 0 .. n : ~ \E f : Way(f, m)}
<1>0. step \in [1 .. n -> [S -> S]]
  BY DEF Steps
<1>1. SUFFICES ASSUME T # {} PROVE FALSE
  <2>1. T = {} => \E f : Way(f, n)
    OBVIOUS
  <2>. QED
    BY <2>1 DEF Ways
<1>2. PICK m \in T : \A k \in T : m <= k
  <2>1. T \subseteq Nat
    OBVIOUS
  <2>. HIDE DEF T
  <2>. QED
    BY <1>1, <2>1, Smallest
<1>3. m \in 0 .. n /\ ~ \E f : Way(f, m)
  OBVIOUS
<1>4. CASE m = 0
  <2>. DEFINE g == [k \in 0 .. 0 |-> a]
  <2>1. g \in [0 .. 0 -> S] /\ g[0] = a /\ 1 .. 0 = {}
    OBVIOUS
  <2>. HIDE DEF g
  <2>2. Way(g, 0)
    BY <2>1
  <2>. QED
    BY <1>3, <1>4, <2>2
<1>5. CASE m # 0
  <2>1. m - 1 \in 0 .. n /\ ~(m <= m - 1)
    BY <1>3, <1>5
  <2>2. PICK f : Way(f, m - 1)
    <3>1. m - 1 \in T => FALSE
      <4>. HIDE DEF T
      <4>. QED
        BY <1>2, <2>1
    <3>. HIDE DEF Way
    <3>. QED
      BY <2>1, <3>1
  <2>. DEFINE g == [k \in 0 .. m |-> IF k = m THEN step[m][f[m - 1]] ELSE f[k]]
  <2>3. /\ \A k \in 0 .. m - 1 : g[k] = f[k] /\ f[k] \in S
        /\ g[m] = step[m][f[m - 1]] /\ m - 1 \in 0 .. m - 1 /\ 0 \in 0 .. m - 1
        /\ m \in 1 .. n
    BY <1>3, <1>5, <2>2
  <2>4. step[m][f[m - 1]] \in S
    BY <1>0, <2>3
  <2>5. \A k \in 0 .. m : k = m \/ k \in 0 .. m - 1
    BY <1>3
  <2>6. g \in [0 .. m -> S]
    <3>1. \A k \in 0 .. m : g[k] \in S
      <4>. HIDE DEF g
      <4>. QED
        BY <2>3, <2>4, <2>5
    <3>. QED
      BY <3>1
  <2>7. \A k \in 1 .. m : g[k] = step[k][g[k - 1]]
    <3>. SUFFICES ASSUME NEW k \in 1 .. m PROVE g[k] = step[k][g[k - 1]]
      OBVIOUS
    <3>. HIDE DEF g
    <3>1. CASE k = m
      BY <2>3, <3>1
    <3>2. CASE k # m
      <4>1. k \in 0 .. m - 1 /\ k - 1 \in 0 .. m - 1 /\ k \in 1 .. m - 1
        BY <1>3, <3>2
      <4>2. f[k] = step[k][f[k - 1]]
        BY <2>2, <4>1
      <4>. QED
        BY <2>3, <4>1, <4>2
    <3>. QED
      BY <3>1, <3>2
  <2>8. g[0] = a
    <3>. HIDE DEF g
    <3>. QED
      BY <2>2, <2>3
  <2>9. Way(g, m)
    <3>. HIDE DEF g
    <3>. QED
      BY <2>6, <2>7, <2>8
  <2>. QED
    BY <1>3, <2>9
<1>. QED
  BY <1>4, <1>5

\* f sums up the pauses of the first count events.
Sums(f, list, count) ==
  /\ f \in [0 .. count -> Nat] /\ f[0] = 0
  /\ \A k \in 1 .. count : f[k] = f[k - 1] + Pause(list[k])

LEMMA PauseType ==
  ASSUME NEW list \in Seq(TimedEvent), NEW k \in 1 .. Len(list)
  PROVE  Pause(list[k]) \in Nat
<1>1. list[k] \in TimedEvent
  OBVIOUS
<1>. QED
  BY <1>1 DEF Pause, TimedEvent

\* There are such sums: a list has no shortest beginning without them.
LEMMA SumsExist ==
  ASSUME NEW list \in Seq(TimedEvent), NEW count \in 0 .. Len(list)
  PROVE  \E f : Sums(f, list, count)
<1>. DEFINE T == {n \in 0 .. Len(list) : ~ \E f : Sums(f, list, n)}
<1>1. SUFFICES ASSUME T # {} PROVE FALSE
  OBVIOUS
<1>2. PICK m \in T : \A n \in T : m <= n
  <2>1. T \subseteq Nat
    OBVIOUS
  <2>. HIDE DEF T
  <2>. QED
    BY <1>1, <2>1, Smallest
<1>3. m \in 0 .. Len(list) /\ m \in Nat /\ ~ \E f : Sums(f, list, m)
  OBVIOUS
<1>4. CASE m = 0
  <2>1. Sums([k \in 0 .. 0 |-> 0], list, 0)
    BY DEF Sums
  <2>. QED
    BY <1>3, <1>4, <2>1
<1>5. CASE m # 0
  <2>1. m - 1 \in 0 .. Len(list) /\ m - 1 \notin T
    BY <1>2, <1>3, <1>5
  <2>2. PICK f : Sums(f, list, m - 1)
    BY <2>1
  <2>. DEFINE g == [k \in 0 .. m |-> IF k = m THEN f[m - 1] + Pause(list[m]) ELSE f[k]]
  <2>3. /\ \A k \in 0 .. m - 1 : g[k] = f[k] /\ f[k] \in Nat
        /\ g[m] = f[m - 1] + Pause(list[m]) /\ m - 1 \in 0 .. m - 1
    BY <1>3, <1>5, <2>2 DEF Sums
  <2>4. Pause(list[m]) \in Nat
    BY <1>3, <1>5, PauseType
  <2>5. g \in [0 .. m -> Nat] /\ g[0] = 0
    <3>1. \A k \in 0 .. m : g[k] \in Nat
      <4>. SUFFICES ASSUME NEW k \in 0 .. m PROVE g[k] \in Nat
        OBVIOUS
      <4>1. k = m \/ k \in 0 .. m - 1
        BY <1>3
      <4>. HIDE DEF g
      <4>2. CASE k = m
        BY <2>3, <2>4, <4>2
      <4>3. CASE k \in 0 .. m - 1
        BY <2>3, <4>3
      <4>. QED
        BY <4>1, <4>2, <4>3
    <3>2. g[0] = 0
      BY <1>3, <1>5, <2>2 DEF Sums
    <3>. QED
      BY <3>1, <3>2
  <2>6. \A k \in 1 .. m : g[k] = g[k - 1] + Pause(list[k])
    <3>. SUFFICES ASSUME NEW k \in 1 .. m PROVE g[k] = g[k - 1] + Pause(list[k])
      OBVIOUS
    <3>. HIDE DEF g
    <3>1. CASE k = m
      BY <2>3, <3>1
    <3>2. CASE k # m
      <4>1. k \in 0 .. m - 1 /\ k - 1 \in 0 .. m - 1 /\ k \in 1 .. m - 1
        BY <1>3, <3>2
      <4>2. f[k] = f[k - 1] + Pause(list[k])
        BY <2>2, <4>1 DEF Sums
      <4>. QED
        BY <2>3, <4>1, <4>2
    <3>. QED
      BY <3>1, <3>2
  <2>7. Sums(g, list, m)
    <3>. HIDE DEF g
    <3>. QED
      BY <2>5, <2>6 DEF Sums
  <2>. QED
    BY <1>3, <2>7
<1>. QED
  BY <1>4, <1>5

\* The recursive function is one of them.
LEMMA DelaysSum ==
  ASSUME NEW list \in Seq(TimedEvent)
  PROVE  Sums(Delays(list), list, Len(list))
<1>. DEFINE P(f) == f = [k \in 0 .. Len(list) |->
                           IF k = 0 THEN 0 ELSE f[k - 1] + Pause(list[k])]
<1>1. Len(list) \in Nat
  OBVIOUS
<1>2. PICK f : Sums(f, list, Len(list))
  BY <1>1, SumsExist
<1>3. P(f)
  <2>1. f = [k \in 0 .. Len(list) |-> f[k]]
    BY <1>2 DEF Sums
  <2>2. \A k \in 0 .. Len(list) : f[k] = IF k = 0 THEN 0 ELSE f[k - 1] + Pause(list[k])
    BY <1>1, <1>2 DEF Sums
  <2>. QED
    BY <2>1, <2>2
<1>4. Delays(list) = CHOOSE g : P(g)
  BY DEF Delays
<1>5. P(Delays(list))
  <2>1. \E g : P(g)
    BY <1>3
  <2>. HIDE DEF P
  <2>. QED
    BY <1>4, <2>1
<1>. DEFINE d == Delays(list)
<1>6. d = [k \in 0 .. Len(list) |-> IF k = 0 THEN 0 ELSE d[k - 1] + Pause(list[k])]
  BY <1>5
<1>. HIDE DEF d
<1>7. d[0] = 0 /\ \A k \in 1 .. Len(list) : d[k] = d[k - 1] + Pause(list[k])
  BY <1>1, <1>6
<1>8. \A k \in 0 .. Len(list) : d[k] \in Nat
  <2>. DEFINE T == {k \in 0 .. Len(list) : d[k] \notin Nat}
  <2>1. SUFFICES ASSUME T # {} PROVE FALSE
    OBVIOUS
  <2>2. PICK m \in T : \A n \in T : m <= n
    <3>1. T \subseteq Nat
      OBVIOUS
    <3>. HIDE DEF T
    <3>. QED
      BY <2>1, <3>1, Smallest
  <2>3. m \in 0 .. Len(list) /\ d[m] \notin Nat /\ m # 0
    BY <1>7
  <2>4. m - 1 \in 0 .. Len(list) /\ m - 1 \notin T /\ m \in 1 .. Len(list)
    BY <1>1, <2>2, <2>3
  <2>5. d[m - 1] \in Nat /\ Pause(list[m]) \in Nat
    BY <2>4, PauseType
  <2>. QED
    BY <1>7, <2>3, <2>4, <2>5
<1>9. Sums(d, list, Len(list))
  BY <1>6, <1>7, <1>8 DEF Sums
<1>. QED
  BY <1>9 DEF d

\* An event more adds its pause and changes nothing before it.
LEMMA DelaysAppend ==
  ASSUME NEW list \in Seq(TimedEvent), NEW e \in TimedEvent,
         NEW longer, longer = Append(list, e)
  PROVE  /\ \A k \in 0 .. Len(list) : Delays(longer)[k] = Delays(list)[k]
         /\ Delays(longer)[Len(list) + 1] = Delays(list)[Len(list)] + Pause(e)
<1>. DEFINE f == Delays(list)
            g == Delays(longer)
            n == Len(list)
<1>1. /\ longer \in Seq(TimedEvent) /\ Len(longer) = n + 1 /\ n \in Nat
      /\ \A k \in 1 .. n : longer[k] = list[k]
      /\ longer[n + 1] = e
  BY Longer
<1>2. Sums(f, list, n) /\ Sums(g, longer, n + 1)
  BY <1>1, DelaysSum
<1>. HIDE DEF f, g, n
<1>3. \A k \in 0 .. n : g[k] = f[k]
  <2>. DEFINE T == {k \in 0 .. n : g[k] # f[k]}
  <2>1. SUFFICES ASSUME T # {} PROVE FALSE
    OBVIOUS
  <2>2. PICK m \in T : \A k \in T : m <= k
    <3>1. T \subseteq Nat
      OBVIOUS
    <3>. HIDE DEF T
    <3>. QED
      BY <2>1, <3>1, Smallest
  <2>3. m \in 0 .. n /\ g[m] # f[m] /\ m # 0
    BY <1>2 DEF Sums
  <2>4. m - 1 \in 0 .. n /\ m - 1 \notin T /\ m \in 1 .. n /\ m \in 1 .. n + 1
    BY <1>1, <2>2, <2>3
  <2>5. g[m - 1] = f[m - 1] /\ longer[m] = list[m]
    BY <1>1, <2>4
  <2>. QED
    BY <1>2, <2>3, <2>4, <2>5 DEF Sums
<1>4. g[n + 1] = g[n] + Pause(longer[n + 1])
  <2>1. \A k \in 1 .. n + 1 : g[k] = g[k - 1] + Pause(longer[k])
    BY <1>2 DEF Sums
  <2>2. PICK k \in 1 .. n + 1 : k = n + 1
    BY <1>1
  <2>3. k - 1 = n
    BY <1>1, <2>2
  <2>4. g[k] = g[n] + Pause(longer[k])
    BY <2>1, <2>3
  <2>. QED
    BY <2>2, <2>4
<1>5. g[n + 1] = f[n] + Pause(e)
  BY <1>1, <1>3, <1>4
<1>. QED
  BY <1>3, <1>5 DEF f, g, n

\* A motion's trajectory begins at 0 at the place the arm is at, and stays there
\* for as long as no time passes; at its end it is where it ends.
LEMMA Standing ==
  ASSUME IInv, OfProgram, MotionsAtSpeed, CompileSegment
  PROVE  /\ Len(Trajectory) \in Nat /\ Len(Trajectory) >= 1 /\ Trajectory[1].at = 0
         /\ Trajectory[Len(Trajectory)].at = Duration(Trajectory)
         /\ \A i \in 1 .. Len(Trajectory) :
              /\ Trajectory[i].at \in Nat /\ Trajectory[i].at <= Duration(Trajectory)
              /\ Trajectory[i].at = 0 => Place[Trajectory[i].joints] = Place[joints]
              /\ Trajectory[i].at = Duration(Trajectory) => Trajectory[i].joints = joints'
<1>. DEFINE n == Len(planned) + 1
            s == segments[n]
            t == Trajectory
            m == Len(Trajectory)
<1>1. /\ PipelineTypeOK /\ planned \in Seq(PlannedSegment) /\ Len(planned) \in Nat
      /\ segments \in Seq(Segment \cup EditorSegments) /\ segmentOf \in Seq(Nat)
      /\ Len(program) \in Nat /\ joints \in Joints
  BY DEF IInv, PipelineTypeOK
<1>2. /\ phase = "compile" /\ Len(planned) < Len(segments)
      /\ t \notin Errors /\ t = PlanSegment(s, joints)
      /\ joints' = LastJoints(t, joints)
  BY DEF CompileSegment, Compiling, Trajectory
<1>3. /\ Len(segmentOf) = Len(segments) /\ SegmentsMade
      /\ \A j \in DOMAIN segmentOf : segmentOf[j] \in 1 .. Len(program)
  BY <1>2 DEF IInv, Split, Names, Upto
<1>4. n \in DOMAIN segmentOf /\ n \in DOMAIN segments
  BY <1>1, <1>2, <1>3
<1>5. /\ Made(s, program[segmentOf[n]]) /\ IsMotion(program[segmentOf[n]])
      /\ program[segmentOf[n]].speed > 0
  BY <1>3, <1>4 DEF SegmentsMade, Made, MotionsAtSpeed
<1>6. /\ s \in JointSegment \/ s \in LineSegment
      /\ s.speed # 0 /\ s.kind # "SetOutput"
  BY <1>5 DEF Made, IsMotion, Motions, JointSegment, LineSegment
<1>7. s \in JointSegment => s.kind \notin CartesianKinds
  BY DEF JointSegment, CartesianKinds
<1>8. s \in Segment \cup EditorSegments
  BY <1>6 DEF Segment
<1>. HIDE DEF s
<1>9. /\ t \in Seq(Waypoint) /\ t # <<>> /\ t[1].at = 0
      /\ t[1].joints = joints \/ (t[m].at = 0 /\ s.kind \in CartesianKinds)
      /\ \A i, k \in DOMAIN t : i < k =>
           t[i].at <= t[k].at /\ (t[i].at = t[k].at => t[i].joints = t[k].joints)
      /\ s \in LineSegment =>
           /\ Place[t[m].joints] = s.target.place
           /\ t[m].at = 0 => Place[joints] = s.target.place
  BY <1>1, <1>2, <1>6, <1>8, DispatcherAssumption DEF Promised
<1>10. /\ m \in Nat /\ m >= 1 /\ DOMAIN t = 1 .. m
       /\ 1 \in DOMAIN t /\ m \in DOMAIN t
       /\ Duration(t) = t[m].at /\ joints' = t[m].joints
  BY <1>2, <1>9 DEF Duration, LastJoints
<1>11. \A i \in 1 .. m : t[i].at \in Nat
  <2>1. \A i \in 1 .. m : t[i] \in Waypoint
    BY <1>9, <1>10
  <2>. QED
    BY <2>1 DEF Waypoint
<1>. HIDE DEF t, m
<1>12. ASSUME NEW i \in 1 .. m
       PROVE  /\ t[i].at <= t[m].at
              /\ t[i].at = t[m].at => t[i].joints = t[m].joints
  <2>1. CASE i = m
    BY <1>10, <1>11, <2>1
  <2>2. CASE i # m
    BY <1>9, <1>10, <2>2
  <2>. QED
    BY <2>1, <2>2
<1>13. ASSUME NEW i \in 1 .. m, t[i].at = 0
       PROVE  Place[t[i].joints] = Place[joints]
  <2>1. CASE t[1].joints = joints
    <3>1. CASE i = 1
      BY <2>1, <3>1
    <3>2. CASE i # 1
      <4>1. 1 < i /\ t[1].at = t[i].at /\ i \in DOMAIN t
        BY <1>9, <1>10, <1>13, <3>2
      <4>. QED
        BY <1>9, <1>10, <2>1, <4>1
    <3>. QED
      BY <3>1, <3>2
  <2>2. CASE t[m].at = 0 /\ s.kind \in CartesianKinds
    BY <1>6, <1>7, <1>9, <1>12, <1>13, <2>2
  <2>. QED
    BY <1>9, <2>1, <2>2
<1>. QED
  BY <1>9, <1>10, <1>11, <1>12, <1>13 DEF t, m

\* Whenever a segment begins, the plan has the arm at one place only: where the
\* segments before it have left it.
Settled ==
  OfProgram /\ MotionsAtSpeed /\ phase \in {"compile", "schedule", "planned"} =>
    /\ waypoints = <<>> => planned = <<>>
    /\ \A c \in 1 .. Len(planned) + 1 :
         /\ FromOf(c) <= offset
         /\ \A i \in DOMAIN waypoints :
              waypoints[i].at = FromOf(c) => Place[waypoints[i].joints] = Place[JointsAt(c)]
         /\ waypoints # <<>> => \E i \in DOMAIN waypoints : waypoints[i].at = FromOf(c)

LEMMA SettledNext ==
  ASSUME IInv, Track, Settled, CompileSegment
  PROVE  Settled'
<1>. SUFFICES ASSUME OfProgram', MotionsAtSpeed'
              PROVE  /\ waypoints' = <<>> => planned' = <<>>
                     /\ \A c \in 1 .. Len(planned') + 1 :
                          /\ FromOf(c)' <= offset'
                          /\ \A i \in DOMAIN waypoints' :
                               waypoints'[i].at = FromOf(c)' =>
                                 Place[waypoints'[i].joints] = Place[JointsAt(c)']
                          /\ waypoints' # <<>> =>
                               \E i \in DOMAIN waypoints' : waypoints'[i].at = FromOf(c)'
  BY DEF Settled
<1>1. OfProgram /\ MotionsAtSpeed /\ phase = "compile" /\ PipelineTypeOK
  BY DEF CompileSegment, Compiling, requestVars, OfProgram, MotionsAtSpeed, IInv
<1>. DEFINE n == Len(planned)
            w == Len(waypoints)
            t == Trajectory
            m == Len(Trajectory)
            d == Duration(Trajectory)
            compiled == [source |-> segments[n + 1], trajectory |-> Trajectory,
                         first |-> Len(waypoints), last |-> Len(waypoints'),
                         from |-> offset, to |-> offset']
<1>2. /\ m \in Nat /\ m >= 1 /\ t[1].at = 0 /\ t[m].at = d
      /\ \A i \in 1 .. m :
           /\ t[i].at \in Nat /\ t[i].at <= d
           /\ t[i].at = 0 => Place[t[i].joints] = Place[joints]
           /\ t[i].at = d => t[i].joints = joints'
  BY <1>1, Standing
<1>3. /\ w \in Nat /\ DOMAIN waypoints = 1 .. w /\ DOMAIN waypoints' = 1 .. w + m
      /\ \A i \in 1 .. w : waypoints'[i] = waypoints[i]
      /\ \A i \in 1 .. m : /\ waypoints'[w + i].at = t[i].at + offset
                           /\ waypoints'[w + i].joints = t[i].joints
  BY <1>1, Merged
<1>4. /\ offset \in Nat /\ d \in Nat /\ offset' = offset + d
      /\ n \in Nat /\ planned \in Seq(PlannedSegment) /\ handed \in Seq(Joints)
      /\ Len(handed) = n
  <2>1. d \in Nat
    BY <1>2
  <2>. QED
    BY <1>1, <2>1 DEF CompileSegment, PipelineTypeOK, IInv, Chain, Linked
<1>5. planned' = Append(planned, compiled) /\ handed' = Append(handed, joints)
  BY DEF CompileSegment
<1>6. compiled.trajectory = t /\ compiled.to = offset'
  OBVIOUS
<1>. HIDE DEF compiled
<1>7. /\ \A j \in 1 .. n : planned'[j] = planned[j] /\ handed'[j] = handed[j]
      /\ planned'[n + 1] = compiled /\ handed'[n + 1] = joints
      /\ Len(planned') = n + 1
  BY <1>4, <1>5
<1>8. ASSUME NEW c \in 1 .. n + 1
      PROVE  FromOf(c)' = FromOf(c) /\ JointsAt(c)' = JointsAt(c)
  <2>1. c = 1 \/ c - 1 \in 1 .. n
    BY <1>4
  <2>2. start' = start
    BY DEF CompileSegment, requestVars
  <2>. QED
    BY <1>7, <2>1, <2>2 DEF FromOf, JointsAt, LastJoints
<1>9. ASSUME NEW c, c = n + 2
      PROVE  FromOf(c)' = offset' /\ JointsAt(c)' = joints'
  <2>1. c # 1 /\ c - 1 = n + 1
    BY <1>4, <1>9
  <2>2. /\ FromOf(c)' = planned'[c - 1].to
        /\ JointsAt(c)' = LastJoints(planned'[c - 1].trajectory, handed'[c - 1])
    BY <2>1 DEF FromOf, JointsAt, LastJoints
  <2>3. LastJoints(t, joints) = joints'
    BY DEF CompileSegment
  <2>. QED
    BY <1>6, <1>7, <2>1, <2>2, <2>3
<1>10. /\ offset = FromOf(n + 1) /\ joints = JointsAt(n + 1) /\ n + 1 \in 1 .. n + 1
       /\ \A i \in 1 .. w : waypoints[i].at <= offset
  BY <1>1, <1>3, <1>4 DEF Track, Laid, Smooth, IInv, Chain, Linked
<1>11. /\ waypoints = <<>> => planned = <<>>
       /\ \A c \in 1 .. n + 1 :
            /\ FromOf(c) <= offset
            /\ \A i \in 1 .. w :
                 waypoints[i].at = FromOf(c) => Place[waypoints[i].joints] = Place[JointsAt(c)]
            /\ waypoints # <<>> => \E i \in 1 .. w : waypoints[i].at = FromOf(c)
  BY <1>1, <1>3 DEF Settled
<1>12. /\ \A i \in 1 .. w : waypoints[i].at \in Nat
       /\ \A c \in 1 .. n + 1 : FromOf(c) \in Nat
  <2>1. \A i \in 1 .. w : waypoints[i] \in Waypoint
    BY <1>1, <1>3 DEF PipelineTypeOK
  <2>2. ASSUME NEW c \in 1 .. n + 1
        PROVE  FromOf(c) \in Nat
    <3>1. c = 1 \/ c - 1 \in DOMAIN planned
      BY <1>4
    <3>2. \A j \in DOMAIN planned : planned[j] \in PlannedSegment
      BY <1>4
    <3>. QED
      BY <3>1, <3>2 DEF FromOf, PlannedSegment
  <2>. QED
    BY <2>1, <2>2 DEF Waypoint
<1>. HIDE DEF n, w, t, m, d
\* Where two segments begin at one time the arm is at one place.
<1>13. ASSUME NEW c \in 1 .. n + 1, FromOf(c) = offset
       PROVE  Place[JointsAt(c)] = Place[joints]
  <2>1. CASE waypoints = <<>>
    <3>1. n = 0
      BY <1>11, <2>1 DEF n
    <3>. QED
      BY <1>10, <1>13, <3>1
  <2>2. CASE waypoints # <<>>
    <3>1. PICK i \in 1 .. w : waypoints[i].at = FromOf(c)
      BY <1>11, <2>2
    <3>2. Place[waypoints[i].joints] = Place[JointsAt(c)]
      BY <1>11, <3>1
    <3>3. Place[waypoints[i].joints] = Place[JointsAt(n + 1)]
      BY <1>10, <1>11, <1>13, <3>1
    <3>. QED
      BY <1>10, <3>2, <3>3
  <2>. QED
    BY <2>1, <2>2
<1>14. ASSUME NEW i \in 1 .. w + m
       PROVE  \/ i \in 1 .. w
              \/ \E k \in 1 .. m : i = w + k
  <2>1. i \in 1 .. w \/ (i - w \in 1 .. m /\ i = w + (i - w))
    BY <1>2, <1>3
  <2>. QED
    BY <2>1
<1>15. ASSUME NEW c \in 1 .. n + 1
       PROVE  /\ FromOf(c)' <= offset'
              /\ \A i \in 1 .. w + m :
                   waypoints'[i].at = FromOf(c)' =>
                     Place[waypoints'[i].joints] = Place[JointsAt(c)']
              /\ \E i \in 1 .. w + m : waypoints'[i].at = FromOf(c)'
  <2>1. FromOf(c)' <= offset'
    BY <1>4, <1>8, <1>11, <1>12
  <2>2. ASSUME NEW i \in 1 .. w + m, waypoints'[i].at = FromOf(c)'
        PROVE  Place[waypoints'[i].joints] = Place[JointsAt(c)']
    <3>1. CASE i \in 1 .. w
      BY <1>3, <1>8, <1>11, <2>2, <3>1
    <3>2. ASSUME NEW k \in 1 .. m, i = w + k
          PROVE  Place[waypoints'[i].joints] = Place[JointsAt(c)']
      <4>1. t[k].at + offset = FromOf(c) /\ FromOf(c) <= offset /\ t[k].at \in Nat
        BY <1>2, <1>3, <1>8, <1>11, <2>2, <3>2
      <4>2. t[k].at = 0 /\ FromOf(c) = offset
        <5>1. offset \in Nat
          BY <1>4, <1>12
        <5>. QED
          BY <4>1, <5>1
      <4>3. Place[t[k].joints] = Place[joints]
        BY <1>2, <4>2
      <4>. QED
        BY <1>3, <1>8, <1>13, <3>2, <4>2, <4>3
    <3>. QED
      BY <1>14, <3>1, <3>2
  <2>3. \E i \in 1 .. w + m : waypoints'[i].at = FromOf(c)'
    <3>1. CASE waypoints # <<>>
      <4>1. PICK i \in 1 .. w : waypoints[i].at = FromOf(c)
        BY <1>11, <3>1
      <4>2. i \in 1 .. w + m /\ waypoints'[i] = waypoints[i]
        BY <1>2, <1>3, <4>1
      <4>. QED
        BY <1>8, <4>1, <4>2
    <3>2. CASE waypoints = <<>>
      <4>1. n = 0
        BY <1>11, <3>2 DEF n
      <4>2. c = n + 1 /\ FromOf(c)' = offset
        BY <1>8, <1>10, <4>1
      <4>3. w + 1 \in 1 .. w + m /\ waypoints'[w + 1].at = offset
        <5>1. 1 \in 1 .. m /\ waypoints'[w + 1].at = t[1].at + offset
          BY <1>2, <1>3
        <5>. QED
          BY <1>2, <1>3, <1>4, <5>1
      <4>. QED
        BY <4>2, <4>3
    <3>. QED
      BY <3>1, <3>2
  <2>. QED
    BY <2>1, <2>2, <2>3
<1>16. ASSUME NEW c, c = n + 2
       PROVE  /\ FromOf(c)' <= offset'
              /\ \A i \in 1 .. w + m :
                   waypoints'[i].at = FromOf(c)' =>
                     Place[waypoints'[i].joints] = Place[JointsAt(c)']
              /\ \E i \in 1 .. w + m : waypoints'[i].at = FromOf(c)'
  <2>1. FromOf(c)' = offset' /\ JointsAt(c)' = joints' /\ offset' \in Nat
    BY <1>4, <1>9, <1>16
  <2>2. ASSUME NEW i \in 1 .. w + m, waypoints'[i].at = offset'
        PROVE  Place[waypoints'[i].joints] = Place[joints']
    <3>1. CASE i \in 1 .. w
      <4>1. waypoints[i].at = offset + d /\ waypoints[i].at <= offset
        BY <1>3, <1>4, <1>10, <2>2, <3>1
      <4>2. d = 0 /\ waypoints[i].at = offset
        BY <1>4, <1>12, <3>1, <4>1
      <4>3. Place[waypoints[i].joints] = Place[joints]
        BY <1>10, <1>11, <3>1, <4>2
      <4>4. 1 \in 1 .. m /\ t[1].at = 0 /\ t[1].at = d
        BY <1>2, <4>2
      <4>5. Place[t[1].joints] = Place[joints] /\ t[1].joints = joints'
        BY <1>2, <4>4
      <4>. QED
        BY <1>3, <3>1, <4>3, <4>5
    <3>2. ASSUME NEW k \in 1 .. m, i = w + k
          PROVE  Place[waypoints'[i].joints] = Place[joints']
      <4>1. t[k].at + offset = offset + d /\ t[k].at \in Nat
        BY <1>2, <1>3, <1>4, <2>2, <3>2
      <4>2. t[k].at = d
        BY <1>4, <4>1
      <4>. QED
        BY <1>2, <1>3, <3>2, <4>2
    <3>. QED
      BY <1>14, <3>1, <3>2
  <2>3. w + m \in 1 .. w + m /\ waypoints'[w + m].at = offset'
    <3>1. m \in 1 .. m
      BY <1>2
    <3>2. waypoints'[w + m].at = t[m].at + offset
      BY <1>3, <3>1
    <3>. QED
      BY <1>2, <1>3, <1>4, <3>2
  <2>4. \E i \in 1 .. w + m : waypoints'[i].at = offset'
    BY <2>3
  <2>. QED
    BY <2>1, <2>2, <2>4
<1>17. \A c \in 1 .. n + 2 : c \in 1 .. n + 1 \/ c = n + 2
  BY <1>4
<1>18. waypoints' # <<>> /\ Len(planned') + 1 = n + 2 /\ DOMAIN waypoints' = 1 .. w + m
  <2>1. DOMAIN waypoints' = 1 .. w + m
    BY <1>3
  <2>2. waypoints' # <<>>
    <3>1. 1 \in DOMAIN waypoints'
      BY <1>2, <1>3, <2>1
    <3>. QED
      BY <3>1
  <2>3. Len(planned') = n + 1
    BY <1>7 DEF n
  <2>4. Len(planned') + 1 = n + 2
    BY <1>4, <2>3
  <2>. QED
    BY <2>1, <2>2, <2>4
<1>. QED
  BY <1>15, <1>16, <1>17, <1>18

\* Before the first segment there is nothing to say.
LEMMA SettledBefore ==
  ASSUME IInv, Track, Resolved
  PROVE  Settled'
<1>1. /\ planned = <<>> /\ UNCHANGED compilerVars /\ UNCHANGED requestVars
      /\ waypoints \in Seq(Waypoint)
  BY DEF Resolved, IInv, Chain, PipelineTypeOK
<1>2. Len(planned) + 1 = 1 /\ Len(waypoints) = FirstOf(1) /\ offset = FromOf(1)
  BY <1>1 DEF Track, Laid
<1>3. waypoints = <<>> /\ offset = 0
  BY <1>1, <1>2 DEF FirstOf, FromOf
<1>4. planned' = <<>> /\ waypoints' = <<>> /\ offset' = 0 /\ DOMAIN waypoints' = {}
  BY <1>1, <1>3 DEF compilerVars
<1>5. \A c \in 1 .. Len(planned') + 1 : FromOf(c)' = 0
  <2>1. \A c \in 1 .. Len(planned') + 1 : c = 1
    BY <1>4
  <2>. QED
    BY <2>1 DEF FromOf
<1>. QED
  BY <1>4, <1>5 DEF Settled

LEMMA SettledKept ==
  ASSUME Settled, phase \in {"compile", "schedule", "planned"},
         UNCHANGED compilerVars, UNCHANGED requestVars
  PROVE  Settled'
<1>. USE DEF compilerVars, requestVars
<1>1. OfProgram' = OfProgram /\ MotionsAtSpeed' = MotionsAtSpeed
  BY DEF OfProgram, MotionsAtSpeed, IsMotion
<1>. QED
  BY <1>1 DEF Settled, FromOf, JointsAt, LastJoints

LEMMA NextSettled ==
  ASSUME IInv, Track, Settled, [Next]_vars
  PROVE  Settled'
<1>1. CASE CompileSegment
  BY <1>1, SettledNext
<1>2. CASE Resolved
  BY <1>2, SettledBefore
<1>3. CASE Compiled \/ ScheduleMotion \/ ScheduleEvent \/ Scheduled
  BY <1>3, SettledKept DEF Compiled, ScheduleMotion, ScheduleEvent, Scheduled, Scheduling
<1>4. CASE ResolveFails \/ CompileFails
  BY <1>4 DEF ResolveFails, CompileFails, Fail, Settled
<1>5. CASE ExpandOperation \/ Expanded
  BY <1>5 DEF ExpandOperation, Expanded, IInv, Split, OfProgram, requestVars, Settled
<1>6. CASE ResolveMoveJ \/ ResolveMoveL \/ ResolveEvent
  BY <1>6 DEF ResolveMoveJ, ResolveMoveL, ResolveEvent, Resolving, PushSegment, Settled
<1>7. CASE Submitting \/ Replanning \/ Release
  BY <1>7 DEF Submitting, Submit, SubmitSegments, SubmitOperations, Replanning, Replan,
     Fail, Release, Settled, OfProgram
<1>8. CASE UNCHANGED vars
  <2>1. UNCHANGED phase /\ UNCHANGED compilerVars /\ UNCHANGED requestVars
    BY <1>8 DEF vars
  <2>. QED
    BY <2>1, SettledKept DEF Settled
<1>. QED
  BY <1>1, <1>2, <1>3, <1>4, <1>5, <1>6, <1>7, <1>8 DEF Next, Step

\* The scheduler's clock is the plan's and the pauses; every event has the plan's
\* time of the motions before it, and the pauses before it.
Clocked ==
  CarriedOut =>
    /\ Len(temporal) = eventIdx
    /\ cursor = FromOf(segmentIdx + 1) + Delays(temporal)[Len(temporal)]
    /\ \A k \in DOMAIN temporal : \E c \in 0 .. segmentIdx :
         /\ \A j \in DOMAIN segmentOf : j <= c <=> segmentOf[j] < eventOf[k]
         /\ temporal[k].at = FromOf(c + 1) + Delays(temporal)[k - 1]

LEMMA ClockedKept ==
  ASSUME Clocked, UNCHANGED CarriedOut,
         UNCHANGED <<planned, temporal, eventIdx, segmentIdx, cursor, segmentOf, eventOf>>
  PROVE  Clocked'
<1>1. Delays(temporal)' = Delays(temporal)
  BY DEF Delays, Pause
<1>. QED
  BY <1>1 DEF Clocked, FromOf

LEMMA ClockedStart ==
  ASSUME IInv, Compiled, CarriedOut'
  PROVE  Clocked'
<1>1. /\ segmentIdx' = 0 /\ eventIdx' = 0 /\ cursor' = 0 /\ temporal' = <<>>
  BY DEF Compiled, IInv, Placed, schedulerVars
<1>2. Delays(temporal')[0] = 0
  <2>1. temporal' \in Seq(TimedEvent)
    BY <1>1
  <2>2. Sums(Delays(temporal'), temporal', Len(temporal'))
    BY <2>1, DelaysSum
  <2>. QED
    BY <2>2 DEF Sums
<1>3. FromOf(1)' = 0 /\ segmentIdx' + 1 = 1
  BY <1>1 DEF FromOf
<1>4. Len(temporal') = 0 /\ DOMAIN temporal' = {}
  BY <1>1
<1>5. FromOf(segmentIdx + 1)' = 0
  BY <1>1 DEF FromOf
<1>6. Delays(temporal)' = Delays(temporal')
  BY DEF Delays, Pause
<1>7. cursor' = FromOf(segmentIdx + 1)' + Delays(temporal')[Len(temporal')]
  BY <1>1, <1>2, <1>4, <1>5
<1>. QED
  BY <1>1, <1>4, <1>6, <1>7 DEF Clocked

LEMMA ClockedMotion ==
  ASSUME IInv, Track, Clocked, ScheduleMotion
  PROVE  Clocked'
<1>1. /\ phase = "schedule" /\ pc <= Len(program) /\ IsMotion(program[pc])
      /\ UNCHANGED <<planned, temporal, eventIdx, segmentOf, eventOf>>
      /\ UNCHANGED CarriedOut
  BY DEF ScheduleMotion, Scheduling, IsMotion, requestVars, resolverVars, compilerVars,
     CarriedOut
<1>2. CarriedOut /\ segmentIdx \in Nat /\ planned \in Seq(PlannedSegment) /\ cursor \in Nat
  BY <1>1 DEF IInv, Placed, OfProgram, CarriedOut, PipelineTypeOK
<1>3. segmentIdx < Len(planned)
  BY <1>1, Reached
<1>. DEFINE j == segmentIdx + 1
<1>4. j \in DOMAIN planned /\ planned[j] \in PlannedSegment
  BY <1>2, <1>3
<1>5. /\ cursor' = cursor + (planned[j].to - planned[j].from) /\ segmentIdx' = j
      /\ planned[j].from = FromOf(j) /\ planned[j].from \in Nat /\ planned[j].to \in Nat
  BY <1>3, <1>4 DEF ScheduleMotion, Track, Laid, PlannedSegment
<1>6. FromOf(segmentIdx + 1)' = planned[j].to
  <2>1. PICK c \in Nat : c = segmentIdx' + 1
    BY <1>2, <1>5
  <2>2. c # 1 /\ c - 1 = j
    BY <1>2, <1>5, <2>1
  <2>3. FromOf(segmentIdx + 1)' = planned'[c - 1].to
    BY <2>1, <2>2 DEF FromOf
  <2>. QED
    BY <1>1, <2>2, <2>3
<1>. DEFINE d == Delays(temporal)
<1>7. Delays(temporal)' = d /\ temporal' = temporal /\ Len(temporal) \in Nat
  BY <1>1 DEF Delays, Pause, IInv, PipelineTypeOK
<1>8. /\ Len(temporal) = eventIdx /\ cursor = FromOf(j) + d[Len(temporal)]
      /\ \A k \in DOMAIN temporal : \E c \in 0 .. segmentIdx :
           /\ \A i \in DOMAIN segmentOf : i <= c <=> segmentOf[i] < eventOf[k]
           /\ temporal[k].at = FromOf(c + 1) + d[k - 1]
  BY <1>2 DEF Clocked
<1>9. d[Len(temporal)] \in Nat
  <2>1. temporal \in Seq(TimedEvent)
    BY DEF IInv, PipelineTypeOK
  <2>2. Sums(d, temporal, Len(temporal))
    BY <2>1, DelaysSum
  <2>. HIDE DEF d
  <2>. QED
    BY <1>7, <2>2 DEF Sums
<1>. HIDE DEF d
<1>10. cursor' = planned[j].to + d[Len(temporal)]
  BY <1>2, <1>5, <1>8, <1>9
<1>11. \A k \in DOMAIN temporal : \E c \in 0 .. j :
         /\ \A i \in DOMAIN segmentOf : i <= c <=> segmentOf[i] < eventOf[k]
         /\ temporal[k].at = FromOf(c + 1) + d[k - 1]
  <2>1. 0 .. segmentIdx \subseteq 0 .. j
    BY <1>2
  <2>. QED
    BY <1>8, <2>1
<1>12. \A c \in 0 .. j : FromOf(c + 1)' = FromOf(c + 1)
  BY <1>1 DEF FromOf
<1>. HIDE DEF j
<1>13. \A k \in DOMAIN temporal' : \E c \in 0 .. segmentIdx' :
         /\ \A i \in DOMAIN segmentOf' : i <= c <=> segmentOf'[i] < eventOf'[k]
         /\ temporal'[k].at = FromOf(c + 1)' + d[k - 1]
  BY <1>1, <1>5, <1>7, <1>11, <1>12
<1>14. Len(temporal') = eventIdx'
  BY <1>1, <1>8
<1>. QED
  BY <1>6, <1>7, <1>10, <1>13, <1>14 DEF Clocked

LEMMA ClockedEvent ==
  ASSUME IInv, Track, Clocked, ScheduleEvent
  PROVE  Clocked'
<1>1. /\ phase = "schedule" /\ pc <= Len(program) /\ ~IsMotion(program[pc])
      /\ UNCHANGED <<planned, segmentIdx, segmentOf, eventOf>>
      /\ UNCHANGED CarriedOut
  BY DEF ScheduleEvent, Scheduling, IsMotion, Motions, requestVars, resolverVars,
     compilerVars, CarriedOut
<1>2. /\ CarriedOut /\ segmentIdx \in Nat /\ eventIdx \in Nat /\ cursor \in Nat
      /\ temporal \in Seq(TimedEvent) /\ events \in Seq(Event)
  BY <1>1 DEF IInv, Placed, OfProgram, CarriedOut, PipelineTypeOK
<1>3. /\ eventIdx < Len(events) /\ eventOf[eventIdx + 1] = pc
      /\ \A i \in DOMAIN segmentOf : i <= segmentIdx <=> segmentOf[i] < pc
  BY <1>1, <1>2, Reached DEF IInv, Placed, Taken
<1>. DEFINE e == events[eventIdx + 1]
            s == Stamped(e)
            n == Len(temporal)
            d == Delays(temporal)
            g == Delays(temporal')
<1>4. /\ temporal' = Append(temporal, s) /\ eventIdx' = eventIdx + 1
      /\ cursor' = IF e.kind = "Delay" THEN cursor + e.amount ELSE cursor
  BY <1>3 DEF ScheduleEvent
<1>5. e \in Event
  BY <1>2, <1>3
<1>6. s \in TimedEvent /\ s.at = cursor /\ cursor' = cursor + Pause(s) /\ Pause(s) \in Nat
  BY <1>2, <1>4, <1>5 DEF Stamped, Event, TimedEvent, Pause
<1>. HIDE DEF s
<1>7. /\ DOMAIN temporal' = 1 .. n + 1 /\ DOMAIN temporal = 1 .. n /\ n \in Nat
      /\ \A k \in 1 .. n : temporal'[k] = temporal[k]
      /\ temporal'[n + 1] = s /\ Len(temporal') = n + 1
  BY <1>2, <1>4, <1>6, Longer
<1>8. (\A k \in 0 .. n : g[k] = d[k]) /\ g[n + 1] = d[n] + Pause(s)
  BY <1>2, <1>4, <1>6, DelaysAppend
<1>9. d[n] \in Nat
  <2>1. Sums(d, temporal, n)
    BY <1>2, DelaysSum
  <2>. HIDE DEF d, n
  <2>. QED
    BY <1>7, <2>1 DEF Sums
<1>10. /\ n = eventIdx /\ cursor = FromOf(segmentIdx + 1) + d[n]
       /\ \A k \in 1 .. n : \E c \in 0 .. segmentIdx :
            /\ \A j \in DOMAIN segmentOf : j <= c <=> segmentOf[j] < eventOf[k]
            /\ temporal[k].at = FromOf(c + 1) + d[k - 1]
  BY <1>2, <1>7 DEF Clocked
<1>11. FromOf(segmentIdx + 1) \in Nat
  <2>1. segmentIdx = 0 \/ segmentIdx \in DOMAIN planned
    BY <1>1, <1>2 DEF IInv, Placed, Taken, Chain, Split, Names, CarriedOut, OfProgram,
       PipelineTypeOK
  <2>2. \A j \in DOMAIN planned : planned[j] \in PlannedSegment
    BY DEF IInv, PipelineTypeOK
  <2>3. PICK c \in Nat : c = segmentIdx + 1
    BY <1>2
  <2>4. CASE segmentIdx = 0
    BY <2>4 DEF FromOf
  <2>5. CASE segmentIdx \in DOMAIN planned
    <3>1. c - 1 = segmentIdx
      BY <1>2, <2>3
    <3>2. FromOf(c) = IF c = 1 THEN 0 ELSE planned[segmentIdx].to
      BY <3>1 DEF FromOf
    <3>3. planned[segmentIdx].to \in Nat
      BY <2>2, <2>5 DEF PlannedSegment
    <3>. QED
      BY <2>3, <3>2, <3>3
  <2>. QED
    BY <2>1, <2>4, <2>5
<1>12. \A c \in 0 .. segmentIdx : FromOf(c + 1)' = FromOf(c + 1)
  BY <1>1 DEF FromOf
<1>13. FromOf(segmentIdx + 1)' = FromOf(segmentIdx + 1)
  BY <1>1 DEF FromOf
<1>. HIDE DEF n, d, g
<1>14. cursor' = FromOf(segmentIdx + 1)' + g[n + 1]
  BY <1>2, <1>6, <1>8, <1>9, <1>10, <1>11, <1>13
<1>15. ASSUME NEW k \in 1 .. n + 1
       PROVE  \E c \in 0 .. segmentIdx :
                /\ \A j \in DOMAIN segmentOf : j <= c <=> segmentOf[j] < eventOf[k]
                /\ temporal'[k].at = FromOf(c + 1)' + g[k - 1]
  <2>1. CASE k = n + 1
    <3>1. segmentIdx \in 0 .. segmentIdx /\ k - 1 = n /\ n \in 0 .. n
      BY <1>2, <1>7, <2>1
    <3>2. eventOf[k] = pc /\ g[k - 1] = d[n]
      BY <1>3, <1>8, <1>10, <2>1, <3>1
    <3>3. PICK c \in 0 .. segmentIdx : c = segmentIdx
      BY <3>1
    <3>4. temporal'[k].at = FromOf(c + 1)' + g[k - 1]
      BY <1>6, <1>7, <1>10, <1>12, <2>1, <3>2, <3>3
    <3>. QED
      BY <1>3, <3>2, <3>3, <3>4
  <2>2. CASE k # n + 1
    <3>1. k \in 1 .. n /\ k - 1 \in 0 .. n
      BY <1>7, <2>2
    <3>2. temporal'[k] = temporal[k] /\ g[k - 1] = d[k - 1]
      BY <1>7, <1>8, <3>1
    <3>. QED
      BY <1>10, <1>12, <3>1, <3>2
  <2>. QED
    BY <2>1, <2>2
<1>16. /\ Len(temporal') = eventIdx'
       /\ cursor' = FromOf(segmentIdx + 1)' + g[Len(temporal')]
  BY <1>4, <1>7, <1>10, <1>14
<1>17. \A k \in DOMAIN temporal' : \E c \in 0 .. segmentIdx' :
         /\ \A j \in DOMAIN segmentOf' : j <= c <=> segmentOf'[j] < eventOf'[k]
         /\ temporal'[k].at = FromOf(c + 1)' + g[k - 1]
  BY <1>1, <1>7, <1>15
<1>18. Delays(temporal)' = g
  BY DEF g, Delays, Pause
<1>. QED
  BY <1>16, <1>17, <1>18 DEF Clocked

LEMMA NextClocked ==
  ASSUME IInv, Track, Clocked, [Next]_vars
  PROVE  Clocked'
<1>1. CASE ~CarriedOut'
  BY <1>1 DEF Clocked
<1>2. CASE CarriedOut'
  <2>1. CASE Compiled
    BY <1>2, <2>1, ClockedStart
  <2>2. CASE ScheduleMotion
    BY <2>2, ClockedMotion
  <2>3. CASE ScheduleEvent
    BY <2>3, ClockedEvent
  <2>4. CASE Scheduled
    <3>1. CarriedOut /\ InOrder(temporal)
      BY <2>4 DEF Scheduled, IInv, Placed, CarriedOut, OfProgram
    <3>2. temporal' = temporal
      BY <2>4, <3>1 DEF Scheduled, SortByTime
    <3>. QED
      BY <1>2, <2>4, <3>1, <3>2, ClockedKept DEF Scheduled, compilerVars, resolverVars
  <2>5. CASE UNCHANGED vars
    BY <2>5, ClockedKept DEF vars, requestVars, resolverVars, compilerVars, schedulerVars,
       CarriedOut
  <2>6. CASE Submitting \/ Replanning \/ Release
    BY <1>2, <2>6 DEF Submitting, Submit, SubmitSegments, SubmitOperations, Replanning,
       Replan, Fail, Release, CarriedOut
  <2>7. CASE ExpandOperation \/ Expanded
    BY <1>2, <2>7 DEF ExpandOperation, Expanded, CarriedOut
  <2>8. CASE ResolveMoveJ \/ ResolveMoveL \/ ResolveEvent \/ ResolveFails \/ Resolved
    BY <1>2, <2>8 DEF ResolveMoveJ, ResolveMoveL, ResolveEvent, ResolveFails, Resolved,
       Resolving, PushSegment, Fail, CarriedOut
  <2>9. CASE CompileSegment \/ CompileFails
    BY <1>2, <2>9 DEF CompileSegment, CompileFails, Compiling, Fail, CarriedOut
  <2>. QED
    BY <2>1, <2>2, <2>3, <2>4, <2>5, <2>6, <2>7, <2>8, <2>9 DEF Next, Step
<1>. QED
  BY <1>1, <1>2

\* Where a waypoint has a moment's time, the one expected then is the last such.
LEMMA ExpectedThen ==
  ASSUME waypoints \in Seq(Waypoint),
         \A i, k \in DOMAIN waypoints : i < k => waypoints[i].at <= waypoints[k].at,
         NEW time \in Nat, NEW i \in DOMAIN waypoints, waypoints[i].at = time
  PROVE  ExpectedAt(time) \in DOMAIN waypoints /\ waypoints[ExpectedAt(time)].at = time
<1>. DEFINE n == Len(waypoints)
            T == {k \in 1 .. n + 1 : k = n + 1 \/ waypoints[k].at > time}
<1>1. /\ n \in Nat /\ DOMAIN waypoints = 1 .. n
      /\ \A k \in 1 .. n : waypoints[k] \in Waypoint
  OBVIOUS
<1>2. \A k \in 1 .. n : waypoints[k].at \in Nat
  BY <1>1 DEF Waypoint
<1>. HIDE DEF n
<1>3. PICK m \in T : \A k \in T : m <= k
  <2>1. T \subseteq Nat /\ n + 1 \in T
    BY <1>1
  <2>. HIDE DEF T
  <2>. QED
    BY <2>1, Smallest
<1>4. m \in 1 .. n + 1 /\ (m = n + 1 \/ waypoints[m].at > time)
  OBVIOUS
<1>5. ASSUME NEW k \in 1 .. n
      PROVE  waypoints[k].at <= time <=> k < m
  <2>1. CASE k < m
    <3>1. k \notin T /\ k \in 1 .. n + 1
      BY <1>1, <1>3, <1>4, <2>1
    <3>. QED
      BY <1>2, <2>1, <3>1
  <2>2. CASE ~(k < m)
    <3>1. m \in 1 .. n /\ waypoints[m].at > time
      BY <1>1, <1>4, <2>2
    <3>2. waypoints[m].at <= waypoints[k].at
      BY <1>1, <1>2, <2>2, <3>1
    <3>. QED
      BY <1>2, <2>2, <3>1, <3>2
  <2>. QED
    BY <2>1, <2>2
<1>6. {k \in DOMAIN waypoints : waypoints[k].at <= time} = 1 .. m - 1
  BY <1>1, <1>4, <1>5
<1>7. i < m /\ i \in 1 .. n
  BY <1>1, <1>2, <1>5
<1>8. ExpectedAt(time) = m - 1
  <2>1. \E k \in DOMAIN waypoints : waypoints[k].at >= time
    BY <1>1, <1>2
  <2>2. m - 1 \in Int /\ ~(1 > m - 1) /\ 1 \in Int
    BY <1>4, <1>7
  <2>3. Cardinality(1 .. m - 1) = m - 1 - 1 + 1
    BY <2>2, FS_Interval
  <2>4. Cardinality(1 .. m - 1) = m - 1
    BY <2>2, <2>3
  <2>. QED
    BY <1>6, <2>1, <2>4 DEF ExpectedAt
<1>9. m - 1 \in 1 .. n /\ waypoints[m - 1].at <= time
  <2>1. m - 1 \in 1 .. n /\ m - 1 < m
    BY <1>1, <1>4, <1>7
  <2>. QED
    BY <1>5, <2>1
<1>10. waypoints[i].at <= waypoints[m - 1].at
  <2>1. i = m - 1 \/ i < m - 1
    BY <1>4, <1>7
  <2>. QED
    BY <1>1, <1>2, <1>7, <1>9, <2>1
<1>11. waypoints[m - 1].at = time
  BY <1>2, <1>9, <1>10
<1>. QED
  BY <1>1, <1>8, <1>9, <1>11

\* The motions before an event are those of the segments before it.
Passed(c) == {segmentOf[j] : j \in 1 .. c}
Precede(c, k) == \A j \in DOMAIN segmentOf : j <= c <=> segmentOf[j] < eventOf[k]

LEMMA MotionsBefore ==
  ASSUME IInv, CarriedOut, NEW k \in DOMAIN eventOf, NEW c \in 0 .. Len(segmentOf),
         Precede(c, k)
  PROVE  MotionBefore(eventOf[k]) = Passed(c)
<1>1. /\ phase # "resolve" /\ SegmentsMade /\ NothingLost
      /\ \A j \in DOMAIN segmentOf : segmentOf[j] \in 1 .. Len(program)
      /\ eventOf[k] \in 1 .. Len(program)
  BY DEF IInv, Split, Names, Upto, CarriedOut, OfProgram
<1>2. /\ segmentOf \in Seq(Nat) /\ DOMAIN segmentOf = 1 .. Len(segmentOf)
      /\ Len(segmentOf) \in Nat /\ Len(program) \in Nat
  <2>1. segmentOf \in Seq(Nat) /\ program \in Seq(Instruction)
    BY DEF IInv, PipelineTypeOK
  <2>. QED
    BY <2>1
<1>3. ASSUME NEW i \in MotionBefore(eventOf[k])
      PROVE  \E j \in 1 .. c : i = segmentOf[j]
  <2>1. i \in 1 .. eventOf[k] - 1 /\ IsMotion(program[i])
    BY DEF MotionBefore
  <2>2. i \in 1 .. Upto /\ i < eventOf[k]
    BY <1>1, <1>2, <2>1 DEF Upto
  <2>3. PICK j \in DOMAIN segmentOf : segmentOf[j] = i
    BY <1>1, <2>1, <2>2 DEF NothingLost
  <2>4. j <= c
    BY <2>2, <2>3 DEF Precede
  <2>. QED
    BY <1>2, <2>3, <2>4
<1>4. ASSUME NEW j \in 1 .. c
      PROVE  segmentOf[j] \in MotionBefore(eventOf[k])
  <2>1. j \in DOMAIN segmentOf /\ j <= c
    BY <1>2
  <2>2. segmentOf[j] < eventOf[k] /\ segmentOf[j] \in 1 .. Len(program)
    BY <1>1, <2>1 DEF Precede
  <2>3. IsMotion(program[segmentOf[j]])
    BY <1>1, <2>1 DEF SegmentsMade, Made
  <2>. QED
    BY <1>1, <1>2, <2>2, <2>3 DEF MotionBefore
<1>. QED
  BY <1>3, <1>4 DEF Passed

\* The one before it last is where the arm is.
LEMMA LastMotion ==
  ASSUME IInv, CarriedOut, MotionsAtSpeed, NEW k \in DOMAIN eventOf,
         NEW c \in 0 .. Len(segmentOf), Precede(c, k)
  PROVE  LET before == MotionBefore(eventOf[k])
         IN  Place[JointsAt(c + 1)] =
               IF before = {} THEN Place[start]
               ELSE program[CHOOSE j \in before : \A i \in before : i <= j].target.place
<1>. DEFINE before == MotionBefore(eventOf[k])
<1>0. before = Passed(c)
  BY MotionsBefore
<1>. HIDE DEF before
<1>1. before = {segmentOf[j] : j \in 1 .. c}
  BY <1>0 DEF Passed
<1>2. /\ segmentOf \in Seq(Nat) /\ DOMAIN segmentOf = 1 .. Len(segmentOf)
      /\ Len(segmentOf) \in Nat /\ planned \in Seq(PlannedSegment)
      /\ \A j \in DOMAIN segmentOf : segmentOf[j] \in Nat
  <2>1. segmentOf \in Seq(Nat) /\ planned \in Seq(PlannedSegment)
    BY DEF IInv, PipelineTypeOK
  <2>. QED
    BY <2>1
<1>3. /\ Len(planned) = Len(segmentOf) /\ Increasing(segmentOf)
      /\ \A j \in DOMAIN segmentOf : segmentOf[j] \in 1 .. Upto
      /\ Upto = Len(program)
  BY DEF IInv, Split, Names, Chain, CarriedOut, OfProgram, Upto
<1>4. CASE c = 0
  <2>1. before = {} /\ c + 1 = 1
    BY <1>1, <1>4
  <2>2. JointsAt(c + 1) = start
    BY <2>1 DEF JointsAt
  <2>. QED
    BY <2>1, <2>2 DEF before
<1>5. CASE c # 0
  <2>1. c \in 1 .. c /\ c \in DOMAIN segmentOf /\ c \in DOMAIN planned
    BY <1>2, <1>3, <1>5
  <2>. DEFINE top == segmentOf[c]
  <2>2. top \in before /\ top \in Nat
    BY <1>1, <1>2, <2>1
  <2>3. \A i \in before : i <= top /\ i \in Nat
    <3>. SUFFICES ASSUME NEW j \in 1 .. c PROVE segmentOf[j] <= top /\ segmentOf[j] \in Nat
      BY <1>1
    <3>1. j \in DOMAIN segmentOf /\ (j = c \/ j < c)
      BY <1>2
    <3>. QED
      BY <1>2, <1>3, <2>1, <3>1 DEF Increasing
  <2>4. (CHOOSE j \in before : \A i \in before : i <= j) = top
    <3>1. \A j \in before : (\A i \in before : i <= j) => j = top
      BY <2>2, <2>3
    <3>. QED
      BY <2>2, <2>3, <3>1
  <2>5. /\ Made(segments[c], program[top])
        /\ planned[c].trajectory # <<>>
        /\ segments[c] \in JointSegment =>
             LastJoints(planned[c].trajectory, start) =
               IF segments[c].speed = 0 THEN handed[c] ELSE segments[c].target
        /\ segments[c] \in LineSegment =>
             Place[LastJoints(planned[c].trajectory, start)] = segments[c].target.place
    BY <2>1, MotionPlanned
  <2>6. program[top].speed > 0 /\ program[top].kind \in Motions
    <3>1. top \in DOMAIN program
      <4>1. DOMAIN program = 1 .. Len(program)
        BY DEF IInv, PipelineTypeOK
      <4>. QED
        BY <1>3, <2>1, <4>1
    <3>. QED
      BY <2>5, <3>1 DEF MotionsAtSpeed, Made, IsMotion
  <2>7. Place[LastJoints(planned[c].trajectory, start)] = program[top].target.place
    BY <2>5, <2>6 DEF Made, Motions
  <2>8. JointsAt(c + 1) = LastJoints(planned[c].trajectory, start)
    <3>1. PICK b \in Nat : b = c + 1
      OBVIOUS
    <3>2. b # 1 /\ b - 1 = c
      BY <1>5, <3>1
    <3>3. JointsAt(b) = LastJoints(planned[c].trajectory, handed[c])
      BY <3>2 DEF JointsAt
    <3>. QED
      BY <2>5, <3>1, <3>3 DEF LastJoints
  <2>9. before # {}
    BY <2>2
  <2>. QED
    BY <2>4, <2>7, <2>8, <2>9 DEF before
<1>. QED
  BY <1>4, <1>5

\* The pauses taken off, an event's time is that of the motions before it.
LEMMA EventsMeet ==
  ASSUME IInv, Track, Settled, Clocked
  PROVE  EventsMeetTheArm
<1>. SUFFICES ASSUME phase = "planned", CarriedOut, MotionsAtSpeed, waypoints # <<>>,
                     NEW k \in DOMAIN temporal
              PROVE  LET now == ExpectedAt(temporal[k].at - Delays(temporal)[k - 1])
                         before == MotionBefore(eventOf[k])
                     IN  /\ now # 0
                         /\ Place[waypoints[now].joints] =
                              IF before = {} THEN Place[start]
                              ELSE program[CHOOSE j \in before :
                                             \A i \in before : i <= j].target.place
  BY DEF EventsMeetTheArm
<1>1. /\ temporal \in Seq(TimedEvent) /\ segmentIdx \in Nat /\ eventOf \in Seq(Nat)
      /\ segmentOf \in Seq(Nat) /\ planned \in Seq(PlannedSegment)
      /\ waypoints \in Seq(Waypoint)
  BY DEF IInv, PipelineTypeOK
<1>2. /\ segmentIdx <= Len(segmentOf) /\ eventIdx <= Len(eventOf)
      /\ Len(planned) = Len(segmentOf)
  BY DEF IInv, Placed, Taken, Split, Names, Chain, CarriedOut, OfProgram
<1>3. Len(temporal) = eventIdx
  BY DEF Clocked
<1>4. PICK c \in 0 .. segmentIdx :
        /\ \A j \in DOMAIN segmentOf : j <= c <=> segmentOf[j] < eventOf[k]
        /\ temporal[k].at = FromOf(c + 1) + Delays(temporal)[k - 1]
  BY DEF Clocked
<1>5. /\ k \in DOMAIN eventOf /\ c \in 0 .. Len(segmentOf)
      /\ c + 1 \in 1 .. Len(planned) + 1 /\ k - 1 \in 0 .. Len(temporal)
  BY <1>1, <1>2, <1>3
<1>6. Delays(temporal)[k - 1] \in Nat
  <2>1. Sums(Delays(temporal), temporal, Len(temporal))
    BY <1>1, DelaysSum
  <2>. QED
    BY <1>5, <2>1 DEF Sums
<1>7. FromOf(c + 1) \in Nat
  <2>1. PICK b \in 1 .. Len(planned) + 1 : b = c + 1
    BY <1>5
  <2>2. b = 1 \/ (b # 1 /\ b - 1 \in DOMAIN planned)
    BY <1>1, <2>1
  <2>3. \A j \in DOMAIN planned : planned[j] \in PlannedSegment
    BY <1>1
  <2>4. FromOf(b) \in Nat
    BY <2>2, <2>3 DEF FromOf, PlannedSegment
  <2>. QED
    BY <2>1, <2>4
<1>. DEFINE time == temporal[k].at - Delays(temporal)[k - 1]
<1>8. time = FromOf(c + 1) /\ time \in Nat
  BY <1>4, <1>6, <1>7
<1>9. /\ \E i \in DOMAIN waypoints : waypoints[i].at = time
      /\ \A i \in DOMAIN waypoints :
           waypoints[i].at = time => Place[waypoints[i].joints] = Place[JointsAt(c + 1)]
  BY <1>5, <1>8 DEF Settled, OfProgram, CarriedOut
<1>. HIDE DEF time
<1>10. \A i, j \in DOMAIN waypoints : i < j => waypoints[i].at <= waypoints[j].at
  BY DEF Track, Smooth
<1>11. /\ ExpectedAt(time) \in DOMAIN waypoints
       /\ waypoints[ExpectedAt(time)].at = time
  BY <1>1, <1>8, <1>9, <1>10, ExpectedThen
<1>12. ExpectedAt(time) # 0
  BY <1>1, <1>11
<1>13. Place[waypoints[ExpectedAt(time)].joints] = Place[JointsAt(c + 1)]
  BY <1>9, <1>11
<1>. QED
  BY <1>4, <1>5, <1>12, <1>13, LastMotion DEF time, Precede

\* The plan and the events of a program keep the same time but for the pauses, for
\* any solver and any planner of segments that keeps the dispatcher's promise
\* (TimelineScheduler::schedule beside PlanCompiler::compile_segments): at the
\* moment an event is stamped, less the pauses before it,
\* expected_waypoint_index_at names a waypoint where the motion before it ends.
THEOREM PlanAndEventsMeet == Spec => []EventsMeetTheArm
<1>1. Init => Track /\ Settled /\ Clocked
  BY DEF Init, Track, Laid, Smooth, FirstOf, FromOf, Duration, Settled, Clocked, CarriedOut
<1>2. IInv /\ Track /\ Settled /\ Clocked /\ [Next]_vars => (Track /\ Settled /\ Clocked)'
  BY NextTrack, NextSettled, NextClocked
<1>. QED
  BY <1>1, <1>2, EventsMeet, Invariant, PTL DEF Spec

-----------------------------------------------------------------------------
(* The default planners keep the promise                                    *)

CONSTANTS
  Facing,                \* see SegmentPlanner
  JointDistance(_, _), SolvePose(_, _, _), MaxIterations, IkError, WithinLimits,
  CartesianStep, DefaultSpeed, IkFailed, JointLimitViolation

Planner == INSTANCE SegmentPlanner

\* Targets lie on the line of places, and ask for an orientation or for none.
Solves(facings) ==
  /\ Planner!SolversKeep(Places, facings)
  /\ \A target \in Targets :
       target.place \in Places /\ target.facing \in facings \cup {AnyFacing}

\* The segments of a program and those only an editor makes.
PlannerSegments ==
  Segment
  \cup [kind : {"MoveJPosition", "MoveJPose"}, origin : Origins, target : Targets,
        speed : Speeds \cup {NoSpeed}]
  \cup [kind : {"Delay"}, origin : Origins, seconds : Nat]
  \cup [kind : {"SetOutput"}, origin : Origins, amount : Nat]

LEMMA LineOfPlaces ==
  ASSUME NEW facings, Solves(facings)
  PROVE  /\ Places \subseteq Int /\ \A a, b \in Places : a .. b \subseteq Places
         /\ Place \in [Joints -> Places] /\ Facing \in [Joints -> facings]
         /\ WithinLimits \subseteq Joints
         /\ {MaxIterations, IkError, IkFailed, JointLimitViolation} \cap Joints = {}
         /\ DefaultSpeed \in Nat \ {0} /\ NoSpeed \notin Nat
         /\ \A q, r \in Joints :
              JointDistance(q, r) \in Nat /\ (JointDistance(q, r) = 0 => q = r)
BY DEF Solves, Planner!SolversKeep

\* A solution is a configuration at the place it was sought for.
LEMMA SolutionsLie ==
  ASSUME NEW facings, Solves(facings), NEW q \in Joints, NEW place \in Places,
         NEW facing \in facings \cup {AnyFacing}
  PROVE  /\ SolvePosition(q, place) \in {MaxIterations, IkError} \cup Joints
         /\ SolvePosition(q, place) \in Joints => Place[SolvePosition(q, place)] = place
         /\ place = Place[q] => SolvePosition(q, place) = q
         /\ facing # AnyFacing =>
              SolvePose(q, place, facing) \in {MaxIterations, IkError} \cup Joints
         /\ SolvePose(q, place, facing) \in Joints =>
              Place[SolvePose(q, place, facing)] = place
         /\ place = Place[q] /\ facing = Facing[q] => SolvePose(q, place, facing) = q
<1>1. \A p \in Joints, at \in Places :
        /\ SolvePosition(p, at) \in
             {MaxIterations, IkError} \cup {r \in Joints : Place[r] = at}
        /\ at = Place[p] => SolvePosition(p, at) = p
  BY DEF Solves, Planner!SolversKeep
<1>2. \A p \in Joints, at \in Places, f \in facings \cup {AnyFacing} :
        /\ f # AnyFacing => SolvePose(p, at, f) \in {MaxIterations, IkError} \cup Joints
        /\ SolvePose(p, at, f) \in Joints => Place[SolvePose(p, at, f)] = at
        /\ at = Place[p] /\ f = Facing[p] => SolvePose(p, at, f) = p
  BY DEF Solves, Planner!SolversKeep
<1>3. {MaxIterations, IkError, IkFailed, JointLimitViolation} \cap Joints = {}
  BY LineOfPlaces
<1>4. /\ SolvePosition(q, place) \in
           {MaxIterations, IkError} \cup {r \in Joints : Place[r] = place}
      /\ place = Place[q] => SolvePosition(q, place) = q
  BY <1>1
<1>5. /\ SolvePosition(q, place) \in {MaxIterations, IkError} \cup Joints
      /\ SolvePosition(q, place) \in Joints => Place[SolvePosition(q, place)] = place
  BY <1>3, <1>4
<1>. QED
  BY <1>2, <1>4, <1>5

\* Goals: a configuration within the limits at the target, or an error.
LEMMA GoalsLie ==
  ASSUME NEW facings, Solves(facings), NEW q \in Joints, NEW place \in Places,
         NEW facing \in facings \cup {AnyFacing}, NEW target,
         target.place = place, target.facing = facing
  PROVE  /\ LET goal == Planner!ResolvePosition(q, place)
            IN  goal \notin Planner!PlanningErrors => goal \in Joints /\ Place[goal] = place
         /\ LET goal == Planner!ResolvePose(q, target)
            IN  goal \notin Planner!PlanningErrors => goal \in Joints /\ Place[goal] = place
<1>1. ASSUME NEW x
      PROVE  \/ Planner!Validated(x) \in Planner!PlanningErrors
             \/ Planner!Validated(x) = x /\ x \in WithinLimits
  BY DEF Planner!Validated, Planner!PlanningErrors
<1>2. WithinLimits \subseteq Joints
  BY LineOfPlaces
<1>3. LET goal == Planner!ResolvePosition(q, place)
      IN  goal \notin Planner!PlanningErrors => goal \in Joints /\ Place[goal] = place
  BY <1>1, <1>2, SolutionsLie DEF Planner!ResolvePosition
<1>4. LET goal == Planner!Validated(SolvePose(q, place, facing))
      IN  goal \notin Planner!PlanningErrors => goal \in Joints /\ Place[goal] = place
  BY <1>1, <1>2, SolutionsLie
<1>. QED
  BY <1>3, <1>4 DEF Planner!ResolvePose

\* A move takes no time without speed or without way, and only then.
LEMMA TimeOfAWay ==
  ASSUME NEW d \in Nat, NEW v \in Nat
  PROVE  /\ Planner!TotalTime(d, v) \in Nat
         /\ Planner!TotalTime(d, v) = 0 <=> v = 0 \/ d = 0
<1>1. CASE v = 0
  BY <1>1 DEF Planner!TotalTime
<1>2. CASE v # 0
  <2>. DEFINE n == (d + v - 1) \div v
  <2>1. Planner!TotalTime(d, v) = n
    BY <1>2 DEF Planner!TotalTime
  <2>2. n \in Int /\ v * n <= d + v - 1 /\ d + v - 1 < v * n + v
    BY <1>2
  <2>. HIDE DEF n
  <2>3. n >= 0
    BY <1>2, <2>2
  <2>4. n = 0 => d = 0
    BY <1>2, <2>2
  <2>5. d = 0 => n = 0
    BY <1>2, <2>2
  <2>. QED
    BY <1>2, <2>1, <2>2, <2>3, <2>4, <2>5
<1>. QED
  BY <1>1, <1>2

\* On the way: a configuration, or nothing, and the seed where it serves.
LEMMA OnTheWayLies ==
  ASSUME NEW facings, Solves(facings), NEW q \in Joints, NEW place \in Places,
         NEW facing \in facings \cup {AnyFacing}
  PROVE  /\ Planner!OnTheWay(q, place, facing) \in {MaxIterations, IkError} \cup Joints
         /\ place = Place[q] /\ facing \in {AnyFacing, Facing[q]} =>
              Planner!OnTheWay(q, place, facing) = q
<1>1. q \notin {MaxIterations, IkError}
  BY LineOfPlaces
<1>. QED
  BY <1>1, SolutionsLie DEF Planner!OnTheWay

\* States of a line that is sampled.
Samplers == [q : Joints, travelled : Int, points : Seq(Waypoint), failed : BOOLEAN]

Solved(s, q, d, w) == [s EXCEPT !.q = q, !.travelled = d, !.points = Append(@, w)]

\* What a sample solved, and what a sample that failed, leaves.
LEMMA SamplersChange ==
  ASSUME NEW s \in Samplers, NEW q \in Joints, NEW d \in Int, NEW w \in Waypoint
  PROVE  Solved(s, q, d, w) \in Samplers /\ Solved(s, q, d, w).points = Append(s.points, w)
<1>1. s.points \in Seq(Waypoint)
  BY DEF Samplers
<1>2. Append(s.points, w) \in Seq(Waypoint)
  BY <1>1
<1>3. ASSUME NEW points \in Seq(Waypoint)
      PROVE  [s EXCEPT !.q = q, !.travelled = d, !.points = points] \in Samplers
  BY DEF Samplers
<1>4. [s EXCEPT !.q = q, !.travelled = d, !.points = Append(s.points, w)] \in Samplers
  BY <1>2, <1>3
<1>5. [s EXCEPT !.q = q, !.travelled = d, !.points = Append(s.points, w)].points
        = Append(s.points, w)
  BY DEF Samplers
<1>. QED
  BY <1>4, <1>5 DEF Solved

LEMMA SamplersFail ==
  ASSUME NEW s \in Samplers
  PROVE  [s EXCEPT !.failed = TRUE] \in Samplers /\ [s EXCEPT !.failed = TRUE].failed
<1>1. [s EXCEPT !.failed = TRUE] \in Samplers
  BY DEF Samplers
<1>2. [s EXCEPT !.failed = TRUE].failed
  BY DEF Samplers
<1>. QED
  BY <1>1, <1>2

\* What one sample does to those before it.
Added(after, before, q0, target, t) ==
  /\ after \in Samplers
  /\ ~after.failed =>
       /\ ~before.failed
       /\ \/ after.points = before.points
          \/ \E q \in Joints :
               after.points = Append(before.points, [joints |-> q, at |-> t])
  /\ t = 0 /\ target # Place[q0] /\ before.q = q0 /\ ~before.failed =>
       after.points = Append(before.points, [joints |-> q0, at |-> 0])

\* A sample adds a waypoint of its time, adds none, or fails; the first one is
\* where the arm already is.
LEMMA SampleAdds ==
  ASSUME NEW facings, Solves(facings), NEW q0 \in Joints, NEW target \in Places,
         NEW facing \in facings \cup {AnyFacing}, NEW speed \in Nat,
         NEW before \in Samplers, NEW t \in Nat
  PROVE  Added(Planner!Sample(q0, target, facing, speed, before, t),
               before, q0, target, t)
<1>. DEFINE from == Place[q0]
            distance == Planner!Distance(from, target)
            d == IF speed * t > distance THEN distance ELSE speed * t
            place == IF from < target THEN from + d ELSE from - d
            turned == IF facing = AnyFacing THEN AnyFacing
                      ELSE IF 2 * d < distance THEN Facing[q0] ELSE facing
            q == Planner!OnTheWay(before.q, place, turned)
            after == Planner!Sample(q0, target, facing, speed, before, t)
            solved == q \notin {MaxIterations, IkError}
            near == d - before.travelled < CartesianStep
<1>1. /\ Places \subseteq Int /\ (\A a, b \in Places : a .. b \subseteq Places)
      /\ from \in Places /\ Facing[q0] \in facings
      /\ {MaxIterations, IkError} \cap Joints = {}
  BY LineOfPlaces
<1>2. from \in Int /\ target \in Int
  BY <1>1
<1>3. /\ distance \in Nat
      /\ from < target => distance = target - from
      /\ ~(from < target) => distance = from - target
  BY <1>2 DEF Planner!Distance
<1>4. speed * t \in Nat
  OBVIOUS
<1>5. after = CASE before.failed -> before
                [] ~before.failed /\ solved ->
                     [before EXCEPT !.q = q, !.travelled = d,
                                    !.points = Append(@, [joints |-> q, at |-> t])]
                [] ~before.failed /\ ~solved /\ near /\ q = MaxIterations -> before
                [] OTHER -> [before EXCEPT !.failed = TRUE]
  BY DEF Planner!Sample, Planner!Waypoint
<1>6. t = 0 => speed * t = 0
  OBVIOUS
<1>. HIDE DEF from, distance, after, near
<1>7. d \in Nat /\ d <= distance /\ (t = 0 => d = 0)
  BY <1>3, <1>4, <1>6
<1>8. turned \in facings \cup {AnyFacing}
  BY <1>1
<1>9. t = 0 /\ target # from => turned \in {AnyFacing, Facing[q0]}
  <2>1. target # from => 0 < distance
    BY <1>2, <1>3
  <2>2. t = 0 => 2 * d = 0
    BY <1>7
  <2>. HIDE DEF d
  <2>. QED
    BY <2>1, <2>2
<1>. HIDE DEF d, turned
<1>10. place \in Places /\ (t = 0 => place = from)
  <2>1. CASE from < target
    <3>1. place \in from .. target
      BY <1>2, <1>3, <1>7, <2>1
    <3>2. from .. target \subseteq Places
      BY <1>1
    <3>. QED
      BY <1>2, <1>7, <2>1, <3>1, <3>2
  <2>2. CASE ~(from < target)
    <3>1. place \in target .. from
      BY <1>2, <1>3, <1>7, <2>2
    <3>2. target .. from \subseteq Places
      BY <1>1
    <3>. QED
      BY <1>2, <1>7, <2>2, <3>1, <3>2
  <2>. QED
    BY <2>1, <2>2
<1>11. /\ before.q \in Joints /\ before.points \in Seq(Waypoint) /\ before.failed \in BOOLEAN
       /\ before.travelled \in Int
  BY DEF Samplers
<1>. HIDE DEF place
<1>12. /\ q \in {MaxIterations, IkError} \cup Joints
       /\ t = 0 /\ target # from /\ before.q = q0 => q = q0
  <2>1. q \in {MaxIterations, IkError} \cup Joints
    BY <1>8, <1>10, <1>11, OnTheWayLies
  <2>2. ASSUME t = 0, target # from, before.q = q0
        PROVE  q = q0
    <3>1. place = Place[q0] /\ turned \in {AnyFacing, Facing[q0]}
      BY <1>9, <1>10, <2>2 DEF from
    <3>. QED
      BY <1>8, <1>10, <2>2, <3>1, OnTheWayLies
  <2>. QED
    BY <2>1, <2>2
<1>. HIDE DEF q
<1>13. CASE before.failed
  <2>1. after = before
    BY <1>5, <1>13
  <2>2. Added(after, before, q0, target, t)
    BY <1>13, <2>1 DEF Added
  <2>. QED
    BY <2>2 DEF after
<1>14. CASE ~before.failed /\ solved
  <2>. DEFINE w == [joints |-> q, at |-> t]
  <2>1. after = [before EXCEPT !.q = q, !.travelled = d, !.points = Append(@, w)]
    BY <1>5, <1>14
  <2>2. q \in Joints /\ w \in Waypoint
    BY <1>12, <1>14 DEF Waypoint
  <2>. HIDE DEF w
  <2>3. d \in Int
    BY <1>7
  <2>4. after \in Samplers /\ after.points = Append(before.points, w)
    <3>1. after = Solved(before, q, d, w)
      BY <2>1 DEF Solved
    <3>. QED
      BY <2>2, <2>3, <3>1, SamplersChange
  <2>5. t = 0 /\ target # from /\ before.q = q0 => w = [joints |-> q0, at |-> 0]
    BY <1>12 DEF w
  <2>6. Added(after, before, q0, target, t)
    BY <1>14, <2>2, <2>4, <2>5 DEF Added, w, from
  <2>. QED
    BY <2>6 DEF after
<1>15. CASE ~before.failed /\ ~solved
  <2>1. \/ after = before
        \/ after = [before EXCEPT !.failed = TRUE]
    BY <1>5, <1>15
  <2>2. [before EXCEPT !.failed = TRUE] \in Samplers
        /\ [before EXCEPT !.failed = TRUE].failed
    BY SamplersFail
  <2>3. after \in Samplers /\ (after.failed \/ after.points = before.points)
    BY <2>1, <2>2
  <2>4. ~(t = 0 /\ target # from /\ before.q = q0)
    BY <1>1, <1>12, <1>15
  <2>5. Added(after, before, q0, target, t)
    BY <1>15, <2>3, <2>4 DEF Added, from
  <2>. QED
    BY <2>5 DEF after
<1>. QED
  BY <1>11, <1>13, <1>14, <1>15

\* Waypoints of the samples before t, one after the other in time.
TimesBelow(points, t) ==
  \A i \in DOMAIN points :
    /\ points[i].at \in 0 .. t - 1
    /\ \A k \in DOMAIN points : i < k => points[i].at < points[k].at

\* What the samples before t make, as long as none of them fails.
SampledWell(s, q0, target, t) ==
  s.failed \/
  /\ TimesBelow(s.points, t)
  /\ t = 0 => s.points = <<>> /\ s.q = q0
  /\ t # 0 /\ target # Place[q0] =>
       s.points # <<>> /\ s.points[1] = [joints |-> q0, at |-> 0]

\* The next sample keeps the order.
LEMMA OrderGrows ==
  ASSUME NEW points \in Seq(Waypoint), NEW t \in Nat, TimesBelow(points, t), NEW q \in Joints
  PROVE  /\ TimesBelow(points, t + 1)
         /\ TimesBelow(Append(points, [joints |-> q, at |-> t]), t + 1)
<1>. DEFINE more == Append(points, [joints |-> q, at |-> t])
<1>1. DOMAIN points = 1 .. Len(points) /\ Len(points) \in Nat
  OBVIOUS
<1>2. /\ DOMAIN more = 1 .. Len(points) + 1
      /\ more[Len(points) + 1].at = t
      /\ \A i \in 1 .. Len(points) : more[i] = points[i]
  OBVIOUS
<1>3. ASSUME NEW i \in 1 .. Len(points)
      PROVE  /\ points[i].at \in 0 .. t - 1 /\ points[i].at \in 0 .. t + 1 - 1
             /\ points[i].at < t
             /\ \A k \in 1 .. Len(points) : i < k => points[i].at < points[k].at
  BY <1>1 DEF TimesBelow
<1>4. TimesBelow(points, t + 1)
  BY <1>1, <1>3 DEF TimesBelow
<1>. HIDE DEF more
<1>5. ASSUME NEW i \in 1 .. Len(points) + 1
      PROVE  /\ more[i].at \in 0 .. t + 1 - 1
             /\ \A k \in 1 .. Len(points) + 1 : i < k => more[i].at < more[k].at
  <2>1. CASE i = Len(points) + 1
    BY <1>1, <1>2, <2>1
  <2>2. CASE i # Len(points) + 1
    <3>1. i \in 1 .. Len(points)
      BY <1>1, <2>2
    <3>2. more[i].at \in 0 .. t + 1 - 1
      BY <1>2, <1>3, <3>1
    <3>3. ASSUME NEW k \in 1 .. Len(points) + 1, i < k
          PROVE  more[i].at < more[k].at
      <4>1. CASE k = Len(points) + 1
        BY <1>2, <1>3, <3>1, <4>1
      <4>2. CASE k # Len(points) + 1
        <5>1. k \in 1 .. Len(points)
          BY <1>1, <4>2
        <5>. QED
          BY <1>2, <1>3, <3>1, <3>3, <5>1
      <4>. QED
        BY <4>1, <4>2
    <3>. QED
      BY <3>2, <3>3
  <2>. QED
    BY <2>1, <2>2
<1>6. TimesBelow(more, t + 1)
  BY <1>2, <1>5 DEF TimesBelow
<1>. QED
  BY <1>4, <1>6 DEF more

LEMMA SampledWellGrows ==
  ASSUME NEW facings, Solves(facings), NEW q0 \in Joints, NEW target \in Places,
         NEW facing \in facings \cup {AnyFacing}, NEW speed \in Nat,
         NEW before \in Samplers, NEW t \in Nat, SampledWell(before, q0, target, t)
  PROVE  SampledWell(Planner!Sample(q0, target, facing, speed, before, t),
                     q0, target, t + 1)
<1>. DEFINE after == Planner!Sample(q0, target, facing, speed, before, t)
<1>0. Added(after, before, q0, target, t)
  BY SampleAdds
<1>1. /\ after \in Samplers
      /\ ~after.failed =>
           /\ ~before.failed
           /\ \/ after.points = before.points
              \/ \E q \in Joints :
                   after.points = Append(before.points, [joints |-> q, at |-> t])
      /\ t = 0 /\ target # Place[q0] /\ before.q = q0 /\ ~before.failed =>
           after.points = Append(before.points, [joints |-> q0, at |-> 0])
  <2>. HIDE DEF after
  <2>. QED
    BY <1>0 DEF Added
<1>. HIDE DEF after
<1>2. SUFFICES ASSUME ~after.failed
               PROVE  SampledWell(after, q0, target, t + 1)
  <2>1. after.failed => SampledWell(after, q0, target, t + 1)
    BY DEF SampledWell
  <2>. QED
    BY <2>1 DEF after
<1>3. ~before.failed /\ before.points \in Seq(Waypoint)
  BY <1>1, <1>2 DEF Samplers
<1>4. /\ TimesBelow(before.points, t)
      /\ t = 0 => before.points = <<>> /\ before.q = q0
      /\ t # 0 /\ target # Place[q0] =>
           before.points # <<>> /\ before.points[1] = [joints |-> q0, at |-> 0]
  BY <1>3 DEF SampledWell
<1>5. TimesBelow(after.points, t + 1)
  BY <1>1, <1>2, <1>3, <1>4, OrderGrows
<1>6. ASSUME target # Place[q0]
      PROVE  after.points # <<>> /\ after.points[1] = [joints |-> q0, at |-> 0]
  <2>1. CASE t = 0
    <3>1. after.points = Append(<<>>, [joints |-> q0, at |-> 0])
      BY <1>1, <1>3, <1>4, <1>6, <2>1
    <3>. QED
      BY <3>1
  <2>2. CASE t # 0
    <3>1. before.points # <<>> /\ before.points[1] = [joints |-> q0, at |-> 0]
      BY <1>4, <1>6, <2>2
    <3>2. ASSUME NEW w
          PROVE  /\ Append(before.points, w) # <<>>
                 /\ Append(before.points, w)[1] = before.points[1]
      BY <1>3, <3>1
    <3>. QED
      BY <1>1, <1>2, <3>1, <3>2
  <2>. QED
    BY <2>1, <2>2
<1>7. t + 1 # 0
  OBVIOUS
<1>. QED
  BY <1>5, <1>6, <1>7 DEF SampledWell

\* f is the sequence of those states.
MadeSamples(f, q0, target, facing, speed, time) ==
  /\ Planner!Sampled(q0, target, facing, speed, time) = f[time]
  /\ f[0] = [q |-> q0, travelled |-> 0, points |-> <<>>, failed |-> FALSE]
  /\ \A t \in 1 .. time :
       f[t] = Planner!Sample(q0, target, facing, speed, f[t - 1], t - 1)

\* The samples exist, and each is made from the one before.
LEMMA SamplesAreMade ==
  ASSUME NEW facings, Solves(facings), NEW q0 \in Joints, NEW target \in Places,
         NEW facing \in facings \cup {AnyFacing}, NEW speed \in Nat, NEW time \in Nat
  PROVE  \E f : MadeSamples(f, q0, target, facing, speed, time)
<1>. DEFINE base == [q |-> q0, travelled |-> 0, points |-> <<>>, failed |-> FALSE]
            Following(s, t) == Planner!Sample(q0, target, facing, speed, s, t - 1)
            step == [t \in 1 .. time |-> [s \in Samplers |-> Following(s, t)]]
            made == CHOOSE f : f = [t \in 0 .. time |->
                                      IF t = 0 THEN base ELSE Following(f[t - 1], t)]
<1>1. base \in Samplers
  BY DEF Samplers
<1>2. step \in Steps(Samplers, time)
  <2>1. ASSUME NEW t \in 1 .. time, NEW s \in Samplers
        PROVE  Following(s, t) \in Samplers
    <3>1. t - 1 \in Nat
      OBVIOUS
    <3>2. Added(Following(s, t), s, q0, target, t - 1)
      BY <3>1, SampleAdds
    <3>. QED
      BY <3>2 DEF Added
  <2>. HIDE DEF Following
  <2>. QED
    BY <2>1 DEF Steps
<1>. HIDE DEF base, Following
<1>3. PICK f : f \in Ways(Samplers, base, time, step)
  <2>. HIDE DEF step
  <2>. QED
    BY <1>1, <1>2, Iterate
<1>4. /\ f \in [0 .. time -> Samplers] /\ f[0] = base
      /\ \A k \in 1 .. time : f[k] = step[k][f[k - 1]]
  <2>. HIDE DEF step
  <2>. QED
    BY <1>3 DEF Ways
<1>5. ASSUME NEW k \in 1 .. time
      PROVE  f[k] = Following(f[k - 1], k)
  <2>1. k - 1 \in 0 .. time
    OBVIOUS
  <2>2. f[k - 1] \in Samplers
    BY <1>4, <2>1
  <2>. QED
    BY <1>4, <2>2
<1>6. f = [t \in 0 .. time |-> IF t = 0 THEN base ELSE Following(f[t - 1], t)]
  <2>1. ASSUME NEW t \in 0 .. time
        PROVE  f[t] = IF t = 0 THEN base ELSE Following(f[t - 1], t)
    <3>1. t # 0 => t \in 1 .. time
      OBVIOUS
    <3>. QED
      BY <1>4, <1>5, <3>1
  <2>. QED
    BY <1>4, <2>1
<1>7. made = [t \in 0 .. time |-> IF t = 0 THEN base ELSE Following(made[t - 1], t)]
  BY <1>6
<1>8. Planner!Sampled(q0, target, facing, speed, time) = made[time]
  BY DEF Planner!Sampled, base, Following
<1>. HIDE DEF made
<1>9. 0 \in 0 .. time /\ \A t \in 1 .. time : t \in 0 .. time /\ t # 0
  OBVIOUS
<1>10. made[0] = base /\ \A t \in 1 .. time : made[t] = Following(made[t - 1], t)
  BY <1>7, <1>9
<1>11. MadeSamples(made, q0, target, facing, speed, time)
  BY <1>8, <1>10 DEF MadeSamples, base, Following
<1>. QED
  BY <1>11

\* The samples of a line, unless one of them fails.
LEMMA SampledLies ==
  ASSUME NEW facings, Solves(facings), NEW q0 \in Joints, NEW target \in Places,
         NEW facing \in facings \cup {AnyFacing}, NEW speed \in Nat, NEW time \in Nat
  PROVE  /\ Planner!Sampled(q0, target, facing, speed, time) \in Samplers
         /\ SampledWell(Planner!Sampled(q0, target, facing, speed, time), q0, target, time)
<1>0. PICK f : MadeSamples(f, q0, target, facing, speed, time)
  BY SamplesAreMade
<1>1. /\ Planner!Sampled(q0, target, facing, speed, time) = f[time]
      /\ f[0] = [q |-> q0, travelled |-> 0, points |-> <<>>, failed |-> FALSE]
      /\ \A t \in 1 .. time :
           f[t] = Planner!Sample(q0, target, facing, speed, f[t - 1], t - 1)
  BY <1>0 DEF MadeSamples
<1>. DEFINE Well(t) == f[t] \in Samplers /\ SampledWell(f[t], q0, target, t)
            T == {t \in 0 .. time : ~Well(t)}
<1>2. SUFFICES ASSUME T # {} PROVE FALSE
  <2>1. T = {} => Well(time)
    OBVIOUS
  <2>. QED
    BY <1>1, <2>1
<1>3. PICK t \in T : \A k \in T : t <= k
  <2>1. T \subseteq Nat
    OBVIOUS
  <2>. HIDE DEF T
  <2>. QED
    BY <1>2, <2>1, Smallest
<1>4. t \in 0 .. time /\ ~Well(t)
  OBVIOUS
<1>5. CASE t = 0
  <2>1. f[0] \in Samplers
    BY <1>1 DEF Samplers
  <2>2. f[0].points = <<>> /\ f[0].q = q0
    BY <1>1
  <2>3. TimesBelow(<<>>, 0)
    BY DEF TimesBelow
  <2>4. SampledWell(f[0], q0, target, 0)
    BY <2>2, <2>3 DEF SampledWell
  <2>. QED
    BY <1>4, <1>5, <2>1, <2>4
<1>6. CASE t # 0
  <2>1. t - 1 \in 0 .. time /\ t \in 1 .. time /\ ~(t <= t - 1) /\ t - 1 \in Nat
        /\ t - 1 + 1 = t
    BY <1>4, <1>6
  <2>2. Well(t - 1)
    <3>1. t - 1 \notin T
      <4>. HIDE DEF T
      <4>. QED
        BY <1>3, <2>1
    <3>. HIDE DEF Well
    <3>. QED
      BY <2>1, <3>1
  <2>3. f[t] = Planner!Sample(q0, target, facing, speed, f[t - 1], t - 1)
    BY <1>1, <2>1
  <2>. DEFINE before == f[t - 1]
              n == t - 1
  <2>4. before \in Samplers /\ SampledWell(before, q0, target, n) /\ n \in Nat
        /\ f[t] = Planner!Sample(q0, target, facing, speed, before, n)
    BY <2>1, <2>2, <2>3
  <2>. HIDE DEF before, n, Well, T
  <2>. DEFINE after == Planner!Sample(q0, target, facing, speed, before, n)
  <2>5. f[t] \in Samplers
    <3>1. after \in Samplers
      <4>1. Added(after, before, q0, target, n)
        BY <2>4, SampleAdds
      <4>. HIDE DEF after
      <4>. QED
        BY <4>1 DEF Added
    <3>. QED
      BY <2>4, <3>1
  <2>6. SampledWell(f[t], q0, target, n + 1)
    BY <2>4, SampledWellGrows
  <2>. QED
    BY <1>4, <2>1, <2>5, <2>6 DEF n, Well
<1>. QED
  BY <1>5, <1>6

\* What a trajectory of waypoints promises of the clock and of the configuration
\* it was planned from.
StartsWell(segment, q, trajectory) ==
  /\ trajectory \in Seq(Waypoint) /\ trajectory # <<>>
  /\ \/ trajectory[1].joints = q
     \/ trajectory[Len(trajectory)].at = 0 /\ segment.kind \in CartesianKinds
  /\ trajectory[1].at = 0
  /\ \A i, k \in DOMAIN trajectory : i < k =>
       /\ trajectory[i].at <= trajectory[k].at
       /\ trajectory[i].at = trajectory[k].at => trajectory[i].joints = trajectory[k].joints

\* A joint move ends at its goal, unless it takes no time.
LEMMA JointMoveStarts ==
  ASSUME NEW facings, Solves(facings), NEW segment, NEW q \in Joints, NEW goal \in Joints,
         NEW speed \in Nat
  PROVE  LET trajectory == Planner!JointMove(q, goal, speed)
         IN  /\ StartsWell(segment, q, trajectory)
             /\ trajectory[Len(trajectory)].joints = IF speed = 0 THEN q ELSE goal
<1>. DEFINE time == Planner!TotalTime(JointDistance(q, goal), speed)
            trajectory == Planner!JointMove(q, goal, speed)
            w == [joints |-> q, at |-> 0]
            z == [joints |-> goal, at |-> time]
<1>1. /\ JointDistance(q, goal) \in Nat
      /\ JointDistance(q, goal) = 0 => q = goal
  BY LineOfPlaces
<1>2. /\ time \in Nat
      /\ time = 0 <=> speed = 0 \/ JointDistance(q, goal) = 0
  BY <1>1, TimeOfAWay
<1>3. trajectory = IF time = 0 THEN <<w>> ELSE <<w, z>>
  BY DEF Planner!JointMove, Planner!Waypoint
<1>. HIDE DEF time, trajectory
<1>4. w \in Waypoint /\ z \in Waypoint
  BY <1>2 DEF Waypoint
<1>5. CASE time = 0
  <2>1. trajectory = <<w>>
    BY <1>3, <1>5
  <2>2. <<w>> \in Seq(Waypoint) /\ <<w>> # <<>> /\ DOMAIN <<w>> = {1} /\ Len(<<w>>) = 1
    BY <1>4
  <2>3. StartsWell(segment, q, trajectory)
    BY <2>1, <2>2 DEF StartsWell
  <2>4. trajectory[Len(trajectory)].joints = q
    BY <2>1, <2>2
  <2>5. q = IF speed = 0 THEN q ELSE goal
    BY <1>1, <1>2, <1>5
  <2>. QED
    BY <2>3, <2>4, <2>5 DEF trajectory
<1>6. CASE time # 0
  <2>1. trajectory = <<w, z>>
    BY <1>3, <1>6
  <2>2. /\ <<w, z>> \in Seq(Waypoint) /\ <<w, z>> # <<>>
        /\ DOMAIN <<w, z>> = {1, 2} /\ Len(<<w, z>>) = 2
    BY <1>4
  <2>3. StartsWell(segment, q, trajectory)
    BY <1>2, <1>6, <2>1, <2>2 DEF StartsWell
  <2>. QED
    BY <1>2, <1>6, <2>1, <2>3 DEF trajectory
<1>. QED
  BY <1>5, <1>6

\* And of where a linear move leads.
EndsWell(segment, q, goal, target, speed, trajectory) ==
  LET last == trajectory[Len(trajectory)]
  IN  /\ StartsWell(segment, q, trajectory)
      /\ last.joints = goal
      /\ last.at = 0 => speed = 0 \/ target = Place[q]

\* A linear move that is answered ends at its goal, and is over at once only
\* without speed or without a way to go.
LEMMA LineMoveStarts ==
  ASSUME NEW facings, Solves(facings), NEW segment, segment.kind \in CartesianKinds,
         NEW q \in Joints, NEW goal \in Joints, NEW target \in Places,
         NEW facing \in facings \cup {AnyFacing}, NEW speed \in Nat,
         Planner!LineMove(q, goal, target, facing, speed) \notin Planner!PlanningErrors
  PROVE  EndsWell(segment, q, goal, target, speed,
                  Planner!LineMove(q, goal, target, facing, speed))
<1>. DEFINE way == Planner!Distance(Place[q], target)
            time == Planner!TotalTime(way, speed)
            sampled == Planner!Sampled(q, target, facing, speed, time)
            points == sampled.points
            z == [joints |-> goal, at |-> time]
            trajectory == Planner!LineMove(q, goal, target, facing, speed)
<1>1. Place[q] \in Int /\ target \in Int
  BY LineOfPlaces
<1>2. way \in Nat /\ (way = 0 <=> target = Place[q])
  BY <1>1 DEF Planner!Distance
<1>. HIDE DEF way
<1>3. time \in Nat /\ (time = 0 <=> speed = 0 \/ way = 0)
  BY <1>2, TimeOfAWay
<1>4. trajectory = IF sampled.failed THEN IkFailed ELSE Append(points, z)
  BY DEF Planner!LineMove, Planner!Waypoint, way
<1>. HIDE DEF time
<1>5. sampled \in Samplers /\ SampledWell(sampled, q, target, time)
  BY <1>3, SampledLies
<1>. HIDE DEF sampled, trajectory
<1>6. trajectory = Append(points, z) /\ ~sampled.failed
  BY <1>4 DEF Planner!PlanningErrors, trajectory
<1>7. /\ points \in Seq(Waypoint) /\ TimesBelow(points, time)
      /\ time = 0 => points = <<>>
      /\ time # 0 /\ target # Place[q] =>
           points # <<>> /\ points[1] = [joints |-> q, at |-> 0]
  BY <1>5, <1>6 DEF SampledWell, Samplers
<1>. HIDE DEF points
<1>8. z \in Waypoint /\ z.at = time /\ z.joints = goal
  BY <1>3 DEF Waypoint
<1>. HIDE DEF z
<1>. DEFINE n == Len(points)
<1>9. n \in Nat /\ DOMAIN points = 1 .. n
  BY <1>7
<1>10. /\ trajectory \in Seq(Waypoint) /\ trajectory # <<>>
       /\ Len(trajectory) = n + 1 /\ DOMAIN trajectory = 1 .. n + 1
       /\ trajectory[n + 1] = z
       /\ \A i \in 1 .. n : trajectory[i] = points[i]
  BY <1>6, <1>7, <1>8
<1>11. points = <<>> <=> n = 0
  BY <1>7
<1>. HIDE DEF n
<1>12. /\ trajectory[1].at = 0
       /\ \/ trajectory[1].joints = q
          \/ trajectory[Len(trajectory)].at = 0 /\ segment.kind \in CartesianKinds
  <2>1. CASE time = 0
    <3>1. trajectory[1] = z
      BY <1>7, <1>10, <1>11, <2>1
    <3>. QED
      BY <1>8, <1>10, <2>1, <3>1
  <2>2. CASE time # 0
    <3>1. points # <<>> /\ points[1] = [joints |-> q, at |-> 0]
      BY <1>2, <1>3, <1>7, <2>2
    <3>2. 1 \in 1 .. n
      BY <1>9, <1>11, <3>1
    <3>3. trajectory[1] = [joints |-> q, at |-> 0]
      BY <1>10, <3>1, <3>2
    <3>. QED
      BY <3>3
  <2>. QED
    BY <2>1, <2>2
<1>13. ASSUME NEW i \in DOMAIN trajectory, NEW k \in DOMAIN trajectory, i < k
       PROVE  trajectory[i].at < trajectory[k].at /\ trajectory[i].at \in Int
  <2>1. i \in 1 .. n /\ k \in 1 .. n + 1
    BY <1>9, <1>10, <1>13
  <2>2. /\ points[i].at \in 0 .. time - 1
        /\ \A j \in 1 .. n : i < j => points[i].at < points[j].at
    BY <1>7, <1>9, <2>1 DEF TimesBelow
  <2>3. trajectory[i] = points[i]
    BY <1>10, <2>1
  <2>4. CASE k = n + 1
    BY <1>3, <1>8, <1>10, <2>2, <2>3, <2>4
  <2>5. CASE k # n + 1
    <3>1. k \in 1 .. n
      BY <1>9, <2>1, <2>5
    <3>2. trajectory[k] = points[k]
      BY <1>10, <3>1
    <3>. QED
      BY <1>13, <2>2, <2>3, <3>1, <3>2
  <2>. QED
    BY <2>4, <2>5
<1>14. ASSUME NEW i \in DOMAIN trajectory, NEW k \in DOMAIN trajectory, i < k
       PROVE  /\ trajectory[i].at <= trajectory[k].at
              /\ trajectory[i].at = trajectory[k].at =>
                   trajectory[i].joints = trajectory[k].joints
  <2>. DEFINE early == trajectory[i].at
              late == trajectory[k].at
  <2>1. late \in Int
    <3>1. trajectory[k] \in Waypoint
      BY <1>10
    <3>. QED
      BY <3>1 DEF Waypoint
  <2>2. early < late /\ early \in Int
    BY <1>13, <1>14
  <2>. HIDE DEF early, late
  <2>3. early <= late /\ early # late
    BY <2>1, <2>2
  <2>. QED
    BY <2>3 DEF early, late
<1>15. StartsWell(segment, q, trajectory)
  BY <1>10, <1>12, <1>14 DEF StartsWell
<1>16. EndsWell(segment, q, goal, target, speed, trajectory)
  BY <1>2, <1>3, <1>8, <1>10, <1>15 DEF EndsWell
<1>. QED
  BY <1>16 DEF trajectory

\* Segments that move the arm.
MovingSegments == {segment \in PlannerSegments : segment.kind \notin {"Delay", "SetOutput"}}

LEMMA SpeedOf ==
  ASSUME NEW facings, Solves(facings), NEW segment \in MovingSegments
  PROVE  /\ Planner!Speed(segment) \in Nat
         /\ Planner!Speed(segment) = 0 => segment.speed = 0
         /\ segment \in JointSegment => Planner!Speed(segment) = segment.speed
<1>1. DefaultSpeed \in Nat \ {0} /\ NoSpeed \notin Nat
  BY LineOfPlaces
<1>2. Speeds \subseteq Nat
  BY RequestAssumption
<1>3. segment.speed \in Speeds \cup {NoSpeed}
  BY DEF MovingSegments, PlannerSegments, Segment, JointSegment, LineSegment
<1>4. segment \in JointSegment => segment.speed \in Speeds
  BY DEF JointSegment
<1>. QED
  BY <1>1, <1>2, <1>3, <1>4 DEF Planner!Speed

LEMMA GoalOf ==
  ASSUME NEW facings, Solves(facings), NEW segment \in MovingSegments, NEW q \in Joints,
         Planner!Resolve(segment, q) \notin Planner!PlanningErrors
  PROVE  /\ Planner!Resolve(segment, q) \in Joints
         /\ segment.kind = "MoveJ" => Planner!Resolve(segment, q) = segment.target
         /\ segment.kind # "MoveJ" =>
              Place[Planner!Resolve(segment, q)] = segment.target.place
<1>1. CASE segment.kind = "MoveJ"
  <2>1. segment.target \in Joints
    BY <1>1 DEF MovingSegments, PlannerSegments, Segment, JointSegment, LineSegment
  <2>2. Planner!Resolve(segment, q) = Planner!Validated(segment.target)
    BY <1>1 DEF Planner!Resolve, Planner!PositionKinds
  <2>3. Planner!Validated(segment.target) = segment.target
    <3>1. ASSUME NEW x, Planner!Validated(x) \notin Planner!PlanningErrors
          PROVE  Planner!Validated(x) = x
      BY <3>1 DEF Planner!Validated, Planner!PlanningErrors
    <3>. QED
      BY <2>2, <3>1
  <2>. QED
    BY <1>1, <2>1, <2>2, <2>3
<1>2. CASE segment.kind # "MoveJ"
  <2>. DEFINE target == segment.target
              place == target.place
              facing == target.facing
  <2>1. target \in Targets
    BY <1>2 DEF MovingSegments, PlannerSegments, Segment, JointSegment, LineSegment
  <2>2. place \in Places /\ facing \in facings \cup {AnyFacing}
    BY <2>1 DEF Solves
  <2>3. Planner!Resolve(segment, q) \in
          {Planner!ResolvePosition(q, place), Planner!ResolvePose(q, target)}
    BY <1>2 DEF Planner!Resolve
  <2>. HIDE DEF target
  <2>4. \A goal \in {Planner!ResolvePosition(q, place), Planner!ResolvePose(q, target)} :
          goal \notin Planner!PlanningErrors => goal \in Joints /\ Place[goal] = place
    BY <2>2, GoalsLie
  <2>. QED
    BY <1>2, <2>3, <2>4 DEF target
<1>. QED
  BY <1>1, <1>2

\* A wait holds the arm still.
LEMMA WaitStarts ==
  ASSUME NEW segment, NEW q \in Joints, NEW seconds \in Nat
  PROVE  StartsWell(segment, q, <<[joints |-> q, at |-> 0], [joints |-> q, at |-> seconds]>>)
<1>. DEFINE w == [joints |-> q, at |-> 0]
            z == [joints |-> q, at |-> seconds]
<1>1. w \in Waypoint /\ z \in Waypoint
  BY DEF Waypoint
<1>2. /\ <<w, z>> \in Seq(Waypoint) /\ <<w, z>> # <<>>
      /\ DOMAIN <<w, z>> = {1, 2} /\ Len(<<w, z>>) = 2
  BY <1>1
<1>. QED
  BY <1>2 DEF StartsWell

\* The planners of the default dispatcher (DefaultPlannerDispatcher::plan_segment)
\* keep what the pipeline takes a dispatcher to promise, for every IK solver that
\* answers with solutions and with its seed where that is one.
THEOREM PlannersKeepPromise ==
  ASSUME NEW facings, Solves(facings), NEW segment \in PlannerSegments, NEW q \in Joints,
         Planner!TrajectoryFor(segment, q) \notin Planner!PlanningErrors
  PROVE  Promised(segment, q, Planner!TrajectoryFor(segment, q))
<1>. DEFINE trajectory == Planner!TrajectoryFor(segment, q)
            goal == Planner!Resolve(segment, q)
            speed == Planner!Speed(segment)
            last == trajectory[Len(trajectory)]
<1>1. SUFFICES ASSUME segment.kind # "SetOutput"
               PROVE  /\ StartsWell(segment, q, trajectory)
                      /\ segment \in JointSegment =>
                           last.joints = IF segment.speed = 0 THEN q ELSE segment.target
                      /\ segment \in LineSegment =>
                           /\ Place[last.joints] = segment.target.place
                           /\ segment.speed # 0 /\ last.at = 0 =>
                                Place[q] = segment.target.place
  <2>1. CASE segment.kind = "SetOutput"
    <3>1. trajectory = <<>>
      BY <2>1 DEF Planner!TrajectoryFor
    <3>2. segment \notin JointSegment /\ segment \notin LineSegment
      BY <2>1 DEF JointSegment, LineSegment
    <3>3. <<>> \in Seq(Waypoint) /\ DOMAIN <<>> = {}
      OBVIOUS
    <3>. HIDE DEF trajectory
    <3>4. Promised(segment, q, trajectory)
      BY <2>1, <3>1, <3>2, <3>3 DEF Promised
    <3>. QED
      BY <3>4 DEF trajectory
  <2>2. CASE segment.kind # "SetOutput"
    <3>. HIDE DEF trajectory
    <3>1. StartsWell(segment, q, trajectory) /\
          (segment \in JointSegment =>
             last.joints = IF segment.speed = 0 THEN q ELSE segment.target) /\
          (segment \in LineSegment =>
             /\ Place[last.joints] = segment.target.place
             /\ segment.speed # 0 /\ last.at = 0 => Place[q] = segment.target.place)
          => Promised(segment, q, trajectory)
      BY DEF Promised, StartsWell
    <3>. QED
      BY <2>2, <3>1 DEF trajectory
  <2>. QED
    BY <2>1, <2>2
<1>2. CASE segment.kind = "Delay"
  <2>1. segment.seconds \in Nat
    BY <1>2 DEF PlannerSegments, Segment, JointSegment, LineSegment
  <2>2. trajectory = <<[joints |-> q, at |-> 0], [joints |-> q, at |-> segment.seconds]>>
    BY <1>2 DEF Planner!TrajectoryFor, Planner!Waypoint
  <2>3. segment \notin JointSegment /\ segment \notin LineSegment
    BY <1>2 DEF JointSegment, LineSegment
  <2>. HIDE DEF trajectory
  <2>4. StartsWell(segment, q, trajectory)
    BY <2>1, <2>2, WaitStarts
  <2>. QED
    BY <2>3, <2>4
<1>3. CASE segment.kind # "Delay"
  <2>1. segment \in MovingSegments
    BY <1>1, <1>3 DEF MovingSegments
  <2>2. /\ speed \in Nat /\ (speed = 0 => segment.speed = 0)
        /\ segment \in JointSegment => speed = segment.speed
    BY <2>1, SpeedOf
  <2>3. goal \in Planner!PlanningErrors => trajectory = goal
    BY <1>1, <1>3, <2>1
       DEF Planner!TrajectoryFor, MovingSegments, PlannerSegments, Segment, JointSegment,
           LineSegment
  <2>. HIDE DEF trajectory
  <2>4. goal \notin Planner!PlanningErrors
    BY <2>3 DEF trajectory
  <2>5. /\ goal \in Joints
        /\ segment.kind = "MoveJ" => goal = segment.target
        /\ segment.kind # "MoveJ" => Place[goal] = segment.target.place
    BY <2>1, <2>4, GoalOf
  <2>6. CASE segment.kind \in {"MoveJ", "MoveJPosition", "MoveJPose"}
    <3>1. trajectory = Planner!JointMove(q, goal, speed)
      BY <2>4, <2>6 DEF trajectory, Planner!TrajectoryFor
    <3>. DEFINE move == Planner!JointMove(q, goal, speed)
    <3>2. /\ StartsWell(segment, q, move)
          /\ move[Len(move)].joints = IF speed = 0 THEN q ELSE goal
      BY <2>2, <2>5, JointMoveStarts
    <3>. HIDE DEF move, goal, speed
    <3>3. segment \in JointSegment => segment.kind = "MoveJ"
      BY DEF JointSegment
    <3>4. segment \notin LineSegment
      BY <2>6 DEF LineSegment
    <3>5. trajectory = move
      BY <3>1 DEF move
    <3>. QED
      BY <2>2, <2>5, <3>2, <3>3, <3>4, <3>5
  <2>7. CASE segment.kind \notin {"MoveJ", "MoveJPosition", "MoveJPose"}
    <3>1. segment.kind \in {"MoveL", "MoveLPosition"} /\ segment.target \in Targets
      BY <2>1, <2>7 DEF MovingSegments, PlannerSegments, Segment, JointSegment, LineSegment
    <3>. DEFINE place == segment.target.place
                facing == segment.target.facing
                move == Planner!LineMove(q, goal, place, facing, speed)
    <3>2. place \in Places /\ facing \in facings \cup {AnyFacing}
      BY <3>1 DEF Solves
    <3>3. trajectory = move
      BY <2>4, <3>1 DEF trajectory, Planner!TrajectoryFor
    <3>4. move \notin Planner!PlanningErrors
      BY <3>3 DEF trajectory
    <3>5. segment.kind \in CartesianKinds /\ segment \notin JointSegment
      BY <3>1 DEF CartesianKinds, JointSegment
    <3>. HIDE DEF place, facing, goal, speed
    <3>6. /\ StartsWell(segment, q, move)
          /\ move[Len(move)].joints = goal
          /\ move[Len(move)].at = 0 => speed = 0 \/ place = Place[q]
      <4>1. EndsWell(segment, q, goal, place, speed, move)
        BY <2>2, <2>5, <3>2, <3>4, <3>5, LineMoveStarts
      <4>. HIDE DEF move
      <4>. QED
        BY <4>1 DEF EndsWell
    <3>. HIDE DEF move
    <3>7. Place[goal] = place
      BY <2>5, <2>7 DEF place
    <3>. QED
      BY <2>2, <3>3, <3>5, <3>6, <3>7 DEF place
  <2>. QED
    BY <2>6, <2>7
<1>. QED
  BY <1>2, <1>3

\* A pipeline with those planners has the dispatcher and the solver it assumes.
COROLLARY DefaultDispatcher ==
  ASSUME NEW facings, Solves(facings), Errors = Planner!PlanningErrors,
         EditorSegments \subseteq PlannerSegments,
         \A segment \in PlannerSegments, q \in Joints :
           PlanSegment(segment, q) = Planner!TrajectoryFor(segment, q)
  PROVE  /\ \A segment \in Segment \cup EditorSegments, q \in Joints :
              PlanSegment(segment, q) \notin Errors =>
                Promised(segment, q, PlanSegment(segment, q))
         /\ \A q \in Joints, target \in Targets :
              SolvePosition(q, target.place) \in Joints =>
                Place[SolvePosition(q, target.place)] = target.place
<1>1. ASSUME NEW segment \in Segment \cup EditorSegments, NEW q \in Joints,
             PlanSegment(segment, q) \notin Errors
      PROVE  Promised(segment, q, PlanSegment(segment, q))
  <2>1. segment \in PlannerSegments
    BY DEF PlannerSegments
  <2>2. PlanSegment(segment, q) = Planner!TrajectoryFor(segment, q)
    BY <2>1
  <2>3. Promised(segment, q, Planner!TrajectoryFor(segment, q))
    BY <1>1, <2>1, <2>2, PlannersKeepPromise
  <2>. QED
    BY <2>2, <2>3
<1>2. ASSUME NEW q \in Joints, NEW target \in Targets,
             SolvePosition(q, target.place) \in Joints
      PROVE  Place[SolvePosition(q, target.place)] = target.place
  <2>. DEFINE place == target.place
  <2>1. place \in Places
    BY DEF Solves
  <2>. HIDE DEF place
  <2>2. AnyFacing \in facings \cup {AnyFacing}
    OBVIOUS
  <2>3. SolvePosition(q, place) \in Joints => Place[SolvePosition(q, place)] = place
    BY <2>1, <2>2, SolutionsLie
  <2>. QED
    BY <1>2, <2>3 DEF place
<1>. QED
  BY <1>1, <1>2
=============================================================================
