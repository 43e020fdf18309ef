-------------------------- MODULE PlanningPipeline --------------------------
(***************************************************************************)
(* From a program to a plan (thalos-planning): MotionResolver splits the   *)
(* instructions into motion segments and logical events, PlanCompiler      *)
(* plans the segments one after the other into one merged trajectory, and  *)
(* TimelineScheduler walks the instructions once more, beside both         *)
(* streams, to give the events their times.  Nothing links an event to a   *)
(* segment but the order of the instructions.  Each turn of the three      *)
(* loops is a step; an error at any of them discards what was made.        *)
(*                                                                         *)
(* An editor hands the compiler segments of its own, or operations to      *)
(* expand, without resolver and scheduler, and a planned program may be    *)
(* planned again from some motion on and from another configuration        *)
(* (replan_suffix).                                                        *)
(***************************************************************************)
EXTENDS Naturals, FiniteSets, SequencesExt

CONSTANTS
  Joints,               \* configurations of the joints
  Starts,               \* those a request may start from
  Places,               \* places of the end effector
  Place,                \* place of each configuration
  Frames,               \* frames the registry knows; "world" is one
  Targets,              \* motion targets: [frame, place, facing]
  Speeds,               \* bound: speeds asked for
  AnyFacing,            \* facing of a target that is only a position
  Origins,              \* operations instructions come from
  SolvePosition(_, _),  \* IK solver of the resolver: a configuration or not
  PlanSegment(_, _),    \* MotionPlannerDispatcher: a trajectory or an error
  Errors,               \* errors of the dispatcher
  Programs,             \* programs submitted
  EditorSegments,       \* segments only an editor makes
  SegmentPrograms,      \* planning programs an editor submits
  OperationPrograms,    \* sequences of operations to expand
  NoSpeed,              \* a segment that asks for none
  NoProgram, Nowhere    \* see ProgramTimeline

VARIABLES
  phase,       \* stage the request has reached
  entry,       \* "program", "suffix", "segments" or "operations"
  program,     \* instructions of the request, of the first two
  operations,  \* operations of the last
  start,       \* configuration it was submitted from
  pc,          \* next instruction of the resolver or the scheduler
  segments,    \* planning stream
  nodeRanges,  \* op_node_ranges: segments of each operation
  events,      \* runtime stream, without times
  seed,        \* current_joints of the resolver
  planned,     \* PlannedSegments
  waypoints,   \* merged trajectory
  offset,      \* time_offset
  joints,      \* current_joints of the compiler
  segmentIdx, eventIdx,  \* streams consumed by the scheduler
  cursor,      \* its clock
  temporal,    \* runtime stream, with times
  segmentOf, eventOf,    \* history: instruction of each segment and event
  seeds,       \* history: the seed before each segment
  handed       \* history: configuration handed to each segment

resolverVars == <<segments, nodeRanges, events, seed, segmentOf, eventOf, seeds>>
compilerVars == <<planned, waypoints, offset, joints, handed>>
schedulerVars == <<segmentIdx, eventIdx, cursor, temporal>>
requestVars == <<entry, program, operations, start>>
vars == <<phase, pc, requestVars, resolverVars, compilerVars, schedulerVars>>

Motions == {"MoveJ", "MoveL"}

\* A movement asks for a speed, a delay for a duration, an output for a value.
Instruction ==
  [kind : Motions, origin : Origins, target : Targets, speed : Speeds] \cup
  [kind : {"Delay", "SetOutput"}, origin : Origins, amount : Nat]

Event == [kind : {"Delay", "SetOutput"}, origin : Origins, amount : Nat]
TimedEvent == [kind : {"Delay", "SetOutput"}, origin : Origins, amount : Nat,
               at : Nat]

JointSegment == [kind : {"MoveJ"}, origin : Origins, target : Joints, speed : Speeds]
LineSegment == [kind : {"MoveL", "MoveLPosition"}, origin : Origins,
                target : Targets, speed : Speeds \cup {NoSpeed}]
Segment == JointSegment \cup LineSegment

\* Pick, Place or Transit of the operation layer; its constraints are its own.
Operation == [kind : {"Pick", "Place", "Transit"}, origin : Origins, target : Targets]

Waypoint == [joints : Joints, at : Nat]

IsMotion(instruction) == instruction.kind \in Motions

ASSUME RequestAssumption ==
  /\ Speeds \subseteq Nat
  /\ Starts \subseteq Joints /\ Place \in [Joints -> Places]
  /\ Programs \subseteq Seq(Instruction)
  /\ SegmentPrograms \subseteq Seq(Segment \cup EditorSegments)
  /\ OperationPrograms \subseteq Seq(Operation)
  /\ NoProgram \notin Seq(Instruction)

\* What the solver calls a solution is one.
ASSUME SolverAssumption ==
  \A q \in Joints, target \in Targets :
    SolvePosition(q, target.place) \in Joints =>
      Place[SolvePosition(q, target.place)] = target.place

\* What the dispatcher promises of a trajectory it answers: it is without
\* waypoints for an output only.  A joint move ends in its configuration, or
\* stays where it is at no speed; a linear move ends at its place.  Each begins
\* with the configuration it was handed (the solver answers with its seed where
\* that is a solution, before the first iteration), or is over at once if it is
\* cartesian.  Time begins at 0 and does not run backwards, and the arm stands
\* still while time does; a linear move at some speed is over at once only where
\* it has no way to go.
CartesianKinds == {"MoveL", "MoveLPosition", "MoveC"}

Promised(segment, q, trajectory) ==
  LET last == trajectory[Len(trajectory)].joints
  IN  /\ trajectory \in Seq(Waypoint)
      /\ trajectory = <<>> => segment.kind = "SetOutput"
      /\ trajectory # <<>> =>
           \/ trajectory[1].joints = q
           \/ trajectory[Len(trajectory)].at = 0 /\ segment.kind \in CartesianKinds
      /\ trajectory # <<>> => trajectory[1].at = 0
      /\ \A i, k \in DOMAIN trajectory : i < k =>
           /\ trajectory[i].at <= trajectory[k].at
           /\ trajectory[i].at = trajectory[k].at =>
                trajectory[i].joints = trajectory[k].joints
      /\ segment \in JointSegment =>
           last = IF segment.speed = 0 THEN q ELSE segment.target
      /\ segment \in LineSegment =>
           /\ Place[last] = segment.target.place
           /\ segment.speed # 0 /\ trajectory[Len(trajectory)].at = 0 =>
                Place[q] = segment.target.place

ASSUME DispatcherAssumption ==
  \A segment \in Segment \cup EditorSegments, q \in Joints :
    PlanSegment(segment, q) \notin Errors => Promised(segment, q, PlanSegment(segment, q))

-----------------------------------------------------------------------------
(* Requests                                                                 *)

Fresh(list, at) ==
  /\ pc' = 1 /\ start' = at
  /\ segments' = list /\ nodeRanges' = <<>> /\ events' = <<>> /\ seed' = at
  /\ planned' = <<>> /\ waypoints' = <<>> /\ offset' = 0 /\ joints' = at
  /\ segmentIdx' = 0 /\ eventIdx' = 0 /\ cursor' = 0 /\ temporal' = <<>>
  /\ segmentOf' = <<>> /\ eventOf' = <<>> /\ seeds' = <<>> /\ handed' = <<>>

Idle == phase = "idle"

Submit(instructions, at) ==
  /\ phase' = "resolve" /\ entry' = "program"
  /\ program' = instructions /\ operations' = <<>>
  /\ Fresh(<<>>, at)

\* An editor's segments go straight to the compiler.
SubmitSegments(list, at) ==
  /\ phase' = "compile" /\ entry' = "segments"
  /\ program' = <<>> /\ operations' = <<>>
  /\ Fresh(list, at)

\* Approach, descend, grip or let go, and leave all aim at the one target.
Nodes(operation) ==
  CASE operation.kind = "Pick" -> 5
    [] operation.kind = "Place" -> 4
    [] operation.kind = "Transit" -> 1

Expand(operation) ==
  [i \in 1 .. Nodes(operation) |->
     [kind |-> "MoveL", origin |-> operation.origin, target |-> operation.target,
      speed |-> NoSpeed]]

SubmitOperations(list, at) ==
  /\ phase' = "expand" /\ entry' = "operations"
  /\ program' = <<>> /\ operations' = list
  /\ Fresh(<<>>, at)

\* Each operation keeps which segments are its own, counted from 0.
ExpandOperation ==
  /\ phase = "expand" /\ pc <= Len(operations)
  /\ segments' = segments \o Expand(operations[pc])
  /\ nodeRanges' = Append(nodeRanges,
                          [first |-> Len(segments), last |-> Len(segments')])
  /\ pc' = pc + 1
  /\ UNCHANGED <<phase, requestVars, events, seed, segmentOf, eventOf, seeds,
                 compilerVars, schedulerVars>>

Expanded ==
  /\ phase = "expand" /\ pc > Len(operations)
  /\ phase' = "compile"
  /\ UNCHANGED <<pc, requestVars, resolverVars, compilerVars, schedulerVars>>

\* Motions of the program: what a plan remembers of its instructions.
SemanticTargets == [j \in DOMAIN segmentOf |-> program[segmentOf[j]]]

\* An error leaves no result behind; it names the instruction (pc) or the
\* segment (Len(planned)) it stopped at.
Fail ==
  /\ phase' = "failed"
  /\ UNCHANGED <<pc, requestVars, resolverVars, compilerVars, schedulerVars>>

\* A tool with an offset is refused before anything is resolved.
Replan(first, at, toolOffset) ==
  /\ phase = "planned" /\ entry \in {"program", "suffix"}
  /\ first \in 1 .. Len(SemanticTargets)
  /\ IF toolOffset
     THEN Fail
     ELSE /\ phase' = "resolve" /\ entry' = "suffix"
          /\ program' = SubSeq(SemanticTargets, first, Len(SemanticTargets))
          /\ operations' = <<>>
          /\ Fresh(<<>>, at)

\* Nothing is kept from one request to the next.
Release ==
  /\ phase \in {"planned", "failed"}
  /\ phase' = "idle" /\ entry' = "program"
  /\ program' = <<>> /\ operations' = <<>>
  /\ Fresh(<<>>, start)

-----------------------------------------------------------------------------
(* MotionResolver                                                           *)

Resolving(kinds) ==
  /\ phase = "resolve" /\ pc <= Len(program)
  /\ program[pc].kind \in kinds

FrameKnown == program[pc].target.frame \in Frames

\* The target is looked for as a position, whatever orientation it has.
Goal == SolvePosition(seed, program[pc].target.place)

PushSegment(segment) ==
  /\ segments' = Append(segments, segment)
  /\ segmentOf' = Append(segmentOf, pc)
  /\ seeds' = Append(seeds, seed)
  /\ pc' = pc + 1
  /\ UNCHANGED <<phase, requestVars, nodeRanges, events, eventOf, compilerVars,
                 schedulerVars>>

\* Mutants: the solver's failure is taken for an answer; the seed stays put.
ResolveMoveJUnchecked ==
  /\ Resolving({"MoveJ"})
  /\ FrameKnown
  /\ PushSegment([kind |-> "MoveJ", origin |-> program[pc].origin,
                  target |-> Goal, speed |-> program[pc].speed])
  /\ seed' = Goal

ResolveMoveJUnseeded ==
  /\ Resolving({"MoveJ"})
  /\ FrameKnown /\ Goal \in Joints
  /\ PushSegment([kind |-> "MoveJ", origin |-> program[pc].origin,
                  target |-> Goal, speed |-> program[pc].speed])
  /\ UNCHANGED seed

ResolveMoveJ ==
  /\ Resolving({"MoveJ"})
  /\ FrameKnown /\ Goal \in Joints
  /\ PushSegment([kind |-> "MoveJ", origin |-> program[pc].origin,
                  target |-> Goal, speed |-> program[pc].speed])
  /\ seed' = Goal

\* A linear move is not solved here: the seed stays where it was.
ResolveMoveL ==
  /\ Resolving({"MoveL"})
  /\ FrameKnown
  /\ PushSegment([kind |-> IF program[pc].target.facing = AnyFacing
                           THEN "MoveLPosition" ELSE "MoveL",
                  origin |-> program[pc].origin,
                  target |-> program[pc].target, speed |-> program[pc].speed])
  /\ UNCHANGED seed

ResolveFails ==
  /\ Resolving(Motions)
  /\ \/ ~FrameKnown
     \/ program[pc].kind = "MoveJ" /\ Goal \notin Joints
  /\ Fail

LogicalEvent(i) ==
  [kind |-> program[i].kind, origin |-> program[i].origin,
   amount |-> program[i].amount]

ResolveEvent ==
  /\ Resolving({"Delay", "SetOutput"})
  /\ events' = Append(events, LogicalEvent(pc))
  /\ eventOf' = Append(eventOf, pc)
  /\ pc' = pc + 1
  /\ UNCHANGED <<phase, requestVars, segments, nodeRanges, seed, segmentOf, seeds,
                 compilerVars, schedulerVars>>

Resolved ==
  /\ phase = "resolve" /\ pc > Len(program)
  /\ phase' = "compile"
  /\ UNCHANGED <<pc, requestVars, resolverVars, compilerVars, schedulerVars>>

-----------------------------------------------------------------------------
(* PlanCompiler                                                             *)

Duration(trajectory) ==
  IF trajectory = <<>> THEN 0 ELSE trajectory[Len(trajectory)].at

LastJoints(trajectory, otherwise) ==
  IF trajectory = <<>> THEN otherwise ELSE trajectory[Len(trajectory)].joints

Shifted(trajectory, by) ==
  [i \in DOMAIN trajectory |-> [trajectory[i] EXCEPT !.at = @ + by]]

Compiling == phase = "compile" /\ Len(planned) < Len(segments)

Trajectory == PlanSegment(segments[Len(planned) + 1], joints)

\* Mutant: every segment is planned from where the program started.
CompileSegmentFromStart ==
  /\ Compiling /\ Trajectory \notin Errors
  /\ waypoints' = waypoints \o Shifted(Trajectory, offset)
  /\ offset' = offset + Duration(Trajectory)
  /\ planned' = Append(planned,
       [source |-> segments[Len(planned) + 1], trajectory |-> Trajectory,
        first |-> Len(waypoints), last |-> Len(waypoints'),
        from |-> offset, to |-> offset'])
  /\ handed' = Append(handed, joints)
  /\ UNCHANGED <<phase, pc, joints, requestVars, resolverVars, schedulerVars>>

\* The segment's waypoints are the merged ones from position first up to, and
\* without, position last, counted from 0.
CompileSegment ==
  /\ Compiling /\ Trajectory \notin Errors
  /\ waypoints' = waypoints \o Shifted(Trajectory, offset)
  /\ offset' = offset + Duration(Trajectory)
  /\ joints' = LastJoints(Trajectory, joints)
  /\ planned' = Append(planned,
       [source |-> segments[Len(planned) + 1], trajectory |-> Trajectory,
        first |-> Len(waypoints), last |-> Len(waypoints'),
        from |-> offset, to |-> offset'])
  /\ handed' = Append(handed, joints)
  /\ UNCHANGED <<phase, pc, requestVars, resolverVars, schedulerVars>>

CompileFails ==
  /\ Compiling /\ Trajectory \in Errors
  /\ Fail

Compiled ==
  /\ phase = "compile" /\ Len(planned) = Len(segments)
  /\ phase' = IF entry \in {"program", "suffix"} THEN "schedule" ELSE "planned"
  /\ pc' = 1
  /\ UNCHANGED <<requestVars, resolverVars, compilerVars, schedulerVars>>

\* RangeConstraintQuery of the plan of operations: which of them (0 for none)
\* constrains a waypoint.  Ranges are made of the first and the last segment.
\* Mutant: the last segment of an operation is left out of its range.
WaypointRangeShort(k) ==
  [first |-> planned[nodeRanges[k].first + 1].first,
   last  |-> planned[nodeRanges[k].last].first]

WaypointRange(k) ==
  [first |-> planned[nodeRanges[k].first + 1].first,
   last  |-> planned[nodeRanges[k].last].last]

ConstrainedBy(index) ==
  LET containing == {k \in DOMAIN operations :
        WaypointRange(k).first <= index /\ index < WaypointRange(k).last}
  IN  IF containing = {} THEN 0 ELSE Min(containing)

-----------------------------------------------------------------------------
(* TimelineScheduler                                                        *)

Scheduling(kinds) ==
  /\ phase = "schedule" /\ pc <= Len(program)
  /\ program[pc].kind \in kinds
  /\ pc' = pc + 1
  /\ UNCHANGED <<phase, requestVars, resolverVars, compilerVars>>

\* Mutant: the clock is set to the segment's own end time.
ScheduleMotionAbsolute ==
  /\ Scheduling(Motions)
  /\ IF segmentIdx < Len(planned)
     THEN /\ cursor' = planned[segmentIdx + 1].to
          /\ segmentIdx' = segmentIdx + 1
     ELSE UNCHANGED <<cursor, segmentIdx>>
  /\ UNCHANGED <<eventIdx, temporal>>

\* The duration is added to the cursor: time that passed in delays is not on the
\* compiled trajectory, whose own end time would lose it.
ScheduleMotion ==
  /\ Scheduling(Motions)
  /\ IF segmentIdx < Len(planned)
     THEN /\ cursor' = cursor + (planned[segmentIdx + 1].to - planned[segmentIdx + 1].from)
          /\ segmentIdx' = segmentIdx + 1
     ELSE UNCHANGED <<cursor, segmentIdx>>
  /\ UNCHANGED <<eventIdx, temporal>>

\* Mutant: a delay is stamped when it is over.
StampedAfter(event) ==
  [kind |-> event.kind, origin |-> event.origin, amount |-> event.amount,
   at |-> IF event.kind = "Delay" THEN cursor + event.amount ELSE cursor]

Stamped(event) ==
  [kind |-> event.kind, origin |-> event.origin, amount |-> event.amount,
   at |-> cursor]

ScheduleEvent ==
  /\ Scheduling({"Delay", "SetOutput"})
  /\ IF eventIdx < Len(events)
     THEN LET event == events[eventIdx + 1]
          IN  /\ temporal' = Append(temporal, Stamped(event))
              /\ cursor' = IF event.kind = "Delay" THEN cursor + event.amount ELSE cursor
              /\ eventIdx' = eventIdx + 1
     ELSE UNCHANGED <<temporal, cursor, eventIdx>>
  /\ UNCHANGED segmentIdx

\* RuntimeProgram::new sorts; what is in order already is left as it is.
InOrder(list) == \A i, j \in DOMAIN list : i < j => list[i].at <= list[j].at
SortByTime(list) ==
  IF InOrder(list) THEN list ELSE SortSeq(list, LAMBDA a, b : a.at < b.at)

Scheduled ==
  /\ phase = "schedule" /\ pc > Len(program)
  /\ phase' = "planned"
  /\ temporal' = SortByTime(temporal)
  /\ UNCHANGED <<pc, requestVars, resolverVars, compilerVars, segmentIdx,
                 eventIdx, cursor>>

-----------------------------------------------------------------------------

Init ==
  /\ phase = "idle" /\ entry = "program" /\ program = <<>> /\ operations = <<>>
  /\ start \in Starts /\ pc = 1
  /\ segments = <<>> /\ nodeRanges = <<>> /\ events = <<>> /\ seed = start
  /\ planned = <<>> /\ waypoints = <<>> /\ offset = 0 /\ joints = start
  /\ segmentIdx = 0 /\ eventIdx = 0 /\ cursor = 0 /\ temporal = <<>>
  /\ segmentOf = <<>> /\ eventOf = <<>> /\ seeds = <<>> /\ handed = <<>>

Step ==
  \/ ExpandOperation \/ Expanded
  \/ ResolveMoveJ \/ ResolveMoveL \/ ResolveEvent \/ ResolveFails \/ Resolved
  \/ CompileSegment \/ CompileFails \/ Compiled
  \/ ScheduleMotion \/ ScheduleEvent \/ Scheduled

Replanning ==
  \E first \in 1 .. Len(program), q \in Starts, toolOffset \in BOOLEAN :
    Replan(first, q, toolOffset)

Submitting ==
  /\ Idle
  /\ \E q \in Starts :
       \/ \E instructions \in Programs : Submit(instructions, q)
       \/ \E list \in SegmentPrograms : SubmitSegments(list, q)
       \/ \E list \in OperationPrograms : SubmitOperations(list, q)

Next ==
  \/ Submitting
  \/ Replanning
  \/ Release
  \/ Step

Spec == Init /\ [][Next]_vars
-----------------------------------------------------------------------------
(* Properties                                                               *)

PlannedSegment ==
  [source : Segment \cup EditorSegments, trajectory : Seq(Waypoint),
   first : Nat, last : Nat, from : Nat, to : Nat]

\* All streams are made of what their names say, whatever the request.
PipelineTypeOK ==
  /\ phase \in {"idle", "expand", "resolve", "compile", "schedule", "planned", "failed"}
  /\ entry \in {"program", "suffix", "segments", "operations"}
  /\ operations \in Seq(Operation)
  /\ program \in Seq(Instruction) /\ start \in Joints /\ pc \in Nat \ {0}
  /\ segments \in Seq(Segment \cup EditorSegments) /\ events \in Seq(Event)
  /\ nodeRanges \in Seq([first : Nat, last : Nat]) /\ seed \in Joints
  /\ planned \in Seq(PlannedSegment) /\ waypoints \in Seq(Waypoint)
  /\ offset \in Nat /\ joints \in Joints
  /\ segmentIdx \in Nat /\ eventIdx \in Nat /\ cursor \in Nat
  /\ temporal \in Seq(TimedEvent)
  /\ segmentOf \in Seq(Nat) /\ eventOf \in Seq(Nat)
  /\ seeds \in Seq(Joints) /\ handed \in Seq(Joints)

\* A program is carried out while its events are being placed in time and after.
CarriedOut == phase \in {"schedule", "planned"} /\ entry \in {"program", "suffix"}

ArmAfter(count) ==
  IF count = 0 THEN start ELSE LastJoints(planned[count].trajectory, start)

Timeline == INSTANCE ProgramTimeline WITH
  Instructions <- Instruction,
  program <- IF CarriedOut THEN program ELSE NoProgram,
  done <- IF CarriedOut THEN pc - 1 ELSE 0,
  clock <- IF CarriedOut THEN cursor ELSE 0,
  place <- IF CarriedOut THEN Place[ArmAfter(segmentIdx)] ELSE Nowhere,
  journal <- IF CarriedOut THEN temporal ELSE <<>>

\* The three passes together carry the program out in the order it was written:
\* every motion ends where its own instruction asks, every delay and output is
\* stamped after all that stands before it, and a failed request does nothing.
ImplementsTimeline == Timeline!Spec

\* ExecutionPlan::expected_waypoint_index_at; 0 when the plan has none.
ExpectedAt(time) ==
  IF \E i \in DOMAIN waypoints : waypoints[i].at >= time
  THEN Cardinality({i \in DOMAIN waypoints : waypoints[i].at <= time})
  ELSE 0

MotionsAtSpeed == \A i \in DOMAIN program : IsMotion(program[i]) => program[i].speed > 0

\* Time that passes in an event, and in the first of a list of them.
Pause(event) == IF event.kind = "Delay" THEN event.amount ELSE 0

Delays(list) ==
  LET sum[k \in 0 .. Len(list)] == IF k = 0 THEN 0 ELSE sum[k - 1] + Pause(list[k])
  IN  sum

\* The instruction an event came from, and the last motion before it.
MotionBefore(i) == {j \in 1 .. i - 1 : IsMotion(program[j])}

\* The plan's clock stands still during delays, the events' clock does not: at
\* the moment an event is stamped, less the delays before it, the plan expects
\* the arm where the motion before the event ends.
EventsMeetTheArm ==
  phase = "planned" /\ CarriedOut /\ MotionsAtSpeed /\ waypoints # <<>> =>
    \A k \in DOMAIN temporal :
      LET now == ExpectedAt(temporal[k].at - Delays(temporal)[k - 1])
          before == MotionBefore(eventOf[k])
      IN  /\ now # 0
          /\ Place[waypoints[now].joints] =
               IF before = {} THEN Place[start]
               ELSE program[CHOOSE j \in before : \A i \in before : i <= j].target.place

\* A segment that changes the configuration in no time: a cartesian move at no
\* speed, or one that only turns the end effector.
Jumps(segment) ==
  /\ Duration(segment.trajectory) = 0
  /\ segment.source.kind \in CartesianKinds

\* The merged trajectory is one movement: segments follow each other in the
\* waypoints and in time without gap or overlap, each begins with the
\* configuration the one before ended in, time never runs backwards, and the
\* arm is in one configuration at a time.
Seamless ==
  phase = "planned" =>
    /\ \A j \in DOMAIN planned :
         LET before == planned[j - 1]
         IN  /\ planned[j].first = IF j = 1 THEN 0 ELSE before.last
             /\ planned[j].from = IF j = 1 THEN 0 ELSE before.to
             /\ planned[j].trajectory # <<>> /\ ~Jumps(planned[j]) =>
                  planned[j].trajectory[1].joints = handed[j]
    /\ \A i, k \in DOMAIN waypoints : i < k =>
         /\ waypoints[i].at <= waypoints[k].at
         /\ waypoints[i].at = waypoints[k].at =>
              \/ waypoints[i].joints = waypoints[k].joints
              \/ \E j \in DOMAIN planned : Jumps(planned[j]) /\ planned[j].from = waypoints[i].at
    /\ Duration(waypoints) = offset

\* Every waypoint of a plan of operations is under the constraints of the
\* operation whose segment it came from: the first range that contains it is not
\* a neighbour's, and none is left free.
WaypointsAreConstrained ==
  phase = "planned" /\ entry = "operations" =>
    \A j \in DOMAIN planned, w \in DOMAIN waypoints :
      planned[j].first < w /\ w <= planned[j].last =>
        /\ ConstrainedBy(w - 1) # 0
        /\ operations[ConstrainedBy(w - 1)].origin = planned[j].source.origin

\* Mutant: the first waypoint of the segment before.
SegmentStartJointsEarly(j) ==
  IF j = 1 \/ planned[j - 1].trajectory = <<>> THEN start
  ELSE planned[j - 1].trajectory[1].joints

\* segment_start_joints, which availability checks use instead of the compiler.
SegmentStartJoints(j) ==
  IF j = 1 THEN start ELSE LastJoints(planned[j - 1].trajectory, start)

\* It names the configuration the compiler handed to the segment, except right
\* after an output, which has no waypoint.
StartJointsAgree ==
  phase = "planned" =>
    \A j \in DOMAIN planned :
      SegmentStartJoints(j) = handed[j] \/ planned[j - 1].source.kind = "SetOutput"

\* The resolver's seed is the configuration the arm has when the segment begins,
\* until the first linear move (or one at no speed): from there on the seed is
\* out of date.
SeedIsTheArm ==
  phase = "planned" /\ CarriedOut /\ MotionsAtSpeed =>
    \A j \in DOMAIN planned :
      (\A i \in 1 .. j - 1 : segments[i].kind = "MoveJ") => seeds[j] = handed[j]

\* Mutant: the first joint move instead of the last.
FinalStateOfFirst ==
  LET jointMoves == {j \in DOMAIN segments : segments[j].kind = "MoveJ"}
  IN  IF jointMoves = {} THEN start
      ELSE segments[CHOOSE j \in jointMoves : \A i \in jointMoves : i >= j].target

\* final_state of replan_suffix.
FinalState ==
  LET jointMoves == {j \in DOMAIN segments : segments[j].kind = "MoveJ"}
  IN  IF jointMoves = {} THEN start
      ELSE segments[CHOOSE j \in jointMoves : \A i \in jointMoves : i <= j].target

\* The state a replanned suffix is said to end in is the one its plan ends in,
\* provided the last motion is a joint move at some speed.
FinalStateAfterJointMove ==
  phase = "planned" /\ entry = "suffix" /\ segments # <<>>
    /\ segments[Len(segments)].kind = "MoveJ" /\ segments[Len(segments)].speed > 0
    => FinalState = joints
=============================================================================
