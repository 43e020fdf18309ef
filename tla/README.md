# Verification of thalos-engine

thalos-engine is a Rust workspace for industrial robots: a language for robot
programs and reactive processes, planning, kinematics, execution, comparison of
what was expected with what was observed. Most of it is pure computation
(kinematics, interpolation, parsing). This directory models the part that is
not: the components that keep state from one call to the next, are called by
several parties in an order of their own, and have to stay right when work is
refused, telemetry is late or a device fails; and the chain of translations
from a program's text to a timed plan, where a name, an order or a
configuration can be lost between two stages that each look right.

Paths below are relative to `src/`; `map` in `PROJECT.json` gives, for every
definition, the lines it stands for.

## 1. Inventory

### Components that are modelled

**Process runtime** (`thalos-language-service/src/reactive_process.rs`).
State: coordination states, the last reading of each signal with an edge
reaction, one occurrence slot per request token, a counter of occurrences, the
queue of delivered outcomes. Operations: `deliver_outcome`, `tick`,
`run_cycle`. It requests work from the host by returning effects, and hears of
that work by outcomes, which are checked when delivered and applied one tick
later. Hard: an outcome can be overtaken by the end of its own occurrence while
it waits in the queue; refusals use up occurrence numbers; a refusal raised
while outcomes are drained is itself an outcome; readings can be missing. Right
when: a token is never held by an occurrence that has ended or by two at once,
nothing that ended is reacted to, an edge fires once per change of level.

**Arbiter** (host code, outside the repository; known by the outcomes and
rejection reasons the runtime defines). State: the job in execution and a
bounded queue. Right when: no lease is lost between the two parties, every
lease ends, every refusal is heard.

**Closed-loop executor** (`thalos-core/src/robot/executor.rs`, with
`observation.rs`, `policy.rs`, `state.rs`, `capability.rs` beside it). State:
status and current waypoint. Operations: `tick(trajectory, clock, io)`, `reset`. A tick
commands the device, reads it back and decides Continue, Hold, Pause or Abort.
Hard: either I/O call can fail or block, the device can change between them,
and holds and pauses repeat a waypoint without limit. Right when: the waypoint
index never runs ahead of the evidence and a stopped execution stays stopped.

**Simulated robot adapter** (`thalos-core/src/robot/io.rs`). State: the
commanded state and a scenario, shared by all clones behind a mutex. Hard:
another thread changes the scenario at any moment. Right when: what is
confirmed is what the device does when it is read.

**Deviation detection** (`thalos-core/src/deviation/`,
`thalos-analysis/src/comparison/pipeline.rs`). State: detector status, two
timers, the last time stamp, the expected trajectory. Operations: `process`,
`set_trajectory`. Hard: telemetry is sparse, late, repeated or lost. Right
when: every event tells the truth about the samples and none is missed.

**Reactive program evaluator** (`thalos-language-service/src/reactive_eval.rs`
and the program types of `reactive.rs`). State: the flattened instructions, a
program counter, the locals, kept from one call of `step` to the next. Hard:
jump targets are patched after nested branches are compiled; one call runs any
number of internal instructions; locals outlive the observations they were
computed from. Right when: the jumps mean what the nesting says and each call
returns.

**Execution session** (`thalos-core/src/execution/session.rs`). State:
lifecycle, its history, the cycle count, latched observations. Operations:
`initialize`, `start`, `pause`, `stop`, `fault`, `complete`,
`complete_program_cycle`, `evaluate_tick`. Called by the control loop and, at any
moment between the loop's calls, by the operator. Hard: what the loop was told is
old by the time it acts on it. Right when: the history is a life a session may
have and a completion was earned.

**Program edits** (`thalos-planning/src/program_edit.rs`). No state of its
own: `apply` and `inverse` of six edits, on which an editing application builds
undo. Hard: inverses are taken back through programs whose length other edits
have changed, and what an edit destroys has to be captured before it. Right
when: undo restores the program exactly or refuses.

**Motion planning and timeline scheduler** (`thalos-planning/src/resolver`,
`motion`, `goal`, `interpolate`, `timeline`). State: inside one request, the
resolver's seed, the compiler's configuration and time offset, the scheduler's
clock and its position in two streams. Operations: `resolve`, `compile_plan`
of programs, segments or operations, `schedule`, `replan_suffix`, and the
queries of a plan. Hard: motions and delays part after the resolver and nothing
but their order joins them again; the resolver has a configuration of its own
that the plan need not follow; delays are in one time and not in the other;
empty trajectories. Right when: an event comes when the arm is where the program
has it, and every waypoint is under its own operation's constraints.

**Semantic programs and skills** (`thalos-language-service/src/ir.rs`,
`validation`, `lowering`, `execution.rs`; `thalos-core/src/skill`). State: the
records of an execution. Operations: `normalize`, validation, `lower`,
`prepare_skill`, `evaluate_postconditions`, `execute_program`. Hard: contracts,
capabilities and implementations are looked up for a robot that two parties may
name differently; a program judged as a whole is judged by two states only.
Right when: the gripper acts at its object, a validated program is accepted, and
a record tells what the skill met and left.

**Language compiler** (`compiler.rs`, `checker.rs`, `evaluator.rs`,
`reactive.rs`, `resolver.rs`, `reactive_process.rs`, all in
`thalos-language-service/src`). No state between calls; symbols, scopes and
bindings inside one. Operations: `compile`, `lower_reactive`,
`SemanticResolver::resolve`, `specialize_work`, `compile_process`. Hard: constants, parameters,
locals, targets and signal nodes share one namespace, resolved in another order
at each stage; what is not constant becomes a local at run time, in one flat
environment; a process declares its tokens by requesting them and its handlers
share what they set. Right when: what runs answers as the text says, whichever
back end made it, and a process does in each call what its text says.

### Components that are not modelled

| component | why |
|---|---|
| Language parser, binder, editor services | pure translation of text and of argument lists; no state |
| Kinematics, analysis, mathematics | floating-point numerics without control state, out of TLC's reach |
| Circular moves, acceleration profiles, fallback materialization | geometry and numeric profiles |
| Offline comparison, telemetry analysis | pure functions over recorded traces |
| Transport ports | traits; the transports live in the application |
| Station vocabulary, policy metrics | data types without transitions |
| Robot models, importer, documents, visualisation | I/O and immutable data |
| Public facade (`thalos-api`) | re-exports and thin wrappers |

### How the components meet

The host drives everything. A control loop calls `tick` or `step` with the
observations of the moment, hands the requests it gets back to the arbiter and
the arbiter's outcomes back to the runtime; it calls the executor with a
trajectory, a clock and an adapter; it feeds each observation to the comparison
pipeline; and it tells the session what happened. Before that, a text has become
statements for the evaluator or operations for the planner, a semantic program
has become instructions, and the planner has made them a plan; each stage takes
the result of the one before as a value and keeps nothing. The library starts no threads
of its own. Concurrency enters by the host's order of calls, by the shared
scenario of the adapter, by the device between two I/O calls, and by telemetry
that arrives in an order nobody controls. Methods take `&mut self`, so nothing
interleaves inside one call, except where the call itself goes out to the
device.

## 2. Modules

| module | stands for | role |
|---|---|---|
| `TokenLease` | - | what request tokens promise |
| `ProcessRuntime` | process runtime | detailed specification, refines `TokenLease` |
| `EdgeMonitor` | edge reactions of the runtime over time | monitor beside the runtime |
| `ReactiveCell` | runtime and arbiter | composition, liveness |
| `ProcessCompiler` | `compile_process` | operators, over `LanguageCompiler` |
| `ProcessMeaning` | - | what one call of a process means, read from its text |
| `CompiledCell` | process compiler, runtime and arbiter | composition, beside `ProcessMeaning` |
| `WaypointTracking` | - | what following a trajectory promises |
| `ClosedLoopExecutor` | executor | refines `WaypointTracking` |
| `SimulatedRobot` | adapter | composition with the executor |
| `ComparePipeline` | detector and pipeline | safety of detection |
| `ReactiveProgram` | statements, expressions | shared by the next five |
| `StructuredProgram` | - | what executing a program means |
| `ReactiveEvaluator` | evaluator | refines `StructuredProgram` |
| `LanguageCompiler` | symbols, types, semantic statements | operators |
| `LanguageBackEnds` | `lower_reactive`, resolver, work specialization | operators |
| `SourceMeaning` | - | what a text means, read from the text itself |
| `CompiledEvaluator` | compiler and evaluator | composition, beside `SourceMeaning` |
| `ProgramTimeline` | - | what planning a program promises |
| `SegmentPlanner` | dispatcher, joint and linear planners | operators, on a line of places |
| `PlanningPipeline` | resolver, plan compiler, scheduler | refines `ProgramTimeline` |
| `SemanticLowering` | normalization, validation, lowering, registry | operators |
| `SkillExecution` | execution engine and its host | composition over `PlanningPipeline` |
| `ExecutionSession` | session | lifecycle and cycles |
| `ProgramEdit` | edits | pure operators |
| `EditSession` | edits under undo | state machine over `ProgramEdit` |
| `*Proofs` | - | theorems about the module they are named after; `ClosedLoopExecutorProofs` also about `SimulatedRobot`, `ReactiveCellProofs` about `ProcessRuntime` and `EdgeMonitor`, `ProgramEditProofs` about `EditSession` |
| `MC*` | - | the instances TLC checks |

Operators commented `Mutant:` stand next to the definition they distort. They
are plausible bugs used to show that each property can fail; nothing else
refers to them.

## 3. How model and code correspond

**ProcessRuntime.** `tick` and `run_cycle` are unfolded along their own loops:
one step per drained outcome (`ApplyOutcome`, `DropOutcome`), per reaction
evaluated (`EvaluateReaction`) and per statement executed (`SetState`,
`Request`, `RequestBusy`, `Branch`). `phase` says where the call stands and the
host acts only when it is "idle": nothing interleaves, but invariants are
checked between the statements as well. `prev[s] = "absent"` stands for a
signal without an entry in `prev` (or one not marked as seen). The compiled
process is the variable `program`, which no step changes: a record of initial
states, declared tokens, reactions and cycle. Only a declared token has a slot.
`StateChanged` effects and arithmetic are left out, and so are statements that
the compiled reactions and cycle never contain (`SetOutput`, `Call`). A state
without a value reads as Unknown. A refused `deliver_outcome` changes nothing.
`heard` is a history variable. `EdgeMonitor` adds the kind of the last edge
reaction started on each signal; that edges alternate is stated for a signal
with one rising and one falling reaction that have something to do (`Paired`),
because two of one kind both fire in one tick.

**ReactiveCell.** The arbiter is external. It starts, queues or rejects each
request in order, reports every outcome it decides, and drives the background
cycle only when idle. Of the effects it passes over the Busy ones, in their
order (`PassBusy`): the process has been told. `StmtsOf` gives the statements of
a process, those in its branches included, and `TokensDeclared` says that each
token requested by one of them is declared, as `collect_process_tokens` sees to.
With this arbiter the second correlation check (`DropOutcome`) is
never needed; `MCProcessRuntime`, with a host that says anything, needs it.

**ProcessCompiler, CompiledCell.** A document is compiled by `CompileProcess`
and, if accepted, is the process of a runtime beside the arbiter. Symbols come
from `LanguageCompiler`, as `prepare_symbols` is shared in the code. Processes
coordinate in truth values: numbers are left out, and bodies of works are only
accepted or refused, since `SpecializeWork` compiles them again. A state whose
initial value is not a constant gets no value; of two declarations of a state
the later constant holds, of two cycles the later one, of two imports of a name
the later one; the first process main starts is compiled and no other; a
request of an undeclared work is accepted. `ProcessMeaning` reads the
text itself, one call at a time: when a call begins it is asked what the call
means, and `CallsAsWritten` compares the answer with where the steps of the
runtime end. Because the compiler tries an expression as a constant before it
looks for a state (`reactive_process.rs:168`), a top-level constant with the
name of a state hides that state wherever it is read. `CallsAsWritten` is
stated for texts without such a name (`OneMeaning`). The document `Hidden` of
the instance has one, and the property does not hold without the condition.

**ClosedLoopExecutor.** `tick` is two steps, `Send` and `Observe`, because the
device acts between its two I/O calls; `now` is the clock read before the
first, as in the code. A reading is "near", "far", "nan" or "absent" per joint
and component, which is all the judgement tells apart; that NaN is ignored when
the largest error is sought is the behaviour of `f64::max`. A tick on an empty
trajectory or a stopped executor changes nothing. The host keeps to one
trajectory between resets, as `tick` expects: an assumption, listed among the
hazards. Drift reports are derived data and left out.

**SimulatedRobot.** `Report` is the adapter's echo of the commanded waypoint
under its scenario, stamped in trajectory time, as in the code.
`AdapterAssumption` says that each echo is an observation the executor accepts
at all. Because the stamp of a waypoint may run ahead of the executor's clock by
as much as the trajectory takes, the stale scenario is only seen as stale when
its delay exceeds the age limit plus that time: this is part of
`PositionsWatched`, the contract under which progress needs evidence.

**ComparePipeline.** Observation t has stamp and sequence t. The pipeline may
be handed any of them at any time, so loss, repetition and reordering are all
present. Whether an observation violates the envelope is free, because the
error is numeric. An observation out of order, outside the trajectory or of
another dimension changes nothing. A new trajectory resets the detector.

**ReactiveEvaluator.** `CompileStatement` is `compile_statements`; a call of
`step` is unfolded one instruction per action. The recursion over branches is a
recursive function on `Bodies`: the programs, and with each of them its branches
and what follows a statement; `Size` counts statements, and `BodyAssumption` says
no more than that statements are finite trees. Values are scaled integers
(`Scale` to the unit) so that a reading below one exists; Booleans are 0 and 1,
because every use goes through `as_f64` or `as_bool`. Negation and arithmetic,
which pass Unknown on, are left out, so the component is "partly" modelled.
`WaitSignal` is evaluated by the code though the lowering does not produce it
yet.

**LanguageCompiler, LanguageBackEnds.** A text is a record of its declarations;
expressions are literals, names, members and comparisons. Left out: arithmetic,
geometry, `offset`, functions that return a value, named arguments, and
functions that call themselves (neither back end ends on them). Of what is left
out, calls that return a value and `offset` are resolved by one back end and
refused by the other, so `BackEndsAgree` speaks of the fragment modelled. What a
reader may not expect is in the model because it is in the code:
  - a name declared at top level has its value wherever it occurs, whatever a
    parameter or local of that name is bound to;
  - the type of a local is that of its first declaration in the function;
  - an output that is no constant is silently `false`, and a via point that is
    none is the origin;
  - a `let` of a constant does not rebind a name that is bound at run time, and
    the run-time parameter of an inlined function overwrites the caller's local
    of that name: `AnswersAsWritten` is about programs where no name is bound
    twice (`WellScoped`);
  - bindings made in a branch are forgotten after it, so a constant bound in one
    is Unknown when read behind the conditional;
  - the resolver emits both branches of a condition that is no constant;
  - a request of a work that is not declared, or lacks an argument, fails only
    when the work is specialised.

**CompiledEvaluator.** A text is chosen, compiled and given to the evaluator;
`SourceMeaning` runs beside it from the text, with a frame per call, and is asked
what the answer should be whenever a call returns. A text may be refused at any
stage, and then nothing runs.

**PlanningPipeline.** The loops of `resolve`, `compile` and `schedule` are one
step per instruction or segment. An error discards everything, as `?` does. The
editor's segments and operations enter at the compiler, as in the code. The
solver and the dispatcher are parameters, with the promises of
`SolverAssumption` and `DispatcherAssumption` (`Promised`);
`MCPlanningPipeline` gives the second by `SegmentPlanner`, and
`PlannersKeepPromise` proves it of those planners. What is promised of a trajectory:
it begins with the configuration it was handed, or is a cartesian move that is
over at once; its time begins at 0 and never runs backwards; the arm stands
still while time does; and a linear move at some speed is over at once only if
it has no way to go. That a linear move begins where the arm is rests on the
pose solver answering with its seed when the seed is a solution, which
it tests before its first iteration (`MCSolvePose`). An event is stamped on a
clock that runs on during pauses and a waypoint on one that does not: `Delays`
is the difference between the two. `segmentOf`, `eventOf`, `seeds`
and `handed` are histories. Left out: joint-count mismatches, circular moves,
metrics, acceleration profiles. As in the code, the transform of a target's
frame is looked up and never applied; a joint move to a pose is solved for its
position only; a linear move leaves the resolver's seed where it was.

**SegmentPlanner.** The arm works along a line of places with an orientation at
each, so that a linear move passes places at which the solver may fail. Time and
distance are whole numbers of samples. `SolversKeep` says what the planners rely
on in an IK solver; TLC evaluates it on the solver of the instance. An error on the way is not retried as a
position when the solver refused the goal, though the goal itself is.

**SemanticLowering, SkillExecution.** The host runs a program as a whole or skill
by skill; carrying a plan out is external and may miss the object. The gripper
is the output. `ProgramAssumption`, `KnowledgeAssumption` and
`RegistryAssumption` say what requests, the knowledge of objects and the
registry hold: steps of the kinds the code has, numbered by their origins, and
targets the planner knows. `ProfilesMove` says that the profiles of joint and
cartesian moves are not zero; at a profile of zero every move is over at once and
where the arm is at the moment of an event is not defined. A skill whose
implementation is a program is what its fragment says: that its gripper acts at
an object is asked only of skills that are native (`IsHandling`). As in the code: reading or writing a signal becomes a wait of
no duration and a linear move a joint move; a pick is not consumed, so two
places after one pick are valid; the motion of a fragment goes home whatever it
aims at; a contract is looked up for the program's robot and what is lowered for
the context's. The engine has no call for a skill whose plan failed: the host has
it judged like any other (`JudgeSkill`) or writes the record itself
(`ReportFailure`, external), and the run has hosts of either kind. `lived` is a
history: the world each operation began and ended in, and what became of its plan.

**ExecutionSession.** No method enters Dispatched. The tick index and the
latched observations decide nothing and are left out. `CompleteProgramCycle` and
`CompleteSession` are two calls, and an operator may pause, resume, stop or fault
the session between them; the cycle is counted in whatever state it is by then.
`more` is the loop's: what it was told last. No caller is in the repository, so
there is an assumption on the loop: it counts only after a tick that succeeded,
no more once told that no cycle is due, and completes only then.

**ProgramEdit, EditSession.** `origin` stands for origin, frame and limits,
which split, merge and move treat alike; the segment kinds no edit treats
specially are one kind, "Other". A target names at least one joint; `NoTarget` is the
vector without joints that the code refuses. The stack of inverses, and that
captured edits are captured from the current program, are external: the code
says so of its apply pipeline (`program_edit.rs:41-43`). A redo is the inverse of an inverse; that of a merge
captured nothing, and `RedoExactOrLoud` leaves it out.

## 4. Runs

The passing runs are exhaustive. In brackets, the distinct states, rounded.

| run | question | result |
|---|---|---|
| `process_runtime` (2 580 000) | under a host that delivers any outcome to any occurrence: leases sound inside every tick, nothing heard after an end, edges alternate, `TokenLease` refined | pass |
| `reactive_cell` (69 900) | compiled processes with an arbiter: every call does what the text says, no lease orphaned, no outcome refused as stale, every lease ends, every refusal is heard | pass |
| `closed_loop` (18 500) | device answers anything or fails: index justified by evidence, `WaypointTracking` refined | pass |
| `simulated_robot` (3 600) | scenario changed at any moment: progress needs evidence, an execution settles once the device does | pass |
| `compare_pipeline` (6 600) | events true, complete and alternating under lost, repeated and late telemetry | pass |
| `reactive_evaluator` (47 000) | `StructuredProgram` refined and every call answered, compiled texts answer as written, back ends agree, signalled programs end | pass |
| `program_edit` (7 400) | undo exact for captured edits, refused for the others, at every depth, and redone | pass |
| `skill_execution` (449 000) | `ProgramTimeline` refined; events meet the arm, waypoints their constraints, the gripper its object; records have the verdicts and outcomes of what happened, where the code gives them | pass |
| `execution_session` (1 150) | history is a life, failures where the code admits them; completions earned, whatever comes between the loop's calls | pass |
| `hold_never_ends` | a hold ends on nominal telemetry | violated, see section 6 |
| `one_to_zero` | a replacement by nothing is taken back | violated, see section 6 |
| `deviation_that_is_none` | a semantic deviation on record is a skill carried out whose postconditions failed | violated, see section 6 |

### Bounds, and why they are enough

- `process_runtime`: two tokens, because leases can be confused only between
  two; one signal with both edges and a level; occurrence numbers to 3, so that
  a token is taken, refused, freed and taken again; a queue of 2, the least
  with a terminal outcome behind another. Past the bound calls in progress still
  complete. The host's outcomes are one that ends a lease, one that does not
  and Busy; which terminal outcome it is makes no difference to the code, and
  `reactive_cell` uses them all. The program has a nested request, a retry, a
  request without a token and reactions that change what later ones see.
- `reactive_cell`: a pending queue of 1, so that it is full and empty; the
  runtime's own queue holds what the arbiter says (`MaxQueue` limits only the
  host of `process_runtime`). Three documents are accepted and run: one with
  retries, refusals and a background cycle, one with repeated declarations, two
  names of one node, a level and a state without a value, one whose token is
  requested in an else branch only; between them every statement, every kind of
  event and every outcome. Of the others each differs from the first by one
  mistake and is refused, so that a compiler that lets one through runs it.
- `closed_loop`: trajectories of 3, 1 and 0 waypoints (a middle one, one that
  is first and last, none); two joints, with required, aged and optional
  components; stamps before and after the clock; too few and too many joints.
- `simulated_robot`: one joint, three waypoints. `MaxAge = MaxClock = 3` keeps
  the clock within the staleness limit, which is what `SettlesWithDevice` is
  true of; `hold_never_ends` sets `MaxAge = 1` and shows what happens beyond.
- `compare_pipeline`: 8 instants with confirmation after 2 and recovery after
  1: two full alarms, with gaps; one trajectory ends early.
- `reactive_evaluator`: conditionals nested in either branch, empty, absent;
  readings of both signs, zero and a fraction (3 at scale 2).
  The texts, 2 272 of them: bodies of three statements without a signal, in all
  orders, of which about 650 compile; texts over a signal of each type, with
  calls whose argument is a signal or a constant, locals in branches and names
  that clash; and a work requested with and without its arguments. `Bodies` and
  `Size` are computed from the programs.
- `skill_execution`: places 0 to 6, of which the solver fails at 2, 4 and 5 and
  refuses one orientation at 0; an elbow, so that a place has two configurations
  and a limit forbids one of them; speeds 0, 1 and 2; one known frame. Programs
  of up to three instructions, three segments and three operations, so that an
  event has motions on both sides and a segment follows a linear move. Semantic
  programs of up to three operations; two objects and a default one that cannot
  be reached; a robot with a contract of its own, and contexts with no robot,
  the program's and another one.
- `program_edit`: programs to 5 segments, undo depth 2 (an inverse applied to a
  program another edit has changed and restored); the theorem covers every
  depth and length.
- `execution_session`: 8 transitions (two pauses and repeated faults), 3 cycles
  against limits up to 2.

`CHECK_DEADLOCK FALSE` is used where the system stops: a session that has
ended, a semantic program that has been judged, and an editing session at its undo bound whose last edit captured
nothing and cannot be taken back.

### Fairness

- `reactive_cell`: weak fairness of `Compute`, `Return` and `ControlTick` - a
  call goes on and returns, and the loop keeps ticking. Strong fairness of
  `Arbiter`: it can speak only between calls, so its turn comes and goes, and it
  does finish each job. The background cycle is owed nothing.
- `simulated_robot`: weak fairness of the tick - the host keeps ticking and I/O
  with the simulated adapter returns. None for scenario changes or the clock.
- `reactive_evaluator`: weak fairness of `Interpret` (a call in progress goes
  on) and of `Step` (the driver keeps calling). None is assumed of signals. That
  every call is answered is part of `StructuredProgram`, so the refinement
  carries it.
- `skill_execution`: none; its properties are safety.

## 5. Proofs

Checked by tlapm for every value of the constants, from the assumptions named
in the modules (types and distinctness of the constants, no more) unless said
otherwise.

**ReactiveCellProofs**, of the runtime alone: `TypeCorrect`, `LeasesSound`,
`SilentAfterEnd`, `Refinement`, `EdgesTakeTurns`, for every process (`Programs`
is any set of them). The invariant is `LeaseInv`. That a lease is live (`LeasesLive`) is not
inductive alone: an outcome in the queue could name a number that is taken
later, so `QueueCorrelates` says each queued outcome names a lease in force or
one that is over; to keep that when a number is issued, `EndedIssued` says all
ended numbers are below the counter; and `LeasesDistinct` keeps the end of one
token's lease from ending another's. `SilentAfterEnd` and the refinement follow
from the same invariant. `EdgesTakeTurns` needs `EdgeInv`, which ties the last
edge to the reading recorded: it was the edge of the tick under way, or it is the
one that led to the level in `prev`.

Beside the arbiter: `NoLeaseOrphaned`, `OutcomesNeverStale`, `CellRefinement`, for every length of the arbiter's queue. Hypothesis:
`TokensDeclared`, which the compiler establishes and without which an accepted
request would hold no slot. The two properties are one argument (`Books`): an
open job still holds its token, a job whose end is queued is not open any more,
and a holder is at work or its end is queued. What carries it is `InOrder`:
occurrence numbers grow from the active job through the queue and the effects
handed over to those of the running call, so no number names two jobs. `Drained`
and `Declared` add what a step of the runtime may assume while it drains and
executes.

**ClosedLoopExecutorProofs**: `ExecutorTypeCorrect`, `CompletionJustified`,
`ExecutorRefinement`, `AdapterIsADevice`, `NoProgressWithoutEvidence`. The
invariant ties the history of confirmed waypoints to the index (`Evidence`) and,
inside a tick, the commanded waypoint to the index (`Aimed`); without `Aimed` an
observation could confirm a waypoint other than the one the index stands at.
`AdapterIsADevice` shows that the executor with the simulated adapter is an
executor with some device (`SimSpec => Spec`), so the first three hold of it as
well. `NoProgressWithoutEvidence` has the hypothesis `PositionsWatched`: a
contract without an age limit or threshold notices nothing, as the code means it.

**ComparePipelineProofs**: `PipelineTypeCorrect`, `EventsTruthful`,
`EventsInTurn`, `NothingGoesMissing`. The invariant adds to the three properties
what the timers mean: a running timer holds the first instant of the current
run of samples against the status, and a stopped one says the last sample
agreed.

**ProgramEditProofs**: `RoundTrip`, `RedoTrip`, `SessionTypeCorrect`. A replaced
slice put back restores the sequence (`SpliceBack` over lemmas on `Splice`), one
lemma per kind of edit follows, and the session invariant is exactness at every
depth, of undo and of redo, with the stacks' types. Hypothesis, stated in the
theorems: no replacement is empty. Section 6 shows that it is needed.

**ExecutionSessionProofs**: `HistoryKept`, `CompletionsEarned`. The invariant
adds to both properties what the loop's last answer means: while it is `more`,
the cycles counted so far leave another one due; once it is not, all have been
run and none beyond. A completion by the loop comes after that answer, whatever
the operator did in between.

**PlanningPipelineProofs**: `TypeCorrect`, `PlanCarriesProgramOut` (the
refinement), `StartJointsAreHanded`, `SeedsAreTheArm`, `FinalStateIsReached`,
`PlanIsSeamless`, `OperationsConstrainTheirOwn`, `PlanAndEventsMeet`,
`PlannersKeepPromise`. The invariant `IInv` is `PipelineTypeOK` with three parts. `Split`: the two streams
are what the resolver made of the instructions so far, so the segments before an
instruction can be counted. `Chain`: each planned segment was handed the
configuration the one before ended in. `Placed`: the scheduler has consumed as
many of either stream as stand before its instruction. Without `Split` and
`Placed` the scheduler could stamp an event against another instruction's
motion, which is all that could go wrong in a stage that joins two streams by
counting. The other theorems strengthen it:
  - `Seeded` for `SeedIsTheArm`: each seed is the one the segments before leave;
  - `Track` for `Seamless`: segments lie end to end in the waypoints and in time
    (`Laid`), and what is still to come begins at the offset, in the compiler's
    configuration (`Smooth`);
  - `Ranged` and `Abreast` for `WaypointsAreConstrained`: the ranges of the
    operations tile the segments, and the segments tile the waypoints;
  - `Settled` and `Clocked` for `EventsMeetTheArm`: at the time a segment begins
    all waypoints of that time have the arm at one place, and every event's time
    is the plan's time of the motions before it plus the pauses before it.

Assumed besides types (`RequestAssumption`): a solution lies at the target's
place (`SolverAssumption`), and what section 3 says of trajectories
(`DispatcherAssumption`). `PlannersKeepPromise` proves the second of the default
dispatcher, and `DefaultDispatcher` both of a pipeline that uses it, from
`SolversKeep`: a solver answers with a configuration at the place asked for or
with none, and with its seed where that is one. The argument is about the samples
of a line (`SampledWell`): as long as none fails, their waypoints are in the order
of their times, all before the end, and the first is where the arm is, because
the solver is asked for the place it already has; samples skipped in a dead zone
leave gaps, never a step back. Acceleration profiles and circular moves
(`SegmentPlanner` has none) stay assumed.

**SkillExecutionProofs**: `OriginsSurvive`, `GripperMeetsItsObject`,
`ValidatedProgramsAreSafe`, `RecordsAreOfTheirSkills`, `SkillsArePlannedAlike`,
`SkillsAreCarriedOut`, for every request, registry and knowledge of objects.
Lowering puts the instructions of one operation behind those of another
(`FlattenSeq`); `FlattenCuts` says of any such list that it is cut into blocks,
one per part, told apart by their origins, and the lemmas before it say what
each kind of operation contributes (`OperationPart`). The invariant is that of
the planner with `Told` (the timed events are the logical ones, one by one) and
`Requested` (what is planned is what the program under way was lowered to, or
lowering failed), so that the plan can be read back to the operations (`Traces`,
`PlannedCut`). `GripperMeetsItsObject` puts `EventsMeetTheArm` on top of that,
under the hypothesis `ProfilesMove`. `RecordsAreOfTheirSkills` needs `Chronicle`:
each record is the engine's verdict on its skill in the worlds that skill began
and ended in or, of a skill whose plan failed, the host's word; and a program run
as a whole keeps the world it was asked in until it is judged. The theorem does
not say what the record of a skill with a failed plan holds as its outcome, nor
that the verdicts between the first and the last of a whole program are those of
their moments: finding 3 shows that the code gives neither.
`SkillsArePlannedAlike` and `SkillsAreCarriedOut` carry the theorems of the
planner over to programs that come down from skills: the steps a host of skills
makes the planner do are its own or a request between two (`PlannerSteps`).

**ReactiveEvaluatorProofs**: `StepsImplementStructured`, `CallsMoveOn`,
`ReturningImplementsStructured`, `CounterInCode`, for every program, however its
branches are nested. The state invariant is small (`EvalInv`: the code is the
program's, the counter is in it); the argument is about the code. `Laid` says of
a body compiled at an address that at its start all of it is left to execute,
behind it nothing, and that each of its instructions means what it should
(`Means`): a jump leaves the same statements, a conditional one leaves either
branch before what follows, any other instruction is the next statement.
`MeansMore` carries that from a branch to the body around it, where more follows,
`ConditionalMeans` and `LaidStep` put a body together, and `AllLaidOut` concludes
for all of them by the least size at which it fails. That the two recursive
functions satisfy their equations is itself proved (`FixedPoint`, from the fact
that each asks for smaller bodies only). `ImplementsStructured` has a safety and
a liveness half: the first is `StepsImplementStructured`; the second, that calls
return, is the hypothesis of `ReturningImplementsStructured` and stays with TLC.
`CallsMoveOn` is what it rests on: a call cannot execute an instruction twice.

An induction over numbers cannot be cited (its theorem takes an operator), so
proofs that need one take the least counterexample instead (`Smallest`, from the
well-foundedness of the naturals as a relation). Recursive functions over a
sequence (`FlattenSeq`, the sums of pauses, the worlds of a program carried out,
the samples of a line)
are shown to exist that way (`Iterate`, `SumsExist`) before they are unfolded.

Model-checked only:
  - all liveness (`EveryLeaseEnds`, `BusyReported`, `SettlesWithDevice`,
    `SignalledProgramsComplete`, and in `ImplementsStructured` that calls
    return), which is out of the prover's reach;
  - `AnswersAsWritten`, `BackEndsAgree` and `CallsAsWritten`: the compilers are
    recursive operators over syntax, which no theorem can be about here;
  - that compiled documents satisfy `TokensDeclared`: the tokens are collected by
    a recursive operator. The run `reactive_cell` checks what follows from it, on
    compiled programs only, and its mutant that collects the tokens of one branch
    breaks the hypothesis and `CorrelationNeverFails` with it.

## 6. Findings

1. **A hold can last for ever on nominal telemetry** (`hold_never_ends`).
   The adapter stamps in trajectory time (`io.rs:107`), the executor measures
   age on its clock, and a held waypoint's stamp stands still.
2. **A one-to-zero replacement is not undone** (`one_to_zero`). `apply` takes
   out at least one segment (`program_edit.rs:108`), so the inverse of a
   replacement by nothing overwrites the segment that moved into the gap.
3. **Deviations on record that are none** (`deviation_that_is_none`). The one way
   from a prepared skill to a record is `evaluate_postconditions`, which writes
   Success (`execution.rs:155`). Judged so, a skill whose plan failed is a
   semantic deviation, which the documentation (`execution.rs:38`, 43) says it is
   not. For another reason a pick followed by its place is recorded as one too,
   both carried out, when the program is judged as a whole: the gripper is open
   again by then (`execution.rs:191-201`).

`PROJECT.json` quotes the documentation each of them contradicts. Five more places
where the code does not do what its comments say are in the models as the code has
them, and the properties named here leave them out. None has a run of its own; a
property that includes the case fails within a few steps.

- `session.rs:460`: `fault` refuses only completed and cancelled sessions. The
  comment (451) has it for active ones, which are Running and Paused (34-36); but a
  session not yet running fails, and a failed one fails again, so that its history
  has two ends. `HistoryIsALife` says nothing of when a session may fail, only that
  a completed or cancelled one does not.
- `executor.rs:334`: the expected state holds positions only, so a joint far from
  its planned velocity has no velocity error and is answered Continue, although
  `policy.rs:91` has it held.
- `compiler.rs:543`: behind an output, whose trajectory is empty,
  `segment_start_joints` answers the start of the plan. The comment (522-529) has
  the joints the compiler hands the segment, and says that the case cannot happen.
  `StartJointsAgree` leaves it out.
- `motion_resolver.rs:131`: a linear move leaves the seed behind, which the comment
  (50-51) has tracked through all moves. `SeedIsTheArm` goes as far as the first
  linear move.
- `execution.rs:191-201`: besides the deviation in 3, all verdicts between the
  first and the last of a whole program are about the moments before and after the
  program. `RecordsTellTheTruth` says of whole programs what is true of them.

## 7. Hazards

`PROJECT.json` lists what in this code is hard to test, each at its line with
the properties that cover it. Those without a property have a note; they are
thresholds without effect, a host that switches trajectories without a reset, a
device that reports another number of joints, two robots fed through one pipeline and event identities
after a reset, and the different reading of a negative signal by session and
evaluator. Others are covered in part, as their notes say: failures of a session
that is not active, the seed behind a linear move, the start joints behind an
output, the final state of a replanned suffix that ends in a linear move (of which
the code states nothing that could be contradicted), a skill judged by the
contract of one robot and lowered as that of another, and a process constant with
the name of a state.

## 8. Plan

Done, in this order: process runtime, its composition with the arbiter,
executor, adapter, detection, evaluator, program edits, session; planning and
scheduling, semantic programs and skills, the language compiler, the process
compiler feeding the runtime; abstract
specifications `TokenLease`, `WaypointTracking`, `StructuredProgram`,
`ProgramTimeline`; the theorems of section 5.

Next, to model:

1. The session driving the evaluator: ticks that reach the end of a program,
   pauses between two steps, completion by condition against completion by
   cycles.
2. A host that changes trajectory without a reset, and two robots through one
   pipeline, as variants of the existing modules.
3. Negation and arithmetic in the language and in processes; circular moves and
   profiles.

Next, to prove:

1. `LeaseInv` and the silence of ended occurrences for `CompiledCell`, once the
   tokens of a process are collected by a fold.
