---------------------------- MODULE ReactiveCell ----------------------------
(***************************************************************************)
(* A process runtime and the arbiter that runs the work it requests.  The  *)
(* arbiter is host code outside this repository; it is modelled from what  *)
(* the runtime says of it: an active slot and a bounded pending queue      *)
(* (RejectionReason::Capacity), a notification that may fail               *)
(* (RejectionReason::Notification), the outcomes of a request              *)
(* (TokenOutcome) and a background cycle driven only while it is idle      *)
(* (run_cycle).  It works through the effects of a call in order: requests *)
(* are jobs, and a busy refusal asks nothing of it.                        *)
(***************************************************************************)
EXTENDS ProcessRuntime, Integers

CONSTANTS
  NoJob,      \* the active slot is empty
  Capacity,   \* length of the pending queue
  StmtsOf     \* statements of each process, those of its branches included

ASSUME ArbiterAssumption == Capacity \in Nat /\ NoJob \notin Effect

ASSUME StatementAssumption == \A p \in Programs :
  /\ p.cycle \in Seq(StmtsOf[p])
  /\ \A i \in DOMAIN p.reactions : p.reactions[i].body \in Seq(StmtsOf[p])
  /\ \A s \in StmtsOf[p] : s.op = "if" =>
       s.then \in Seq(StmtsOf[p]) /\ s.else \in Seq(StmtsOf[p])

\* A process declares every token it requests, in whatever branch: what
\* compile_process makes of a text (collect_process_tokens).
TokensDeclared ==
  \A p \in Programs : \A s \in StmtsOf[p] :
    s.op = "request" => s.token \in p.tokens \cup {NoToken}

VARIABLES
  submitted,  \* effects returned by the runtime, not yet seen by the arbiter
  active,     \* job being executed
  waiting     \* admitted jobs behind it

arbiterVars == <<submitted, active, waiting>>
cellVars == <<vars, arbiterVars>>

\* The arbiter's next effect asks for work.
Requested == submitted # <<>> /\ Head(submitted).kind = "request"

ArbiterIdle == submitted = <<>> /\ active = NoJob /\ waiting = <<>>

\* A job without a token has nobody to tell, and a refused delivery is lost.
Notify(job, ev) ==
  /\ phase = "idle"
  /\ IF job.token # NoToken /\ Deliverable(job.token, job.occurrence, ev)
     THEN DeliverOutcome(job.token, job.occurrence, ev)
     ELSE UNCHANGED vars

-----------------------------------------------------------------------------

Start ==
  /\ Requested /\ active = NoJob
  /\ Notify(Head(submitted), "admitted")
  /\ active' = Head(submitted)
  /\ submitted' = Tail(submitted)
  /\ UNCHANGED waiting

Enqueue ==
  /\ Requested /\ active # NoJob /\ Len(waiting) < Capacity
  /\ Notify(Head(submitted), "admitted")
  /\ waiting' = Append(waiting, Head(submitted))
  /\ submitted' = Tail(submitted)
  /\ UNCHANGED active

\* No room, or the admission could not be announced to the planner.
Reject ==
  /\ Requested
  /\ Notify(Head(submitted), "rejected")
  /\ submitted' = Tail(submitted)
  /\ UNCHANGED <<active, waiting>>

\* The process hears of a refusal by itself.
PassBusy ==
  /\ submitted # <<>> /\ ~Requested
  /\ submitted' = Tail(submitted)
  /\ UNCHANGED <<vars, active, waiting>>

\* The active job ends and the next admitted one takes its place.
Finish(ev) ==
  /\ active # NoJob
  /\ Notify(active, ev)
  /\ active' = IF waiting = <<>> THEN NoJob ELSE Head(waiting)
  /\ waiting' = IF waiting = <<>> THEN <<>> ELSE Tail(waiting)
  /\ UNCHANGED submitted

Arbiter ==
  \/ Start
  \/ Enqueue
  \/ Reject
  \/ PassBusy
  \/ \E ev \in TerminalEvent \ {"rejected"} : Finish(ev)

\* The call returns and its effects reach the arbiter.
Return ==
  /\ EndTick \/ EndCycle
  /\ submitted' = submitted \o effects
  /\ UNCHANGED <<active, waiting>>

Compute ==
  /\ Inside /\ phase' # "idle"
  /\ UNCHANGED arbiterVars

ControlTick ==
  /\ \E o \in [Signals -> Reading] : Tick(o)
  /\ UNCHANGED arbiterVars

BackgroundCycle ==
  /\ ArbiterIdle
  /\ \E o \in [Signals -> Reading] : RunCycle(o)
  /\ UNCHANGED arbiterVars

CellInit == Init /\ ArbiterIdle

CellNext == Compute \/ Return \/ ControlTick \/ BackgroundCycle \/ Arbiter

\* The control loop keeps ticking and every call returns; the arbiter answers
\* each job and each active job ends.  The background cycle owes nothing.
Fairness ==
  /\ WF_cellVars(Compute)
  /\ WF_cellVars(Return)
  /\ WF_cellVars(ControlTick)
  /\ SF_cellVars(Arbiter)

CellSpec == CellInit /\ [][CellNext]_cellVars /\ Fairness

-----------------------------------------------------------------------------
(* Properties                                                               *)

\* Numbers a run can issue: a call past the bound still completes.
Occurrences == 0 .. MaxOccurrence + 2

Elems(q) == {q[i] : i \in DOMAIN q}

\* Jobs on their way to an outcome: in the effects of the running call, between
\* runtime and arbiter, waiting or active.
OpenJobs ==
  {j \in Elems(effects) \cup Elems(submitted) \cup Elems(waiting) :
     j.kind = "request"} \cup ({active} \ {NoJob})

QueuedEnds(t) ==
  {p.occurrence : p \in {q \in Elems(outcomes) \cup Elems(inbox) :
                           q.token = t /\ q.outcome \in TerminalEvent}}

\* No lease is orphaned: an occurrence that holds a token is either still an
\* open job or its end is queued for the next tick, never both and never lost.
LeaseAccounted ==
  \A t \in Tokens : slot[t] # NoOccurrence =>
    (\E j \in OpenJobs : j.token = t /\ j.occurrence = slot[t])
      # (slot[t] \in QueuedEnds(t))

\* The arbiter never speaks out of turn: every open job with a token still
\* holds it, so no outcome it reports is refused as a stale occurrence.
CorrelationNeverFails ==
  \A j \in OpenJobs : j.token # NoToken => slot[j.token] = j.occurrence

\* Every lease ends: whatever the arbiter decides about a job, the process gets
\* its token back.
EveryLeaseEnds ==
  \A t \in Tokens, o \in Occurrences : slot[t] = o ~> slot[t] # o

\* A request refused because its token was taken is always reported to the
\* process as Busy, in a later tick.
BusyReported ==
  \A o \in Occurrences :
    (\E e \in Elems(effects) : e.kind = "busy" /\ e.occurrence = o)
      ~> <<o, "busy">> \in heard
=============================================================================
