----------------------- MODULE ComparePipelineProofs -----------------------
(***************************************************************************)
(* Deviation events tell the truth for all durations, trajectories and     *)
(* telemetry.  The events alone are not inductive: what they say was       *)
(* gathered by the timers, so the invariant relates the timers to the      *)
(* samples accepted (Log, Timers) and the events to the past (Past).       *)
(***************************************************************************)
EXTENDS ComparePipeline, SequenceTheorems, TLAPS

\* Samples are accepted in order: the last one is the latest, no stamp twice.
Log ==
  /\ lastSeen = NoTime => samples = {}
  /\ lastSeen # NoTime => \E s \in samples : s.at = lastSeen
  /\ \A s \in samples : s.at <= lastSeen
  /\ \A s, u \in samples : s.at = u.at => s = u

\* The detector is waiting for samples that read Against.
Against == status = "normal"
Pending == IF Against THEN pendingViolation ELSE pendingRecovery
Duration == IF Against THEN Confirmation ELSE Recovery

\* A running timer stands for a run of samples against the status, young and as
\* long as it can be; without one the last sample agrees with the status.
Timers ==
  /\ Pending # NoTime =>
       /\ lastSeen # NoTime
       /\ Run(Pending, lastSeen, Against) /\ FirstOf(Pending, Against)
       /\ Pending <= lastSeen /\ lastSeen - Pending < Duration
  /\ Pending = NoTime /\ lastSeen # NoTime =>
       [at |-> lastSeen, violated |-> ~Against] \in samples

\* Events are over before the run under way.
Past ==
  /\ events # <<>> => lastSeen # NoTime
  /\ \A i \in DOMAIN events : events[i].at <= lastSeen
  /\ events # <<>> /\ Pending # NoTime => events[Len(events)].at < Pending

IInv == TypeOK /\ Log /\ Timers /\ Past /\ EventsJustified /\ EventsAlternate

USE DEF Time

-----------------------------------------------------------------------------
(* What accepting a sample does to runs                                     *)

\* An accepted sample is later than all others (InOrder).
LEMMA AcceptLater ==
  ASSUME TypeOK, Log, NEW t \in Time, NEW v \in BOOLEAN, Accept(t, v)
  PROVE  \A s \in samples : s.at < t
BY DetectionAssumption DEF TypeOK, Log, Accept, InOrder, Sample

\* Accepting a sample keeps the log in order.
LEMMA AcceptLog ==
  ASSUME TypeOK, Log, NEW t \in Time, NEW v \in BOOLEAN, Accept(t, v)
  PROVE  Log' /\ samples' \subseteq Sample /\ lastSeen' = t
<1>1. \A s \in samples : s.at < t
  BY AcceptLater
<1>2. [at |-> t, violated |-> v] \in Sample
  BY DEF Sample
<1>3. samples' = samples \cup {[at |-> t, violated |-> v]} /\ lastSeen' = t
  BY DEF Accept
<1>4. samples' \subseteq Sample
  BY <1>2, <1>3 DEF TypeOK
<1>5. \A s \in samples' : s.at <= t
  BY <1>1, <1>3 DEF TypeOK, Sample
<1>6. \A s, u \in samples' : s.at = u.at => s = u
  BY <1>1, <1>3 DEF TypeOK, Sample, Log
<1>7. t # NoTime /\ \E s \in samples' : s.at = t
  <2>1. [at |-> t, violated |-> v] \in samples' /\ [at |-> t, violated |-> v].at = t
    BY <1>3
  <2>2. t # NoTime
    BY DetectionAssumption
  <2> QED BY <2>1, <2>2
<1> QED BY <1>3, <1>4, <1>5, <1>6, <1>7 DEF Log

\* A run stays one when a later sample reads the same.
LEMMA RunExtends ==
  ASSUME TypeOK, Log, NEW t \in Time, NEW v \in BOOLEAN, Accept(t, v),
         NEW p \in Time, lastSeen \in Time, Run(p, lastSeen, v)
  PROVE  Run(p, t, v)'
<1>1. \A s \in samples : s.at <= lastSeen
  BY DEF Log
<1> QED BY <1>1 DEF Run, Accept, TypeOK, Sample

\* A single accepted sample is a run.
LEMMA RunStarts ==
  ASSUME TypeOK, Log, NEW t \in Time, NEW v \in BOOLEAN, Accept(t, v)
  PROVE  Run(t, t, v)'
<1>1. \A s \in samples : s.at < t
  BY AcceptLater
<1> QED BY <1>1 DEF Run, Accept, TypeOK, Sample

\* Later samples leave the past alone: an event once justified stays so.
LEMMA JustifiedKept ==
  ASSUME TypeOK, Log, NEW t \in Time, NEW v \in BOOLEAN, Accept(t, v),
         NEW e \in Event, Justified(e), lastSeen \in Time, e.at <= lastSeen
  PROVE  Justified(e)'
<1>1. \A s \in samples : s.at < t
  BY AcceptLater
<1>2. e.onset \in Time /\ e.at \in Time /\ e.at < t /\ e.onset <= e.at
  BY DetectionAssumption DEF Event, Accept, InOrder, Justified, Prompt
<1>3. samples' = samples \cup {[at |-> t, violated |-> v]}
  BY DEF Accept
<1> DEFINE w == e.kind = "confirmed"
           d == IF w THEN Confirmation ELSE Recovery
<1>4. Run(e.onset, e.at, w)'
  BY <1>1, <1>2, <1>3 DEF Justified, Run
<1>5. FirstOf(e.onset, w)'
  BY <1>1, <1>2, <1>3 DEF Justified, FirstOf
<1>6. Prompt(e.onset, e.at, d)'
  BY <1>1, <1>2, <1>3 DEF Justified, Prompt
<1> QED BY <1>4, <1>5, <1>6 DEF Justified

\* The onset of a run does not move when a later sample is accepted.
LEMMA FirstKept ==
  ASSUME TypeOK, Log, NEW t \in Time, NEW v \in BOOLEAN, Accept(t, v),
         NEW p \in Time, NEW w \in BOOLEAN, lastSeen \in Time, p <= lastSeen,
         FirstOf(p, w)
  PROVE  FirstOf(p, w)'
<1>1. \A s \in samples : s.at < t
  BY AcceptLater
<1>2. p < t
  BY DetectionAssumption DEF Accept, InOrder
<1> QED BY <1>1, <1>2 DEF FirstOf, Accept

\* A run that starts after a sample to the contrary could not start earlier.
LEMMA FirstStarts ==
  ASSUME TypeOK, Log, NEW t \in Time, NEW v \in BOOLEAN, Accept(t, v),
         lastSeen # NoTime => [at |-> lastSeen, violated |-> ~v] \in samples
  PROVE  FirstOf(t, v)'
<1>1. \A s \in samples : s.at < t
  BY AcceptLater
<1>2. CASE lastSeen = NoTime
  BY <1>1, <1>2 DEF FirstOf, Accept, Log
<1>3. CASE lastSeen # NoTime
  <2> DEFINE u == [at |-> lastSeen, violated |-> ~v]
  <2>1. u \in samples /\ u.at < t /\ u.violated = ~v /\ u.at = lastSeen
    BY <1>1, <1>3
  <2>2. \A s \in samples : s.violated = v => s.at < lastSeen
    BY <2>1, <1>3 DEF Log, TypeOK, Sample
  <2>3. samples' = samples \cup {[at |-> t, violated |-> v]}
    BY DEF Accept
  <2>4. ASSUME NEW s \in samples', s.at < t, s.violated = v
        PROVE \E x \in samples' : s.at < x.at /\ x.at < t /\ x.violated = ~v
    <3>1. s \in samples
      BY <2>3, <2>4
    <3> QED BY <3>1, <2>1, <2>2, <2>3, <2>4
  <2> QED BY <2>4 DEF FirstOf
<1> QED BY <1>2, <1>3

-----------------------------------------------------------------------------
(* The cases of observe                                                     *)

\* A sample that agrees with the status stops the timer (NormalWithin,
\* ViolatingViolated).
Agree(t) ==
  /\ Accept(t, ~Against)
  /\ pendingViolation' = NoTime /\ pendingRecovery' = NoTime
  /\ UNCHANGED <<status, events>>

\* A sample against the status starts the timer or leaves it running.
Wait(t) ==
  /\ Accept(t, Against)
  /\ t - Onset(Pending, t) < Duration
  /\ Pending' = Onset(Pending, t)
  /\ UNCHANGED <<status, events>>
  /\ (IF Against THEN pendingRecovery' ELSE pendingViolation') = NoTime

\* A sample against the status that is late enough turns it.
Turn(t) ==
  /\ Accept(t, Against)
  /\ t - Onset(Pending, t) >= Duration
  /\ pendingViolation' = NoTime /\ pendingRecovery' = NoTime
  /\ status' = IF Against THEN "violating" ELSE "normal"
  /\ Emit(IF Against THEN "confirmed" ELSE "recovered", Onset(Pending, t), t)

\* Every observation is one of the three.
LEMMA ObserveCases ==
  ASSUME TypeOK, NEW t \in Time, Process(t)
  PROVE  Agree(t) \/ Wait(t) \/ Turn(t)
<1> USE DetectionAssumption DEF TypeOK, Onset, Against, Pending, Duration
<1>1. CASE NormalWithin(t)
  BY <1>1 DEF NormalWithin, Agree
<1>2. CASE NormalViolated(t)
  <2>1. Against = TRUE /\ Pending = pendingViolation /\ pendingRecovery' = NoTime
    BY <1>2 DEF NormalViolated
  <2>2. Accept(t, Against)
    BY <1>2, <2>1 DEF NormalViolated
  <2>3. CASE t - Onset(pendingViolation, t) >= Confirmation
    BY <1>2, <2>1, <2>2, <2>3 DEF NormalViolated, Turn, Emit
  <2>4. CASE ~(t - Onset(pendingViolation, t) >= Confirmation)
    BY <1>2, <2>1, <2>2, <2>4 DEF NormalViolated, Wait
  <2> QED BY <2>3, <2>4
<1>3. CASE ViolatingWithin(t)
  <2>1. Against = FALSE /\ Pending = pendingRecovery /\ pendingViolation' = NoTime
    BY <1>3 DEF ViolatingWithin
  <2>2. Accept(t, Against)
    BY <1>3, <2>1 DEF ViolatingWithin
  <2>3. CASE t - Onset(pendingRecovery, t) >= Recovery
    BY <1>3, <2>1, <2>2, <2>3 DEF ViolatingWithin, Turn, Emit
  <2>4. CASE ~(t - Onset(pendingRecovery, t) >= Recovery)
    BY <1>3, <2>1, <2>2, <2>4 DEF ViolatingWithin, Wait
  <2> QED BY <2>3, <2>4
<1>4. CASE ViolatingViolated(t)
  BY <1>4 DEF ViolatingViolated, Agree
<1> QED BY <1>1, <1>2, <1>3, <1>4 DEF Process

\* An accepted sample keeps the events justified and leaves them in the past.
LEMMA EventsKept ==
  ASSUME IInv, NEW t \in Time, NEW v \in BOOLEAN, Accept(t, v),
         NEW e, NEW i \in DOMAIN events, e = events[i]
  PROVE  Justified(e)' /\ e.at < t /\ e \in Event
<1>1. e \in Event /\ events # <<>>
  BY DEF IInv, TypeOK
<1>2. lastSeen \in Time /\ e.at <= lastSeen
  BY <1>1 DEF IInv, Past, TypeOK
<1>3. e.at < t
  BY <1>1, <1>2, DetectionAssumption DEF Accept, InOrder, Event
<1>4. Justified(e)
  BY DEF IInv, EventsJustified
<1>5. Justified(e)'
  BY <1>1, <1>2, <1>4, JustifiedKept DEF IInv
<1> QED BY <1>1, <1>3, <1>5

\* The onset of the run that a sample against the status continues or starts.
LEMMA RunUnderWay ==
  ASSUME IInv, NEW t \in Time, Accept(t, Against),
         NEW p, p = Onset(Pending, t), NEW w \in BOOLEAN, w = Against
  PROVE  /\ p \in Time /\ p <= t
         /\ Run(p, t, w)' /\ FirstOf(p, w)'
         /\ events # <<>> => events[Len(events)].at < p
         /\ \A s \in samples : p <= s.at => s.at - p < Duration
<1> USE DetectionAssumption
<1>0. TypeOK /\ Log /\ Timers /\ Past
  BY DEF IInv
<1>1. CASE Pending # NoTime
  <2>1. p = Pending /\ p \in Time
    BY <1>0, <1>1 DEF Onset, Pending, TypeOK
  <2>2. /\ lastSeen \in Time /\ p <= lastSeen /\ lastSeen - p < Duration
        /\ Run(p, lastSeen, w) /\ FirstOf(p, w)
    BY <1>0, <1>1, <2>1 DEF Timers, TypeOK
  <2>3. Run(p, t, w)'
    BY <1>0, <2>1, <2>2, RunExtends
  <2>4. FirstOf(p, w)'
    BY <1>0, <2>1, <2>2, FirstKept
  <2>5. events # <<>> => events[Len(events)].at < p
    BY <1>0, <1>1, <2>1 DEF Past
  <2>6. p <= t
    BY <2>1, <2>2 DEF Accept, InOrder
  <2>7. \A s \in samples : p <= s.at => s.at - p < Duration
    BY <1>0, <2>1, <2>2 DEF Log, TypeOK, Sample, Duration
  <2> QED BY <2>1, <2>3, <2>4, <2>5, <2>6, <2>7
<1>2. CASE Pending = NoTime
  <2>1. p = t
    BY <1>2 DEF Onset
  <2>2. Run(p, t, w)'
    BY <1>0, <2>1, RunStarts
  <2>3. FirstOf(p, w)'
    BY <1>0, <1>2, <2>1, FirstStarts DEF Timers
  <2>4. events # <<>> => events[Len(events)].at < p
    <3> SUFFICES ASSUME events # <<>> PROVE events[Len(events)].at < p
      OBVIOUS
    <3>1. Len(events) \in DOMAIN events
      BY <1>0 DEF TypeOK
    <3> QED BY <3>1, <2>1, EventsKept
  <2>5. \A s \in samples : s.at < p
    BY <1>0, <2>1, AcceptLater
  <2> QED BY <2>1, <2>2, <2>3, <2>4, <2>5, <1>0 DEF TypeOK, Sample
<1> QED BY <1>1, <1>2

-----------------------------------------------------------------------------
(* The invariant is inductive                                               *)

\* Nothing is expected or pending at first, nor after set_trajectory.
LEMMA FreshIInv ==
  ASSUME NEW new \in Trajectories \cup {NoTrajectory}, SetTrajectory(new)
  PROVE  IInv'
BY DetectionAssumption
DEF SetTrajectory, IInv, TypeOK, Log, Timers, Pending, Past, EventsJustified,
    EventsAlternate, Against

\* See FreshIInv.
LEMMA InitIInv == Init => IInv
BY DetectionAssumption
DEF Init, IInv, TypeOK, Log, Timers, Pending, Past, EventsJustified,
    EventsAlternate, Against

\* Types, log and past events survive any accepted sample that emits nothing.
LEMMA QuietIInv ==
  ASSUME IInv, NEW t \in Time, NEW v \in BOOLEAN, Accept(t, v),
         UNCHANGED <<status, events>>
  PROVE  /\ Log' /\ EventsJustified' /\ EventsAlternate'
         /\ lastSeen' # NoTime
         /\ \A i \in DOMAIN events' : events'[i].at <= lastSeen'
<1>1. Log'
  BY AcceptLog DEF IInv
<1>2. EventsJustified'
  BY EventsKept DEF EventsJustified
<1>3. EventsAlternate'
  BY DEF IInv, EventsAlternate
<1>4. lastSeen' # NoTime
  BY DetectionAssumption DEF Accept
<1>5. ASSUME NEW i \in DOMAIN events PROVE events[i].at <= t
  <2>1. events[i].at < t /\ events[i] \in Event
    BY EventsKept
  <2> QED BY <2>1 DEF Event
<1>6. events' = events /\ lastSeen' = t
  BY DEF Accept
<1> QED BY <1>1, <1>2, <1>3, <1>4, <1>5, <1>6

\* A sample that agrees with the status preserves the invariant.
LEMMA AgreeIInv == ASSUME IInv, NEW t \in Time, Agree(t) PROVE IInv'
<1> DEFINE v == ~Against
<1>0. v \in BOOLEAN /\ Accept(t, v) /\ UNCHANGED <<status, events>>
  BY DEF Agree, Against
<1>1. /\ Log' /\ EventsJustified' /\ EventsAlternate'
      /\ lastSeen' # NoTime
      /\ \A i \in DOMAIN events' : events'[i].at <= lastSeen'
  BY <1>0, QuietIInv
<1>2. samples' \subseteq Sample /\ lastSeen' = t
  BY <1>0, AcceptLog DEF IInv
<1>3. TypeOK'
  BY <1>0, <1>2 DEF IInv, TypeOK, Agree, Accept
<1>4. Timers'
  <2>1. Pending' = NoTime /\ Against' = Against
    BY <1>0 DEF Agree, Pending, Against
  <2>2. [at |-> t, violated |-> v] \in samples'
    BY <1>0 DEF Accept
  <2> QED BY <1>2, <2>1, <2>2 DEF Timers
<1>5. Past'
  BY <1>1 DEF Past, Agree, Pending
<1> QED BY <1>1, <1>3, <1>4, <1>5 DEF IInv

\* A sample against the status that does not turn it preserves the invariant.
LEMMA WaitIInv == ASSUME IInv, NEW t \in Time, Wait(t) PROVE IInv'
<1>p. PICK p : p = Onset(Pending, t)
  OBVIOUS
<1>w. PICK w \in BOOLEAN : w = Against
  BY DEF Against
<1>0. Accept(t, w) /\ UNCHANGED <<status, events>>
  BY <1>w DEF Wait
<1>1. /\ Log' /\ EventsJustified' /\ EventsAlternate'
      /\ lastSeen' # NoTime
      /\ \A i \in DOMAIN events' : events'[i].at <= lastSeen'
  BY <1>0, QuietIInv
<1>2. samples' \subseteq Sample /\ lastSeen' = t
  BY <1>0, AcceptLog DEF IInv
<1>3. /\ p \in Time /\ p <= t
      /\ Run(p, t, w)' /\ FirstOf(p, w)'
      /\ events # <<>> => events[Len(events)].at < p
  BY <1>p, <1>w, RunUnderWay DEF Wait
<1>4. TypeOK'
  BY <1>0, <1>2, <1>3, <1>p DEF IInv, TypeOK, Wait, Accept, Pending, Against
<1>5. Pending' = p /\ Against' = w /\ t - p < Duration'
  BY <1>p, <1>w DEF Wait, Against, Duration
<1>6. p # NoTime
  BY <1>3, DetectionAssumption
<1>7. Timers'
  BY <1>1, <1>2, <1>3, <1>5, <1>6 DEF Timers, Run, FirstOf
<1>8. Past'
  BY <1>0, <1>1, <1>3, <1>5 DEF Past
<1> QED BY <1>1, <1>4, <1>7, <1>8 DEF IInv

\* A sample that turns the status emits a justified event and preserves the
\* invariant.
LEMMA TurnIInv == ASSUME IInv, NEW t \in Time, Turn(t) PROVE IInv'
<1>p. PICK p : p = Onset(Pending, t)
  OBVIOUS
<1>w. PICK w \in BOOLEAN : w = Against
  BY DEF Against
<1>e. PICK e : e = [kind |-> IF w THEN "confirmed" ELSE "recovered",
                    onset |-> p, at |-> t]
  OBVIOUS
<1>0. Accept(t, w)
  BY <1>w DEF Turn
<1>1. Log' /\ samples' \subseteq Sample /\ lastSeen' = t
  BY <1>0, AcceptLog DEF IInv
<1>2. /\ p \in Time /\ p <= t
      /\ Run(p, t, w)' /\ FirstOf(p, w)'
      /\ events # <<>> => events[Len(events)].at < p
      /\ \A s \in samples : p <= s.at => s.at - p < Duration
  BY <1>p, <1>w, RunUnderWay DEF Turn
<1>3. events' = Append(events, e) /\ events \in Seq(Event) /\ e \in Event
  BY <1>p, <1>w, <1>e, <1>2 DEF Turn, Emit, Event, IInv, TypeOK
<1>4. TypeOK'
  BY <1>0, <1>1, <1>3 DEF IInv, TypeOK, Turn, Accept
<1>5. Pending' = NoTime /\ Against' = ~w
  BY <1>w DEF Turn, Pending, Against, IInv, TypeOK
<1>6. lastSeen' # NoTime
  BY <1>1, DetectionAssumption
<1>7. Timers'
  <2>1. [at |-> t, violated |-> w] \in samples'
    BY <1>0 DEF Accept
  <2> QED BY <1>1, <1>5, <2>1 DEF Timers
<1>8. ASSUME NEW i \in DOMAIN events PROVE events[i].at < t /\ events[i] \in Event
  BY <1>0, EventsKept
<1>9. Past'
  <2>1. ASSUME NEW i \in DOMAIN events' PROVE events'[i].at <= t
    <3>1. CASE i \in DOMAIN events
      BY <1>3, <1>8, <3>1, AppendProperties DEF Event
    <3>2. CASE i = Len(events) + 1
      BY <1>3, <1>e, <3>2, AppendProperties
    <3> QED BY <1>3, <3>1, <3>2, AppendProperties
  <2> QED BY <2>1, <1>1, <1>5, <1>6 DEF Past
<1>10. EventsJustified'
  <2>d. PICK d : d = IF w THEN Confirmation ELSE Recovery
    OBVIOUS
  <2>1. d = Duration /\ d \in Nat
    BY <1>w, <2>d, DetectionAssumption DEF Duration
  <2>2. t - p >= d
    BY <1>p, <2>1 DEF Turn
  <2>3. samples' = samples \cup {[at |-> t, violated |-> w]}
    BY <1>0 DEF Accept
  <2>4. Prompt(p, t, d)'
    BY <1>2, <2>1, <2>2, <2>3 DEF Prompt
  <2>5. (e.kind = "confirmed") = w /\ e.onset = p /\ e.at = t
    BY <1>e
  <2>6. Justified(e)'
    BY <1>2, <2>d, <2>4, <2>5 DEF Justified
  <2>7. ASSUME NEW i \in DOMAIN events' PROVE Justified(events[i])'
    <3>1. CASE i \in DOMAIN events
      <4>1. events'[i] = events[i]
        BY <1>3, <3>1, AppendProperties
      <4>2. PICK f : f = events[i]
        OBVIOUS
      <4>3. Justified(f)'
        BY <1>0, <3>1, <4>2, EventsKept
      <4> QED BY <4>1, <4>2, <4>3 DEF Justified, Run, FirstOf, Prompt
    <3>2. CASE i = Len(events) + 1
      <4>1. events'[i] = e
        BY <1>3, <3>2, AppendProperties
      <4> QED BY <2>6, <4>1 DEF Justified, Run, FirstOf, Prompt
    <3> QED BY <1>3, <3>1, <3>2, AppendProperties
  <2> QED BY <2>7 DEF EventsJustified
<1>11. EventsAlternate'
  <2>1. /\ Len(events') = Len(events) + 1 /\ events'[Len(events) + 1] = e
        /\ \A i \in 1 .. Len(events) : events'[i] = events[i]
        /\ DOMAIN events' = 1 .. Len(events) + 1 /\ Len(events) \in Nat
    BY <1>3, AppendProperties, LenProperties
  <2>2. EventsAlternate /\ DOMAIN events = 1 .. Len(events)
    BY <1>3, LenProperties DEF IInv
  <2>n. PICK n \in Nat : n = Len(events)
    BY <2>1
  <2>0. (n + 1) % 2 = IF n % 2 = 1 THEN 0 ELSE 1
    OBVIOUS
  <2>3. (w /\ (n + 1) % 2 = 1) \/ (~w /\ (n + 1) % 2 = 0)
    <3>1. status = IF n % 2 = 1 THEN "violating" ELSE "normal"
      BY <2>2, <2>n DEF EventsAlternate
    <3> QED BY <1>w, <2>0, <3>1 DEF Against
  <2>e. e.kind = IF (n + 1) % 2 = 1 THEN "confirmed" ELSE "recovered"
    BY <1>e, <2>3
  <2>4. ASSUME NEW i \in DOMAIN events'
        PROVE events'[i].kind = IF i % 2 = 1 THEN "confirmed" ELSE "recovered"
    <3>1. CASE i = n + 1
      BY <2>1, <2>n, <2>e, <3>1
    <3>2. CASE i # n + 1
      BY <2>1, <2>2, <2>n, <3>2 DEF EventsAlternate
    <3> QED BY <3>1, <3>2
  <2>5. ASSUME NEW i \in DOMAIN events', i > 1
        PROVE events'[i - 1].at < events'[i].onset
    <3>1. CASE i = Len(events) + 1
      <4>1. events # <<>> /\ i - 1 = Len(events)
        BY <1>3, <2>1, <2>5, <3>1, EmptySeq
      <4> QED BY <2>1, <2>5, <3>1, <4>1, <1>2, <1>e
    <3>2. CASE i # Len(events) + 1
      BY <2>1, <2>2, <2>5, <3>2 DEF EventsAlternate
    <3> QED BY <3>1, <3>2
  <2>6. status' = IF Len(events') % 2 = 1 THEN "violating" ELSE "normal"
    <3>1. status' = IF w THEN "violating" ELSE "normal"
      BY <1>w DEF Turn
    <3> QED BY <2>1, <2>3, <2>n, <3>1
  <2> QED BY <2>4, <2>5, <2>6 DEF EventsAlternate
<1> QED BY <1>1, <1>4, <1>7, <1>9, <1>10, <1>11 DEF IInv

\* Every step preserves the invariant.
LEMMA NextIInv == IInv /\ [Next]_vars => IInv'
<1> SUFFICES ASSUME IInv, [Next]_vars PROVE IInv'
  OBVIOUS
<1>1. ASSUME NEW t \in Time, Process(t) PROVE IInv'
  <2>1. Agree(t) \/ Wait(t) \/ Turn(t)
    BY <1>1, ObserveCases DEF IInv
  <2> QED BY <2>1, AgreeIInv, WaitIInv, TurnIInv
<1>2. ASSUME NEW new \in Trajectories \cup {NoTrajectory}, SetTrajectory(new)
      PROVE IInv'
  BY <1>2, FreshIInv
<1>3. CASE UNCHANGED vars
  BY <1>3 DEF vars, IInv, TypeOK, Log, Timers, Pending, Duration, Against, Run,
              FirstOf, Past, EventsJustified, Justified, Prompt, EventsAlternate
<1> QED BY <1>1, <1>2, <1>3 DEF Next

\* The timers, the samples and the events stay consistent for ever.
THEOREM PipelineInvariant == Spec => []IInv
  BY InitIInv, NextIInv, PTL DEF Spec

\* Every variable keeps its type and only the timer of the status runs.
THEOREM PipelineTypeCorrect == Spec => []TypeOK
<1>1. IInv => TypeOK
  BY DEF IInv
<1> QED BY <1>1, PipelineInvariant, PTL

\* Every deviation event tells the truth about the samples (observe, process),
\* whatever the durations and however telemetry is lost or reordered.
THEOREM EventsTruthful == Spec => []EventsJustified
<1>1. IInv => EventsJustified
  BY DEF IInv
<1> QED BY <1>1, PipelineInvariant, PTL

\* Confirmations and recoveries alternate and no event identity is used twice.
THEOREM EventsInTurn == Spec => []EventsAlternate
<1>1. IInv => EventsAlternate
  BY DEF IInv
<1> QED BY <1>1, PipelineInvariant, PTL

\* A run against the status that were old enough would have turned it: the
\* timer started at its onset or before.
LEMMA InvNothingMissed == IInv => NothingMissed
<1> SUFFICES ASSUME IInv, lastSeen # NoTime,
                    NEW s \in samples, NEW w, w = Against,
                    Run(s.at, lastSeen, w)
             PROVE  lastSeen - s.at < Duration
  BY DEF NothingMissed, Against, Duration
<1> USE DetectionAssumption
<1>0. w \in BOOLEAN
  BY DEF Against
<1>1. TypeOK /\ Log /\ Timers /\ s \in Sample /\ lastSeen \in Time
      /\ s.at <= lastSeen
  BY DEF IInv, TypeOK, Log
<1>2. s.violated = w /\ [at |-> lastSeen, violated |-> w] \in samples
  BY <1>1 DEF Run, Sample
<1>3. Pending # NoTime
  <2> SUFFICES ASSUME Pending = NoTime PROVE FALSE
    OBVIOUS
  <2>1. [at |-> lastSeen, violated |-> ~w] \in samples
    BY <1>1 DEF Timers
  <2>2. [at |-> lastSeen, violated |-> ~w] = [at |-> lastSeen, violated |-> w]
    BY <1>1, <1>2, <2>1 DEF Log
  <2>3. ~w = w
    BY <2>2
  <2> QED BY <1>0, <2>3
<1>4. /\ Pending \in Time /\ FirstOf(Pending, w)
      /\ lastSeen - Pending < Duration /\ Pending <= lastSeen
  BY <1>1, <1>3 DEF Timers, Pending, TypeOK
<1>5. Pending <= s.at
  <2> SUFFICES ASSUME s.at < Pending PROVE FALSE
    BY <1>1, <1>4 DEF Sample
  <2>1. PICK u \in samples : s.at < u.at /\ u.at < Pending /\ u.violated = ~w
    BY <1>2, <1>4 DEF FirstOf
  <2>2. u.violated = w
    BY <1>1, <1>4, <2>1 DEF Run, TypeOK, Sample
  <2> QED BY <1>0, <2>1, <2>2
<1> QED BY <1>1, <1>4, <1>5, DetectionAssumption DEF Duration, Sample

\* No violation or recovery that has lasted long enough goes unannounced.
THEOREM NothingGoesMissing == Spec => []NothingMissed
  BY InvNothingMissed, PipelineInvariant, PTL
=============================================================================
