------------------------ MODULE ExecutionSessionProofs ------------------------
(***************************************************************************)
(* The life of an execution session, for every cardinality, termination    *)
(* policy and order of calls.                                              *)
(***************************************************************************)
EXTENDS ExecutionSession, SequenceTheorems, TLAPS

\* While the loop believes another cycle due, it is: none has been counted, or
\* fewer than the cardinality allows.  Once it has been told otherwise, all have
\* been run.  A session completed by the loop was completed after that.
CycleDue ==
  /\ IF more
     THEN \/ cardinality = Continuous
          \/ currentCycle = 0
          \/ cardinality \in Nat /\ currentCycle < cardinality
     ELSE CyclesRun
  /\ lifecycle = "Completed" /\ outcome # "SessionCompleted" => ~more

\* The inductive invariant.
SessionInv ==
  SessionTypeOK /\ HistoryIsALife /\ CompletionEarned /\ CycleDue

\* One more state on record: the history before it, and the state.
LEMMA Recorded ==
  ASSUME SessionTypeOK, NEW next \in States, RecordTransition(next)
  PROVE  /\ history' \in Seq(States)
         /\ Len(history') = Len(history) + 1 /\ Len(history) \in Nat
         /\ history'[Len(history) + 1] = next
         /\ \A k \in 1..Len(history) : history'[k] = history[k]
         /\ lifecycle' = next
         /\ cardinality' = cardinality /\ termination' = termination
BY AppendProperties, LenProperties DEF SessionTypeOK, RecordTransition

\* A permitted transition leaves the history a life.
LEMMA LifeGoesOn ==
  ASSUME SessionTypeOK, HistoryIsALife,
         NEW next \in States, RecordTransition(next), MayFollow(lifecycle, next)
  PROVE  HistoryIsALife'
<1> DEFINE n == Len(history)
<1>1. /\ Len(history') = n + 1 /\ n \in Nat /\ history'[n + 1] = next
      /\ \A k \in 1..n : history'[k] = history[k]
      /\ lifecycle' = next /\ history' \in Seq(States)
  BY Recorded
<1>2. n > 0 /\ history[1] = "Created" /\ history[n] = lifecycle
      /\ \A k \in 1..(n - 1) : MayFollow(history[k], history[k + 1])
  BY EmptySeq, <1>1 DEF HistoryIsALife, SessionTypeOK
<1> HIDE DEF n
<1>3. history' # <<>> /\ history'[1] = "Created"
  BY <1>1, <1>2, EmptySeq
<1>4. ASSUME NEW k \in 1..n PROVE MayFollow(history'[k], history'[k + 1])
  <2>1. CASE k = n  BY <2>1, <1>1, <1>2
  <2>2. CASE k < n
    <3>1. k + 1 \in 1..n /\ k \in 1..(n - 1)  BY <2>2, <1>1
    <3>2. MayFollow(history[k], history[k + 1])  BY <3>1, <1>2
    <3> QED BY <3>1, <3>2, <1>1
  <2> QED BY <2>1, <2>2, <1>1
<1>5. 1..(Len(history') - 1) = 1..n  BY <1>1
<1> QED BY <1>1, <1>3, <1>4, <1>5 DEF HistoryIsALife

\* No call leads to Dispatched.
LEMMA NeverDispatched ==
  ASSUME SessionTypeOK, HistoryIsALife
  PROVE  lifecycle # "Dispatched"
<1> DEFINE n == Len(history)
<1>1. /\ n \in Nat /\ n > 0 /\ history[1] = "Created" /\ history[n] = lifecycle
      /\ \A k \in 1..(n - 1) : MayFollow(history[k], history[k + 1])
  BY EmptySeq, LenProperties DEF HistoryIsALife, SessionTypeOK
<1> HIDE DEF n
<1>2. CASE n = 1  BY <1>1, <1>2
<1>3. CASE n > 1
  <2>1. n - 1 \in 1..(n - 1) /\ (n - 1) + 1 = n  BY <1>1, <1>3
  <2>2. MayFollow(history[n - 1], lifecycle)  BY <2>1, <1>1
  <2> QED BY <2>2 DEF MayFollow, Follow
<1> QED BY <1>1, <1>2, <1>3

\* Every session keeps the invariant.
THEOREM SessionInvariant == Spec => []SessionInv
<1>1. Init => SessionInv
  <2> SUFFICES ASSUME Init PROVE SessionInv  OBVIOUS
  <2>1. SessionTypeOK
    BY CardinalityAssumption DEF Init, SessionTypeOK, States
  <2>2. HistoryIsALife /\ CompletionEarned /\ CycleDue
    BY DEF Init, HistoryIsALife, CompletionEarned, CycleDue
  <2> QED BY <2>1, <2>2 DEF SessionInv
<1>2. SessionInv /\ [Next]_vars => SessionInv'
  <2> SUFFICES ASSUME SessionInv, [Next]_vars PROVE SessionInv'  OBVIOUS
  <2> USE DEF SessionInv
  <2>1. ASSUME NEW next \in States, RecordTransition(next),
               MayFollow(lifecycle, next), lifecycle # "Completed",
               next # "Completed", UNCHANGED <<currentCycle, more, outcome>>
        PROVE  SessionInv'
    <3>1. HistoryIsALife'  BY <2>1, LifeGoesOn
    <3>2. SessionTypeOK'  BY <2>1, Recorded DEF SessionTypeOK
    <3>3. CompletionEarned' /\ CycleDue'
      BY <2>1 DEF RecordTransition, CompletionEarned, CycleDue, CyclesRun
    <3> QED BY <3>1, <3>2, <3>3
  <2>2. CASE Initialize
    BY <2>2, <2>1 DEF Initialize, MayFollow, Follow, States
  <2>3. CASE Start
    <3>1. lifecycle # "Dispatched"  BY NeverDispatched
    <3> QED BY <3>1, <2>3, <2>1 DEF Start, MayFollow, Follow, States
  <2>4. CASE Pause
    BY <2>4, <2>1 DEF Pause, MayFollow, Follow, States
  <2>5. CASE Stop
    BY <2>5, <2>1 DEF Stop, MayFollow, Follow, States
  <2>6. CASE Fault
    <3>1. lifecycle # "Dispatched"  BY NeverDispatched
    <3> QED BY <3>1, <2>6, <2>1
         DEF Fault, FaultableStates, MayFollow, States, SessionTypeOK
  <2>7. CASE CompleteProgramCycle
    <3>1. SessionTypeOK' /\ HistoryIsALife'
      BY <2>7, CardinalityAssumption
         DEF CompleteProgramCycle, Continues, SessionTypeOK, HistoryIsALife
    <3>2. lifecycle # "Completed" /\ outcome = "Success"
      BY <2>7 DEF CompleteProgramCycle, CycleDue
    <3>3. CompletionEarned'
      BY <3>2, <2>7 DEF CompleteProgramCycle, CompletionEarned
    <3>4. CycleDue'
      <4>1. lifecycle' # "Completed"
        BY <3>2, <2>7 DEF CompleteProgramCycle
      <4>2. CASE Continues(currentCycle + 1)
        <5>1. \/ cardinality' = Continuous
              \/ cardinality' \in Nat /\ currentCycle' < cardinality'
          BY <4>2, <2>7, CardinalityAssumption
             DEF CompleteProgramCycle, Continues, SessionTypeOK
        <5>2. more' = TRUE  BY <4>2, <2>7 DEF CompleteProgramCycle
        <5> QED BY <4>1, <5>1, <5>2 DEF CycleDue
      <4>3. CASE ~Continues(currentCycle + 1)
        <5>1. CyclesRun'
          BY <4>3, <2>7, CardinalityAssumption
             DEF CompleteProgramCycle, Continues, CyclesRun, CycleDue,
                 SessionTypeOK
        <5>2. more' = FALSE
          BY <4>3, <2>7 DEF CompleteProgramCycle, Continues
        <5> QED BY <4>1, <5>1, <5>2 DEF CycleDue
      <4> QED BY <4>2, <4>3
    <3> QED BY <3>1, <3>3, <3>4
  <2>8. CASE CompleteSession
    <3>1. /\ RecordTransition("Completed") /\ lifecycle = "Running" /\ ~more
          /\ UNCHANGED <<currentCycle, more, outcome>>
      BY <2>8 DEF CompleteSession, Complete
    <3>2. HistoryIsALife'  BY <3>1, LifeGoesOn DEF MayFollow, Follow, States
    <3>3. SessionTypeOK'
      BY <3>1, Recorded DEF SessionTypeOK, States
    <3>4. CompletionEarned' /\ CycleDue'
      BY <3>1 DEF RecordTransition, CompletionEarned, CycleDue, CyclesRun
    <3> QED BY <3>2, <3>3, <3>4
  <2>9. ASSUME NEW reading \in Readings \cup {Missing}, EvaluateTick(reading)
        PROVE  SessionInv'
    <3>1. CASE ConditionMet(reading)
      <4>1. /\ RecordTransition("Completed") /\ lifecycle = "Running"
            /\ outcome' = "SessionCompleted" /\ UNCHANGED <<currentCycle, more>>
        BY <3>1, <2>9 DEF EvaluateTick, Complete
      <4>2. HistoryIsALife'  BY <4>1, LifeGoesOn DEF MayFollow, Follow, States
      <4>3. SessionTypeOK'
        BY <4>1, Recorded DEF SessionTypeOK, States
      <4>4. CompletionEarned' /\ CycleDue'
        BY <4>1 DEF RecordTransition, CompletionEarned, CycleDue, CyclesRun
      <4> QED BY <4>2, <4>3, <4>4
    <3>2. CASE ~ConditionMet(reading)
      BY <3>2, <2>9
         DEF EvaluateTick, SessionTypeOK, HistoryIsALife, CompletionEarned,
             CycleDue, CyclesRun
    <3> QED BY <3>1, <3>2
  <2>10. CASE UNCHANGED vars
    BY <2>10 DEF vars, SessionTypeOK, HistoryIsALife, CompletionEarned, CycleDue,
                CyclesRun
  <2> QED BY <2>2, <2>3, <2>4, <2>5, <2>6, <2>7, <2>8, <2>9, <2>10 DEF Next
<1> QED BY <1>1, <1>2, PTL DEF Spec

\* The history on record is the life the session has had, whatever is called,
\* with the failures the code admits, more than session.rs:451 says.
THEOREM HistoryKept == Spec => []HistoryIsALife
<1>1. SessionInv => HistoryIsALife  BY DEF SessionInv
<1> QED BY <1>1, SessionInvariant, PTL

\* A session reported completed stays so, and one that the loop completes ran
\* exactly the cycles its cardinality calls for.  The loop counts while it is
\* told to and completes when it is told not to: that is assumed of it.
THEOREM CompletionsEarned == Spec => []CompletionEarned
<1>1. SessionInv => CompletionEarned  BY DEF SessionInv
<1> QED BY <1>1, SessionInvariant, PTL
=============================================================================
