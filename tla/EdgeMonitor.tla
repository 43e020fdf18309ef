----------------------------- MODULE EdgeMonitor -----------------------------
(***************************************************************************)
(* Edges over time.  event_fires compares two readings; which reactions    *)
(* follow each other over many ticks, with readings missing in between and *)
(* cycles run between ticks, is what the monitor lastEdge remembers: the   *)
(* kind of the last edge reaction that ran, per signal.                    *)
(***************************************************************************)
EXTENDS ProcessRuntime

VARIABLE lastEdge

monitoredVars == <<vars, lastEdge>>

EdgeKinds == {"rising", "falling"}

\* A reaction of this kind with something to do is being started.
EdgeRun(s, k) ==
  /\ phase = "react" /\ agenda = <<>> /\ reaction' = reaction + 1
  /\ Reactions[reaction].event.kind = k
  /\ Reactions[reaction].event.signal = s
  /\ agenda' # <<>>

Monitor ==
  lastEdge' = [s \in Signals |->
    IF EdgeRun(s, "rising") THEN "rising"
    ELSE IF EdgeRun(s, "falling") THEN "falling" ELSE lastEdge[s]]

MonitoredInit == Init /\ lastEdge = [s \in Signals |-> "none"]
MonitoredNext == Next /\ Monitor
MonitoredSpec == MonitoredInit /\ [][MonitoredNext]_monitoredVars

-----------------------------------------------------------------------------
(* Properties                                                               *)

\* The reactions of the process to one kind of edge of a signal.
EdgeReactions(s, k) ==
  {i \in DOMAIN Reactions :
     /\ Reactions[i].event.kind = k /\ Reactions[i].event.signal = s
     /\ Reactions[i].body # <<>>}

\* The process reacts once to a rise of the signal and once to its fall.
Paired(s) ==
  \A k \in EdgeKinds : \E i \in DOMAIN Reactions : EdgeReactions(s, k) = {i}

\* Where a signal has a rising and a falling reaction they alternate, whatever
\* readings are missing in between: a gap neither hides a change of level nor
\* repeats one (event_fires, record_edges).
EdgesAlternate ==
  [][ \A s \in Signals, k \in EdgeKinds :
        Paired(s) /\ EdgeRun(s, k) => lastEdge[s] # k ]_monitoredVars
=============================================================================
