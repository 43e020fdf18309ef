----------------------------- MODULE TokenLease -----------------------------
(***************************************************************************)
(* What a request token promises to the author of a process, without       *)
(* queues, ticks or reactions: a token is free or leased to one occurrence *)
(* of requested work, occurrence numbers are never reused, and a lease     *)
(* ends once, by the end of that very occurrence.                          *)
(***************************************************************************)
EXTENDS Naturals

CONSTANTS Tokens, NoOccurrence

VARIABLES
  holder,   \* occurrence a token is leased to, or NoOccurrence
  fresh,    \* next occurrence number
  ended     \* occurrences whose lease has ended

leaseVars == <<holder, fresh, ended>>

LeaseInit ==
  /\ holder = [t \in Tokens |-> NoOccurrence]
  /\ fresh = 0
  /\ ended = {}

Acquire(t) ==
  /\ holder[t] = NoOccurrence
  /\ holder' = [holder EXCEPT ![t] = fresh]
  /\ fresh' = fresh + 1
  /\ UNCHANGED ended

\* A request without a token, or one whose token is leased, uses up a number.
Spend ==
  /\ fresh' = fresh + 1
  /\ UNCHANGED <<holder, ended>>

Release(t) ==
  /\ holder[t] # NoOccurrence
  /\ holder' = [holder EXCEPT ![t] = NoOccurrence]
  /\ ended' = ended \cup {holder[t]}
  /\ UNCHANGED fresh

LeaseNext == Spend \/ \E t \in Tokens : Acquire(t) \/ Release(t)

LeaseSpec == LeaseInit /\ [][LeaseNext]_leaseVars
=============================================================================
