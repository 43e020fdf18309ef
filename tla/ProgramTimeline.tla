-------------------------- MODULE ProgramTimeline --------------------------
(***************************************************************************)
(* What planning a program promises: one arm and one clock go through the  *)
(* instructions in order.  A motion takes the arm to the place its         *)
(* instruction names, in some time; a delay and an output are recorded at  *)
(* the moment they are reached, and a delay lets its time pass.  A program *)
(* is carried out as a whole or not at all.                                *)
(***************************************************************************)
EXTENDS Naturals, Sequences

CONSTANTS
  Instructions,
  NoProgram,
  Places,
  Nowhere   \* the arm while no program is carried out

VARIABLES
  program,  \* instructions carried out, or NoProgram
  done,     \* how many of them are over
  clock,    \* time since the start
  place,    \* place of the arm
  journal   \* delays and outputs, each with its moment

vars == <<program, done, clock, place, journal>>

Motions == {"MoveJ", "MoveL"}

Init ==
  /\ program = NoProgram /\ place = Nowhere
  /\ done = 0 /\ clock = 0 /\ journal = <<>>

Begin ==
  /\ program = NoProgram
  /\ program' \in Seq(Instructions) /\ place' \in Places
  /\ UNCHANGED <<done, clock, journal>>

Current == program[done + 1]

Advance ==
  /\ program # NoProgram /\ done < Len(program)
  /\ done' = done + 1 /\ UNCHANGED program

\* A joint move asked for at no speed is the one that leaves the arm where it is.
Move ==
  /\ Advance
  /\ Current.kind \in Motions
  /\ clock' \in Nat /\ clock' >= clock
  /\ place' = IF Current.kind = "MoveJ" /\ Current.speed = 0
              THEN place ELSE Current.target.place
  /\ UNCHANGED journal

Entry == [kind |-> Current.kind, origin |-> Current.origin,
          amount |-> Current.amount, at |-> clock]

Wait ==
  /\ Advance
  /\ Current.kind = "Delay"
  /\ clock' = clock + Current.amount
  /\ journal' = Append(journal, Entry)
  /\ UNCHANGED place

Output ==
  /\ Advance
  /\ Current.kind = "SetOutput"
  /\ journal' = Append(journal, Entry)
  /\ UNCHANGED <<clock, place>>

End ==
  /\ program # NoProgram
  /\ program' = NoProgram /\ place' = Nowhere
  /\ done' = 0 /\ clock' = 0 /\ journal' = <<>>

Next == Begin \/ Move \/ Wait \/ Output \/ End

Spec == Init /\ [][Next]_vars
=============================================================================
