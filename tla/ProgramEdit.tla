----------------------------- MODULE ProgramEdit -----------------------------
(***************************************************************************)
(* ProgramEdit (thalos-planning, program_edit.rs): apply returns a new     *)
(* program or an error, and inverse gives the edit that is to take the     *)
(* change back.  A segment is its kind, its target and its origin, the     *)
(* latter standing for the frame and the motion limits too, which split,   *)
(* merge and move treat alike.  The kinds no edit treats specially are one *)
(* kind here.                                                              *)
(*                                                                         *)
(* Positions are counted from 0, as in the code: segment i is p[i + 1].    *)
(***************************************************************************)
EXTENDS Naturals, Sequences

CONSTANTS
  Origins,
  Targets,    \* targets that name at least one joint
  NoTarget,   \* a vector without joints
  Unset,      \* a capture field that is None
  Refused     \* apply returned an error

Kinds == {"MoveJ", "MoveL", "Other"}

Segments == [kind : Kinds, origin : Origins, target : Targets]

ASSUME CaptureAssumption ==
  /\ Unset \notin Seq(Segments) \cup Targets
  /\ NoTarget \notin Targets

Replace(i, r, orig) ==
  [op |-> "replace", index |-> i, replacement |-> r, original |-> orig]
Insert(at, segs) == [op |-> "insert", at |-> at, segments |-> segs]
Remove(at, n, segs) ==
  [op |-> "remove", at |-> at, count |-> n, removed |-> segs]
Split(i, point) == [op |-> "split", index |-> i, point |-> point]
Merge(i, j, pair) ==
  [op |-> "merge", first |-> i, second |-> j, originals |-> pair]
Move(i, new, old) ==
  [op |-> "move", index |-> i, new |-> new, old |-> old]

-----------------------------------------------------------------------------
\* p with the n segments from position i on replaced by r.
Splice(p, i, n, r) == SubSeq(p, 1, i) \o r \o SubSeq(p, i + n + 1, Len(p))

\* Mutant: a replacement always takes out one segment.
ReplacedLenOne(e) == 1

\* How many segments a replacement takes out: one without a capture, and at
\* least one with.
ReplacedLen(e) ==
  IF e.original = Unset \/ e.original = <<>> THEN 1 ELSE Len(e.original)

ApplyReplace(e, p) ==
  IF e.index < Len(p) /\ e.index + ReplacedLen(e) <= Len(p)
  THEN Splice(p, e.index, ReplacedLen(e), e.replacement)
  ELSE Refused

ApplyInsert(e, p) ==
  IF e.segments # <<>> /\ e.at <= Len(p)
  THEN Splice(p, e.at, 0, e.segments)
  ELSE Refused

ApplyRemove(e, p) ==
  IF e.count > 0 /\ e.at + e.count <= Len(p)
  THEN Splice(p, e.at, e.count, <<>>)
  ELSE Refused

ApplySplit(e, p) ==
  IF /\ e.index < Len(p)
     /\ e.point # NoTarget
     /\ p[e.index + 1].kind = "MoveJ"
  THEN LET s == p[e.index + 1]
       IN  Splice(p, e.index, 1, <<[s EXCEPT !.target = e.point], s>>)
  ELSE Refused

\* The first's origin with the second's target.
Merged(s, t) == [s EXCEPT !.target = t.target]

ApplyMerge(e, p) ==
  IF /\ e.second = e.first + 1
     /\ e.second < Len(p)
     /\ p[e.first + 1].kind = p[e.second + 1].kind
     /\ p[e.first + 1].kind \in {"MoveJ", "MoveL"}
  THEN Splice(p, e.first, 2, <<Merged(p[e.first + 1], p[e.second + 1])>>)
  ELSE Refused

\* Mutant: a move to no joints at all.
ApplyMoveAny(e, p) ==
  IF e.index < Len(p) /\ p[e.index + 1].kind = "MoveJ"
  THEN [p EXCEPT ![e.index + 1].target = e.new]
  ELSE Refused

ApplyMove(e, p) ==
  IF /\ e.index < Len(p)
     /\ e.new # NoTarget
     /\ p[e.index + 1].kind = "MoveJ"
  THEN [p EXCEPT ![e.index + 1].target = e.new]
  ELSE Refused

Apply(e, p) ==
  CASE e.op = "replace" -> ApplyReplace(e, p)
    [] e.op = "insert"  -> ApplyInsert(e, p)
    [] e.op = "remove"  -> ApplyRemove(e, p)
    [] e.op = "split"   -> ApplySplit(e, p)
    [] e.op = "merge"   -> ApplyMerge(e, p)
    [] e.op = "move"    -> ApplyMove(e, p)

-----------------------------------------------------------------------------
OrEmpty(captured) == IF captured = Unset THEN <<>> ELSE captured

InverseMerge(e) ==
  IF e.originals = Unset THEN Split(e.first, NoTarget)
  ELSE Replace(e.first, e.originals, Unset)

\* Mutant: the inverse of a replacement forgets how many segments it put in.
InverseReplaceOne(e) == Replace(e.index, OrEmpty(e.original), Unset)

InverseReplace(e) == Replace(e.index, OrEmpty(e.original), e.replacement)

InverseEdit(e) ==
  CASE e.op = "replace" -> InverseReplace(e)
    [] e.op = "insert"  -> Remove(e.at, Len(e.segments), e.segments)
    [] e.op = "remove"  -> Insert(e.at, OrEmpty(e.removed))
    [] e.op = "split"   -> Merge(e.index, e.index + 1, Unset)
    [] e.op = "merge"   -> InverseMerge(e)
    [] e.op = "move"    ->
         Move(e.index, IF e.old = Unset THEN NoTarget ELSE e.old, e.new)
=============================================================================
