----------------------------- MODULE EditSession -----------------------------
(***************************************************************************)
(* An editing session over ProgramEdit: edits are applied to the current   *)
(* program and taken back in the opposite order by their inverses.  The    *)
(* code has the edits and their inverses; that an application keeps a      *)
(* stack of inverses, and captures what an edit destroys before it applies *)
(* it ("as the apply pipeline does", program_edit.rs:41-43), is external.  *)
(***************************************************************************)
EXTENDS ProgramEdit

CONSTANTS
  Programs,      \* programs a session starts with
  Replacements,  \* bound: what a replacement or an insertion puts in
  MaxLen,        \* bound: segments of a program
  MaxUndo        \* bound: edits that can be taken back

ASSUME SessionAssumption ==
  Programs \subseteq Seq(Segments) /\ Replacements \subseteq Seq(Segments)

VARIABLES
  program,       \* the current program
  undo,          \* [edit, captured]: the inverse of each edit in force
  past           \* history: the program before each edit in force

vars == <<program, undo, past>>

Ranges(p) == {r \in (0..Len(p)) \X (1..Len(p)) : r[1] + r[2] <= Len(p)}

Cut(p, i, n) == SubSeq(p, i + 1, i + n)

\* Edits with what they destroy captured.
CapturedEdits(p) ==
  {Replace(r[1], new, Cut(p, r[1], r[2])) : r \in Ranges(p), new \in Replacements}
  \cup {Insert(at, new) : at \in 0..Len(p), new \in Replacements}
  \cup {Remove(r[1], r[2], Cut(p, r[1], r[2])) : r \in Ranges(p)}
  \cup {Split(i, t) : i \in 0..Len(p), t \in Targets}
  \cup {Merge(i - 1, i, Cut(p, i - 1, 2)) : i \in 1..(Len(p) - 1)}
  \cup {Move(i, t, p[i + 1].target) : i \in 0..(Len(p) - 1), t \in Targets}

\* Forward edits as a caller writes them, without captures.
PlainEdits(p) ==
  {Remove(at, n, Unset) : at \in 0..Len(p), n \in 0..Len(p)}
  \cup {Merge(i, j, Unset) : i \in 0..Len(p), j \in 0..Len(p)}
  \cup {Move(i, t, Unset) : i \in 0..Len(p), t \in Targets \cup {NoTarget}}

Init ==
  /\ program \in Programs
  /\ undo = <<>>
  /\ past = <<>>

\* An edit that is refused leaves the program as it is.
Do(e, captured) ==
  /\ Len(undo) < MaxUndo
  /\ Apply(e, program) # Refused
  /\ Len(Apply(e, program)) <= MaxLen
  /\ program' = Apply(e, program)
  /\ undo' = Append(undo, [edit |-> InverseEdit(e), captured |-> captured])
  /\ past' = Append(past, program)

LastEntry == undo[Len(undo)]

Undo ==
  /\ undo # <<>>
  /\ Apply(LastEntry.edit, program) # Refused
  /\ program' = Apply(LastEntry.edit, program)
  /\ undo' = SubSeq(undo, 1, Len(undo) - 1)
  /\ past' = SubSeq(past, 1, Len(past) - 1)

Next ==
  \/ \E e \in CapturedEdits(program) : Do(e, TRUE)
  \/ \E e \in PlainEdits(program) : Do(e, FALSE)
  \/ Undo

Spec == Init /\ [][Next]_vars

-----------------------------------------------------------------------------
\* Type invariant of the session: the program is a list of segments, and each
\* edit in force has its inverse and the program it was applied to.
SessionTypeOK ==
  /\ program \in Seq(Segments)
  /\ past \in Seq(Seq(Segments))
  /\ Len(undo) = Len(past)

\* The program each edit in force was applied to, and the one it produced.
Before(k) == past[k]
After(k) == Append(past, program)[k + 1]

\* Roundtrip contract of inverse, at every depth of the session: an edit that
\* captured what it destroys is taken back exactly, limits, origins and
\* targets included, and the inverse of a removal, a merge or a move that did
\* not is refused instead of corrupting the program.
UndoExactOrLoud ==
  \A k \in DOMAIN undo :
    Apply(undo[k].edit, After(k)) =
      IF undo[k].captured THEN Before(k) ELSE Refused

\* Taking an undo back does the edit again, exactly, or is refused; but for a
\* merge, whose inverse captures nothing.
InverseOfMerge(e) == e.op = "replace" /\ e.original = Unset

RedoExactOrLoud ==
  \A k \in DOMAIN undo : undo[k].captured /\ ~InverseOfMerge(undo[k].edit) =>
    Apply(InverseEdit(undo[k].edit), Before(k)) \in {After(k), Refused}

\* What program_edit.rs:46-52 says of a replacement: it may be one-to-zero,
\* and its inverse restores the exact original program.
ReplacementUndone ==
  undo # <<>> /\ LastEntry.captured /\ LastEntry.edit.op = "replace" =>
    Apply(LastEntry.edit, program) = Before(Len(undo))
=============================================================================
