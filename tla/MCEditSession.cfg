SPECIFICATION Spec
CONSTANTS
  Origins = {o1, o2}
  Targets = {t1, t2}
  NoTarget = NoTarget
  Unset = Unset
  Refused = Refused
  Programs <- SmallPrograms
  Replacements <- SmallReplacements
  MaxLen = 5
  MaxUndo = 2
  o1 = o1
  o2 = o2
  t1 = t1
  t2 = t2
INVARIANTS SessionTypeOK UndoExactOrLoud RedoExactOrLoud
CHECK_DEADLOCK FALSE
