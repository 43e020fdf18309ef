---------------------------- MODULE MCEditSession ----------------------------
(***************************************************************************)
(* Programs with neighbours of the same kind, of different kinds and with  *)
(* different origins, so that a merge loses an origin and a target, and    *)
(* replacements longer and shorter than what they replace.                 *)
(***************************************************************************)
EXTENDS EditSession

CONSTANTS o1, o2, t1, t2

Seg(kind, origin, target) == [kind |-> kind, origin |-> origin, target |-> target]

J == Seg("MoveJ", o1, t1)
K == Seg("MoveJ", o2, t2)
L == Seg("MoveL", o1, t2)
M == Seg("MoveL", o2, t1)
D == Seg("Other", o1, t1)

SmallPrograms ==
  {<<>>, <<J>>, <<J, K>>, <<L, M, J>>, <<D, J, L>>, <<J, K, L, M>>}

LongPrograms == {<<J, K, L, M>>}

SmallReplacements == {<<K>>, <<L, J>>}

WithNothing == SmallReplacements \cup {<<>>}
=============================================================================
