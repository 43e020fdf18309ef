------------------------- MODULE MCComparePipeline -------------------------
(***************************************************************************)
(* Two trajectories, one that covers all instants and one that ends early, *)
(* so that late observations are not comparable with it.                   *)
(***************************************************************************)
EXTENDS ComparePipeline

CONSTANTS full, partial

MCTrajectories == {full, partial}
MCBounds == [t \in MCTrajectories |-> IF t = full THEN Time ELSE 2 .. 5]
=============================================================================
