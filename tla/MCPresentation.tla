--------------------------- MODULE MCPresentation ---------------------------
(* Two lanes, which do the same.                                           *)
EXTENDS Presentation, TLC

LaneSymmetry == Permutations(Lanes)
=============================================================================
