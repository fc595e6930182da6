---------------------------- MODULE MCExactSeek ----------------------------
EXTENDS ExactSeek

MCNoFrame == 0
MCKeyframes == {1, 4}

(* Before the first frame, on a frame, between two, on the last but one, *)
(* and after the last.                                                  *)
MCTargets == {1, 6, 11, 14, 17}
=============================================================================
