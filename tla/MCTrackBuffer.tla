--------------------------- MODULE MCTrackBuffer ---------------------------
EXTENDS TrackBuffer

(* A model value would not compare with the frame numbers. *)
MCNoFrame == 0
=============================================================================
