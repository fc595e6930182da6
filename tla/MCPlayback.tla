----------------------------- MODULE MCPlayback -----------------------------
(* Two tracks of two frames, the second of which begins a frame later.     *)
EXTENDS Playback

MCTracks == {1, 2}
MCFrames == <<2, 2>>
MCOffset == <<0, 1>>
MCNone   == -1
MCNoLoop == [start |-> 0, end |-> 0]
MCLoop   == [start |-> 1, end |-> 2]
MCLoops  == {MCNoLoop, MCLoop}
=============================================================================
