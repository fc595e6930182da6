---------------------------- MODULE MCAudioTrack ----------------------------
(* 2 sample frames last 5 microseconds; a packet has 4, and begins 3        *)
(* microseconds off the grid, so that both conversions round.               *)
EXTENDS AudioTrack

MCNoPts     == -1
MCUnstamped == {3}
MCCorrupt   == {}
MCRequests  == {[target |-> 20, exact |-> TRUE], [target |-> 8, exact |-> FALSE]}
=============================================================================
