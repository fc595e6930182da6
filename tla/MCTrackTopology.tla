-------------------------- MODULE MCTrackTopology --------------------------
EXTENDS TrackTopology
=============================================================================
