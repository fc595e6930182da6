-------------------------- MODULE MCFrameStepping --------------------------
(* Two tracks of different rates, the second beginning later.              *)
EXTENDS FrameStepping

MCPts == <<<<0, 10, 20, 30>>, <<0, 15, 30>>>>
MCDuration == <<10, 15>>
MCOffset == <<0, 5>>
MCNone == -1
=============================================================================
