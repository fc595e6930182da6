--------------------------- MODULE MCVideoPipeline --------------------------
(* VideoPipeline for TLC; each configuration gives the constants.          *)
EXTENDS VideoPipeline
=============================================================================
