--------------------------- MODULE MCAudioEngine ---------------------------
EXTENDS AudioEngine, TLC

CONSTANTS f1, f2, b1, b2, b3

MCFiles    == {f1, f2}
MCBuffers  == {b1, b2, b3}
=============================================================================
