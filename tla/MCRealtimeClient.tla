--------------------------- MODULE MCRealtimeClient ---------------------------
EXTENDS RealtimeClient, TLC

CONSTANTS s1, s2, k1, k2, a, l1, x1, x2
=============================================================================
