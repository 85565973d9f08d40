----------------------------- MODULE MCHandlers -----------------------------
EXTENDS SocketHandlers, TLC

CONSTANTS c1, r1, r2, u1, u2, k1, k2
=============================================================================
