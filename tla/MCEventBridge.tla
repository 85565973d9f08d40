---------------------------- MODULE MCEventBridge ----------------------------
EXTENDS EventBridge, TLC

CONSTANTS p1, p2, d1, d2, s1, s2, s3, s4

OneBridge == {<<p1, d1>>}
=============================================================================
