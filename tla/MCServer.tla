------------------------------ MODULE MCServer ------------------------------
EXTENDS PresenceServer, TLC

CONSTANTS l1, l2, k1, k2, g1, g2

ASSUME ServerAssumption == OneBridge

TheBridge == {<<p, m>>}
=============================================================================
