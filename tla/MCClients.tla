------------------------------ MODULE MCClients ------------------------------
EXTENDS PresenceClients, TLC

CONSTANTS d1, w1, w2, i1, i2
=============================================================================
