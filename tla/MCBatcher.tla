------------------------------ MODULE MCBatcher ------------------------------
EXTENDS HeartbeatBatcher, TLC

CONSTANTS c1, c2, r1, u1, m1, q1, q2

AllLogins == {[conn |-> c, room |-> r1, user |-> u1, state |-> {}] : c \in Conns}

\* c1 heartbeats without an epoch, behind, level and ahead; c2 as what writes most.
SomeBeats == {[conn |-> c1, epoch |-> 0, patch |-> {}], [conn |-> c1, epoch |-> 1, patch |-> {m1}],
              [conn |-> c1, epoch |-> 2, patch |-> {m1}], [conn |-> c2, epoch |-> 2, patch |-> {m1}]}
==============================================================================
