----------------------------- MODULE MCPresence -----------------------------
EXTENDS PresenceProps, TLC

CONSTANTS c1, c2, r1, r2, u1, u2, p1, p2, n1, n2, m1

OneUserTwoConns == {[conn |-> c1, room |-> r1, user |-> u1], [conn |-> c2, room |-> r1, user |-> u1]}

Single == {[conn |-> c1, room |-> r1, user |-> u1]}

\* Request slots are interchangeable; so are two connections of one user.
SlotSymmetry == Permutations(Procs)
ConnSymmetry == Permutations(Procs) \union Permutations({c1, c2})

\* What the rest of the system depends on: nothing reads the subscribers' roster or
\* prs:user:<userId>:conns, so a run whose properties do not name them may merge
\* states that differ in them only.
Unread == <<now, hash, conns, members, lastSeen, connMeta, activeRooms,
            pc, job, reaper, crossed>>
=============================================================================
