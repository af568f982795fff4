--------------------------- MODULE MCNotifications ---------------------------
EXTENDS Notifications

CONSTANTS k1, k2, p1, p2, a1, a2

\* A request, its repetition with another payload, by another actor, and under
\* another key.
MCRequests == {[key |-> k1, payload |-> p1, actor |-> a1],
               [key |-> k1, payload |-> p2, actor |-> a1],
               [key |-> k1, payload |-> p1, actor |-> a2],
               [key |-> k2, payload |-> p1, actor |-> a1]}
=============================================================================
