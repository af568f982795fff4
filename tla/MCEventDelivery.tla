--------------------------- MODULE MCEventDelivery ---------------------------
(* EventDelivery on small instances: three releases and their registries. *)
EXTENDS EventDelivery

CONSTANTS placed, paid, s1, s2, r1, r2, r3

\* Only s1 subscribes to placed.  r2 gives up s2, r3 does not understand paid
\* any more.
MCEmitted == [r \in Releases |-> Events]
MCUnderstood == [r \in Releases |-> IF r = r3 THEN Events \ {paid} ELSE Events]
MCSubscribed == [r \in Releases |-> [e \in Events |->
                   IF r = r2 \/ e = placed THEN {s1} ELSE Subscribers]]

NoHistory == [e \in Legacy |-> Unknown]
OldHistory == [e \in Legacy |-> {s1}]
=============================================================================
