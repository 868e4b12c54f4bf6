---------------------------- MODULE MCSideParts ----------------------------
(* Three releases: the second brings a migration, the third keeps it.      *)
EXTENDS SideParts

CONSTANTS c1, c2, c3

MCSchemaOf == [c \in Commits |-> IF c = c1 THEN 1 ELSE 2]

\* Two requests of browsers beside two push deliveries, or four without any.
MCBounds == requests <= 2 \/ \A x \in Deliveries : delivery[x] = NoDelivery
=============================================================================
