------------------------- MODULE MCThreadBootstrap -------------------------
(* ThreadBootstrap for TLC: one group thread g and up to three requests.   *)
EXTENDS ThreadBootstrap

CONSTANTS u1, u2, u3, g

MCGroup == [r \in Requests |-> g]
=============================================================================
