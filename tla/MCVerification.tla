--------------------------- MODULE MCVerification ---------------------------
(* Instances of the flows with a mailed code.                              *)
EXTENDS Verification, TLC

Symmetry == Permutations(Requests) \cup Permutations(Finishers)
=============================================================================
