------------------------ MODULE ConversationMapping ------------------------
(***************************************************************************)
(* What a thread promises about the Chatwoot conversation it names: it     *)
(* keeps naming the same conversation until that one is deleted, and then  *)
(* names a younger one.  SendLedger relies on it (its Remap is one step)   *)
(* and ThreadBootstrap implements it.                                      *)
(***************************************************************************)
EXTENDS Integers

VARIABLES
  mapped,   \* the conversation the thread names, 0 for none
  gone      \* the conversations deleted in Chatwoot

Init ==
  /\ mapped \in Nat
  /\ gone = {}

\* Chatwoot numbers conversations in the order they are created.
Remap ==
  /\ mapped \in gone \cup {0}
  /\ mapped' \in Nat
  /\ mapped' > mapped
  /\ UNCHANGED gone

Delete ==
  /\ gone \subseteq gone'
  /\ UNCHANGED mapped

Next == Remap \/ Delete

Spec == Init /\ [][Next]_<<mapped, gone>>
=============================================================================
