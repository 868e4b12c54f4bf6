---------------------------- MODULE MCSendLedger ----------------------------
(* Small instances of SendLedger for TLC.                                  *)
EXTENDS SendLedger, TLC

CONSTANTS r1, r2, r3, r4, r5,  \* requests
          text, file           \* payloads

\* r4 is a reply, r5 a request that reuses the key for a file.
MCOnePayload == [r \in Requests |-> text]
MCReusedKey == [r \in Requests |-> IF r = r5 THEN file ELSE text]

Tries == Requests \ {r4, r5}
MCSymmetry == Permutations(Tries)

\* Two tries while time passes, others write and processes die; in a moment, the reused
\* key beside two tries, or three tries and a late reply, to the second conversation.
Untouched(S) == \A r \in S : pc[r] = "start"
Quiet == clock = 0 /\ \A c \in Conversations : \A i \in DOMAIN log[c] : log[c][i] # Other
MCBounds ==
  \/ Untouched({r4, r5}) /\ \E r \in Tries : pc[r] = "start"
  \/ Untouched({r4}) /\ Quiet /\ \E r \in Tries : pc[r] = "start"
  \/ /\ Untouched({r5}) /\ Quiet
     /\ \A r \in Requests : pc[r] # "crashed"
     /\ pc[r4] # "start" => conv[r4] = 2
=============================================================================
