--------------------------- MODULE IdempotentSend ---------------------------
(***************************************************************************)
(* What a client may rely on when it sends one client message key any      *)
(* number of times: the key stands for one payload, the message is visible *)
(* at most once, and no request is answered "sent" before it was stored.   *)
(* SendLedger implements this while Chatwoot does not execute a POST the   *)
(* portal has given up on and the page of a lookup is not overrun.         *)
(***************************************************************************)
CONSTANTS
  Requests,     \* the POSTs that carry the key
  PayloadOf,    \* the payload of each
  NoPayload     \* the key is still free

VARIABLES
  body,     \* the payload the key stands for, or NoPayload
  history,  \* the messages ever stored for the key
  visible,  \* those whose conversation has not been deleted
  answer    \* what each client was told

vars == <<body, history, visible, answer>>

Init ==
  /\ body = NoPayload
  /\ history = {}
  /\ visible = {}
  /\ answer = [r \in Requests |-> "none"]

\* The first request binds the key to its payload.
Bind(r) ==
  /\ body = NoPayload
  /\ body' = PayloadOf[r]
  /\ UNCHANGED <<history, visible>>

Deliver ==
  /\ body # NoPayload
  /\ visible = {}
  /\ \E m \in visible' :
       /\ m \notin history
       /\ visible' = {m}
       /\ history' = history \cup {m}
  /\ UNCHANGED <<body, answer>>

\* The conversation is deleted in Chatwoot.
Lose ==
  /\ visible # {}
  /\ visible' = {}
  /\ UNCHANGED <<body, history, answer>>

\* What may be answered; the temporary errors may be answered at any time.
Justified(r, what) ==
  CASE what = "sent" -> body = PayloadOf[r] /\ history # {}
    [] what = "conflict" -> body \notin {NoPayload, PayloadOf[r]}
    [] what = "inProgress" -> body = PayloadOf[r]
    [] what \in {"unavailable", "missing"} -> TRUE
    [] OTHER -> FALSE

Answer(r) ==
  /\ answer[r] = "none"
  /\ \E what \in {"sent", "conflict", "inProgress", "unavailable", "missing"} :
       /\ Justified(r, what)
       /\ answer' = [answer EXCEPT ![r] = what]
  /\ UNCHANGED <<history, visible>>

Next ==
  \/ \E r \in Requests :
       \/ Bind(r) /\ UNCHANGED answer
       \/ Answer(r) /\ UNCHANGED body
       \* the INSERT that binds the key may be reported as an error
       \/ Bind(r) /\ answer[r] = "none"
          /\ answer' = [answer EXCEPT ![r] = "unavailable"]
  \/ Deliver
  \/ Lose

Spec == Init /\ [][Next]_vars
=============================================================================
