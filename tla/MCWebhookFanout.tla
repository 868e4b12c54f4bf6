-------------------------- MODULE MCWebhookFanout --------------------------
(* Two deliveries of the first message and one of the second.              *)
EXTENDS WebhookFanout, TLC

CONSTANTS a1, a2, b1

MCMessageOf == [h \in Attempts |-> IF h = b1 THEN 2 ELSE 1]

\* Every fault meets every other but one: whether lookups fail decides what
\* AcceptedIsMarked promises, whether threads are not ready SubscribersTold.
MCFaultSets == {{"database", "crash", "notReady", "throws"}, {"lookup", "throws"}}

\* Bounds by the faults: two deliveries and one stream, or one delivery and as
\* many streams as it takes to close and reopen one while the Set is iterated.
MCBounds == IF "lookup" \in faults THEN pc[a2] = "idle" ELSE last <= 1

\* The members are interchangeable: subscriptions are numbered, and the
\* iteration chooses by their numbers.
MCSymmetry == Permutations(Members)
=============================================================================
