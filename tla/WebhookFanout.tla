--------------------------- MODULE WebhookFanout ---------------------------
(***************************************************************************)
(* How a new message of a group conversation reaches the members of the    *)
(* group: Chatwoot's webhook, delivered once or more, marks it unread for  *)
(* its recipients, records the delivery, and publishes to the members that *)
(* hold an event stream.  Every snapshot of the thread a member gets, over *)
(* the stream or over HTTP, clears the unread rows the member has there.   *)
(*                                                                         *)
(* Each PC value is one await.  Messages are numbered in the order of the  *)
(* conversation, so a snapshot shows a prefix of them.                     *)
(***************************************************************************)
EXTENDS Integers, Sequences, FiniteSets

CONSTANTS
  Members,           \* the portal users of the group
  Agent,             \* whoever writes in Chatwoot
  Attempts,          \* deliveries of webhooks, the repeated ones included
  MessageOf,         \* the message each of them announces
  FaultSets,         \* what may go wrong, one of these sets of FaultKinds
  MaxMessages,       \* bound: messages of the conversation
  MaxSubscriptions   \* bound: event streams opened

FaultKinds == {"database",   \* a query fails, executed or not
               "lookup",     \* Chatwoot fails to answer for one member's contact
               "notReady",   \* the snapshot says the thread is not ready
               "throws",     \* the snapshot throws
               "crash"}      \* the process stops

ASSUME FanoutAssumption ==
  /\ Agent \notin Members
  /\ MessageOf \in [Attempts -> 1 .. MaxMessages]
  /\ FaultSets \subseteq SUBSET FaultKinds
  /\ MaxMessages \in Nat
  /\ MaxSubscriptions \in Nat

VARIABLES
  faults,    \* what goes wrong in this behaviour
  log,       \* Chatwoot: the author of each message
  known,     \* the messages whose author the send ledger names
  recorded,  \* chatwoot_webhook_deliveries: the messages announced
  unread,    \* portal_chat_unread_messages
  sub,       \* hub: the number of each member's subscription, 0 for none
  base,      \* hub: the Set of the thread holds the subscriptions above it
  last,      \* hub: subscriptions made so far
  pc,        \* where each delivery is
  to,        \* the recipients a delivery has resolved
  held,      \* the Set a delivery iterates over, by its base
  cursor,    \* the last subscription it has visited
  whom,      \* the member of that subscription
  reading,   \* the members whose GET is under way
  snap,      \* how many messages the snapshot in each hand has
  shown,     \* how many messages each member has received
  cleared,   \* history: messages there were when a member's rows were cleared
  upto       \* history: subscriptions there were when a delivery was recorded

hub == <<sub, base, last>>
walk == <<held, cursor, whom, upto>>
vars == <<faults, log, known, recorded, unread, hub, pc, to, walk, reading, snap,
          shown, cleared>>

Messages == 1 .. Len(log)
Ended == {"duplicate", "done", "aborted", "failed", "lost"}
PCs == {"idle", "resolve", "insert", "record", "publish", "clear"} \cup Ended

TypeOK ==
  /\ faults \in FaultSets
  /\ log \in Seq(Members \cup {Agent})
  /\ known \subseteq Messages
  /\ recorded \subseteq Messages
  /\ unread \subseteq Members \X Messages
  /\ sub \in [Members -> 0 .. last]
  /\ base \in 0 .. last
  /\ last \in Nat
  /\ pc \in [Attempts -> PCs]
  /\ to \in [Attempts -> SUBSET Members]
  /\ held \in [Attempts -> 0 .. last]
  /\ cursor \in [Attempts -> 0 .. last]
  /\ whom \in [Attempts -> Members \cup {Agent}]
  /\ reading \subseteq Members
  /\ snap \in [Attempts \cup Members -> 0 .. Len(log)]
  /\ shown \in [Members -> 0 .. Len(log)]
  /\ cleared \in [Members -> 0 .. Len(log)]
  /\ upto \in [Attempts -> 0 .. last]

Init ==
  /\ faults \in FaultSets
  /\ log = <<>>
  /\ known = {}
  /\ recorded = {}
  /\ unread = {}
  /\ sub = [u \in Members |-> 0]
  /\ base = 0
  /\ last = 0
  /\ pc = [h \in Attempts |-> "idle"]
  /\ to = [h \in Attempts |-> {}]
  /\ held = [h \in Attempts |-> 0]
  /\ cursor = [h \in Attempts |-> 0]
  /\ whom = [h \in Attempts |-> Agent]
  /\ reading = {}
  /\ snap = [p \in Attempts \cup Members |-> 0]
  /\ shown = [u \in Members |-> 0]
  /\ cleared = [u \in Members |-> 0]
  /\ upto = [h \in Attempts |-> 0]

Goto(h, where) == pc' = [pc EXCEPT ![h] = where]

\* A query of h fails, executed or not: the webhook is answered with an error.
QueryFails(h) == "database" \in faults /\ Goto(h, "failed")

-----------------------------------------------------------------------------
(* Chatwoot.                                                               *)

Post ==
  /\ Len(log) < MaxMessages
  /\ \E a \in Members \cup {Agent} : log' = Append(log, a)
  /\ UNCHANGED <<known, recorded, unread, hub, pc, to, walk, reading, snap,
                 shown, cleared>>

\* The portal learns the id of the message it has posted for a member, at the
\* earliest when Chatwoot answers the create (SendLedger: CreateMark).
Confirm ==
  /\ \E m \in Messages \ known : log[m] \in Members /\ known' = known \cup {m}
  /\ UNCHANGED <<log, recorded, unread, hub, pc, to, walk, reading, snap,
                 shown, cleared>>

Deliver(h) ==
  /\ pc[h] = "idle"
  /\ MessageOf[h] \in Messages
  /\ Goto(h, "resolve")
  /\ UNCHANGED <<log, known, recorded, unread, hub, to, walk, reading, snap,
                 shown, cleared>>

-----------------------------------------------------------------------------
(* handleWebhook, for message_created in a mapped conversation.            *)

\* Everybody in the group except the author, as far as the ledger knows.
Recipients(m) == Members \ {u \in Members : m \in known /\ log[m] = u}

\* Mutant of Resolve: the delivery is claimed before the unread work.
ResolveClaims(h) ==
  /\ pc[h] = "resolve"
  /\ recorded' = recorded \cup {MessageOf[h]}
  /\ Goto(h, "insert")
  /\ to' = [to EXCEPT ![h] = Recipients(MessageOf[h])]
  /\ UNCHANGED <<log, known, unread, hub, walk, reading, snap, shown, cleared>>

\* A member whose contact cannot be looked up is left out.
Resolve(h) ==
  LET all == Recipients(MessageOf[h])
  IN /\ pc[h] = "resolve"
     /\ \/ /\ Goto(h, "insert")
           /\ to' = [to EXCEPT ![h] = all]
        \/ /\ "lookup" \in faults
           /\ Goto(h, "insert")
           /\ \E some \in SUBSET all : to' = [to EXCEPT ![h] = some]
        \/ QueryFails(h) /\ UNCHANGED to
     /\ UNCHANGED <<log, known, recorded, unread, hub, walk, reading, snap,
                    shown, cleared>>

Insert(h) ==
  LET marked == unread \cup {<<u, MessageOf[h]>> : u \in to[h]}
  IN /\ pc[h] = "insert"
     /\ \/ Goto(h, "record") /\ unread' = marked
        \/ QueryFails(h) /\ unread' \in {unread, marked}
     /\ UNCHANGED <<log, known, recorded, hub, to, walk, reading, snap, shown,
                    cleared>>

\* recordDelivery, and the start of the iteration in the same turn.
Record(h) ==
  LET m == MessageOf[h]
  IN /\ pc[h] = "record"
     /\ \/ /\ m \in recorded
           /\ Goto(h, "duplicate")
           /\ UNCHANGED <<recorded, walk>>
        \/ /\ m \notin recorded
           /\ recorded' = recorded \cup {m}
           /\ Goto(h, IF \E u \in Members : sub[u] # 0 THEN "publish" ELSE "done")
           /\ held' = [held EXCEPT ![h] = base]
           /\ cursor' = [cursor EXCEPT ![h] = base]
           /\ upto' = [upto EXCEPT ![h] = last]
           /\ UNCHANGED whom
        \/ /\ QueryFails(h)
           /\ recorded' \in {recorded, recorded \cup {m}}
           /\ UNCHANGED walk
     /\ UNCHANGED <<log, known, unread, hub, to, reading, snap, shown, cleared>>

-----------------------------------------------------------------------------
(* publishThreadMessages: one snapshot after the other, over a Set that    *)
(* changes meanwhile.                                                      *)

\* The subscriptions the iteration of h has not come to yet.
Ahead(h) ==
  IF held[h] = base THEN {u \in Members : sub[u] > cursor[h]} ELSE {}

\* A Set is iterated in the order of insertion.
NextSubscription(h) ==
  CHOOSE u \in Ahead(h) : \A v \in Ahead(h) : sub[u] <= sub[v]

\* getCurrentUserChatMessages, up to the page of messages.
List(h) ==
  /\ pc[h] = "publish"
  /\ Ahead(h) # {}
  /\ LET u == NextSubscription(h)
     IN /\ cursor' = [cursor EXCEPT ![h] = sub[u]]
        /\ whom' = [whom EXCEPT ![h] = u]
  /\ \/ Goto(h, "clear") /\ snap' = [snap EXCEPT ![h] = Len(log)]
     \/ "notReady" \in faults /\ UNCHANGED <<pc, snap>>
     \/ "throws" \in faults /\ Goto(h, "aborted") /\ UNCHANGED snap
  /\ UNCHANGED <<log, known, recorded, unread, hub, to, held, upto, reading,
                 shown, cleared>>

Published(h) ==
  /\ pc[h] = "publish"
  /\ Ahead(h) = {}
  /\ Goto(h, "done")
  /\ UNCHANGED <<log, known, recorded, unread, hub, to, walk, reading, snap,
                 shown, cleared>>

\* clearOpenedThreadUnread deletes every row the member has in the thread.
ClearRows(u) ==
  /\ unread' = {x \in unread : x[1] # u}
  /\ cleared' = [cleared EXCEPT ![u] = Len(log)]

\* The rest of getCurrentUserChatMessages, and send().
Clear(h) ==
  LET u == whom[h]
  IN /\ pc[h] = "clear"
     /\ \/ /\ ClearRows(u)
           /\ Goto(h, "publish")
           /\ shown' = IF sub[u] = cursor[h] /\ snap[h] > shown[u]
                       THEN [shown EXCEPT ![u] = snap[h]] ELSE shown
        \/ /\ "throws" \in faults
           /\ \/ ClearRows(u)
              \/ UNCHANGED <<unread, cleared>>
           /\ Goto(h, "aborted")
           /\ UNCHANGED shown
     /\ UNCHANGED <<log, known, recorded, hub, to, walk, reading, snap>>

-----------------------------------------------------------------------------
(* The member: GET of the latest messages, and the event stream.           *)

Open(u) ==
  /\ u \notin reading
  /\ reading' = reading \cup {u}
  /\ snap' = [snap EXCEPT ![u] = Len(log)]
  /\ UNCHANGED <<log, known, recorded, unread, hub, pc, to, walk, shown, cleared>>

Answer(u) ==
  /\ u \in reading
  /\ reading' = reading \ {u}
  /\ ClearRows(u)
  /\ shown' = IF snap[u] > shown[u] THEN [shown EXCEPT ![u] = snap[u]] ELSE shown
  /\ UNCHANGED <<log, known, recorded, hub, pc, to, walk, snap>>

\* Mutant of Subscribe: the Set of the thread is replaced, not extended.
SubscribeReplaces(u) ==
  /\ sub[u] = 0
  /\ last < MaxSubscriptions
  /\ last' = last + 1
  /\ sub' = [sub EXCEPT ![u] = last + 1]
  /\ base' = last
  /\ UNCHANGED <<log, known, recorded, unread, pc, to, walk, reading, snap,
                 shown, cleared>>

\* An empty Set has been dropped from the hub: then a new one is made.
Subscribe(u) ==
  /\ sub[u] = 0
  /\ last < MaxSubscriptions
  /\ last' = last + 1
  /\ sub' = [sub EXCEPT ![u] = last + 1]
  /\ base' = IF \A v \in Members : sub[v] = 0 THEN last ELSE base
  /\ UNCHANGED <<log, known, recorded, unread, pc, to, walk, reading, snap,
                 shown, cleared>>

Unsubscribe(u) ==
  /\ sub[u] # 0
  /\ sub' = [sub EXCEPT ![u] = 0]
  /\ UNCHANGED <<log, known, recorded, unread, base, last, pc, to, walk, reading,
                 snap, shown, cleared>>

Crash ==
  /\ "crash" \in faults
  /\ \E h \in Attempts : pc[h] \notin Ended \cup {"idle"}
  /\ pc' = [h \in Attempts |->
              IF pc[h] \in Ended \cup {"idle"} THEN pc[h] ELSE "lost"]
  /\ sub' = [u \in Members |-> 0]
  /\ reading' = {}
  /\ UNCHANGED <<log, known, recorded, unread, base, last, to, walk, snap, shown,
                 cleared>>

Handle(h) ==
  \/ Deliver(h) \/ Resolve(h) \/ Insert(h) \/ Record(h)
  \/ List(h) \/ Clear(h) \/ Published(h)

Visit(u) == Open(u) \/ Answer(u) \/ Subscribe(u) \/ Unsubscribe(u)

Next ==
  /\ \/ Post \/ Confirm
     \/ \E h \in Attempts : Handle(h)
     \/ \E u \in Members : Visit(u)
     \/ Crash
  /\ UNCHANGED faults

Spec == Init /\ [][Next]_vars
-----------------------------------------------------------------------------
(* What the fan-out is for.                                                *)

\* u has m marked unread, or m was there when the rows of u were cleared.
Marked(u, m) == <<u, m>> \in unread \/ cleared[u] >= m

(* A delivery that is recorded, so that its repetitions are ignored, has   *)
(* marked its message for every member but the author, whatever queries    *)
(* failed and wherever the process stopped (the unread work is done before *)
(* recordDelivery, service.ts:374-390).  A member whose contact could not  *)
(* be looked up is the exception the code makes.                           *)
AcceptedIsMarked ==
  "lookup" \notin faults =>
    \A m \in recorded : \A u \in Members \ {log[m]} : Marked(u, m)

\* Why it holds: a delivery is recorded after its marks are written, and a mark
\* goes only when the rows are cleared (WebhookFanoutProofs).
MarkInv ==
  \A h \in Attempts :
    LET m == MessageOf[h]
    IN /\ pc[h] # "idle" => m \in Messages
       /\ pc[h] = "insert" /\ "lookup" \notin faults => Members \ {log[m]} \subseteq to[h]
       /\ pc[h] = "record" /\ "lookup" \notin faults =>
            \A u \in Members \ {log[m]} : Marked(u, m)

(* When the fan-out of a delivery has come to its end, every member whose  *)
(* stream was open when it began and still is has received the message,    *)
(* whoever joins or leaves meanwhile (hub.ts iterates over the Set itself). *)
(* A fan-out that a throwing snapshot has aborted promises nothing, nor    *)
(* does a snapshot that says the thread is not ready.                      *)
SubscribersTold ==
  \A h \in Attempts : \A u \in Members :
    pc[h] = "done" /\ sub[u] \in 1 .. upto[h] /\ "notReady" \notin faults
      => shown[u] >= MessageOf[h]

\* Why it holds (WebhookFanoutProofs): each subscription has a number of its
\* own, above the base of the Set, so that a number above the cursor has still
\* to come; and no new Set is made while an old subscription is open.
HubInv ==
  \A u \in Members : sub[u] # 0 =>
    /\ sub[u] > base
    /\ \A v \in Members : sub[v] = sub[u] => u = v

\* u is ahead of the iteration of h, has its message, or is being sent it.
Reached(h, u) ==
  \/ sub[u] > cursor[h]
  \/ shown[u] >= MessageOf[h]
  \/ /\ pc[h] = "clear" /\ whom[h] = u
     /\ sub[u] = cursor[h] /\ snap[h] >= MessageOf[h]

WalkInv ==
  "notReady" \notin faults =>
    \A h \in Attempts : \A u \in Members : sub[u] \in 1 .. upto[h] =>
      /\ pc[h] \in {"publish", "clear"} => held[h] = base /\ Reached(h, u)
      /\ pc[h] = "done" => shown[u] >= MessageOf[h]
=============================================================================
