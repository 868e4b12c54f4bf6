------------------------ MODULE WebhookFanoutProofs ------------------------
(* WebhookFanout keeps its types, and a recorded delivery has marked its   *)
(* message for everybody but the author.                                   *)
EXTENDS WebhookFanout, NaturalFacts, TLAPS

(* What may go wrong does not change.                                      *)
LEMMA SameFaults ==
  ASSUME [Next]_vars
  PROVE  faults' = faults
BY DEF Next, vars

(* Only Post writes the conversation.                                      *)
LEMMA LogFrame ==
  ASSUME [Next]_vars, ~ Post
  PROVE  log' = log
<1>1. ASSUME NEW h \in Attempts, Handle(h) PROVE log' = log
  BY <1>1 DEF Handle, Deliver, Resolve, Insert, Record, List, Clear, Published
<1>2. ASSUME NEW u \in Members, Visit(u) PROVE log' = log
  BY <1>2 DEF Visit, Open, Answer, Subscribe, Unsubscribe
<1>3. CASE Confirm \/ Crash \/ UNCHANGED vars
  BY <1>3 DEF Confirm, Crash, vars
<1> QED
  BY <1>1, <1>2, <1>3 DEF Next

(* The conversation only grows: no message is renumbered or changed.       *)
LEMMA LogGrows ==
  ASSUME TypeOK, [Next]_vars
  PROVE  /\ Len(log) \in Nat /\ Len(log') \in Nat /\ Len(log) <= Len(log')
         /\ \A m \in Messages : m \in Messages' /\ m \in Nat /\ log'[m] = log[m]
         /\ log' \in Seq(Members \cup {Agent})
<1>1. CASE Post
  <2>1. PICK a \in Members \cup {Agent} : log' = Append(log, a)
    BY <1>1 DEF Post
  <2>2. log \in Seq(Members \cup {Agent})
    BY DEF TypeOK
  <2>3. /\ log' \in Seq(Members \cup {Agent})
        /\ Len(log) \in Nat /\ Len(log') = Len(log) + 1
        /\ \A m \in 1 .. Len(log) : log'[m] = log[m]
    BY <2>1, <2>2
  <2> QED
    BY <2>3 DEF Messages
<1>2. CASE ~ Post
  BY <1>2, LogFrame DEF TypeOK, Messages
<1> QED
  BY <1>1, <1>2

(* The next subscription of the iteration is the first one ahead of it.    *)
LEMMA NextIsAhead ==
  ASSUME TypeOK, NEW h \in Attempts, Ahead(h) # {}
  PROVE  /\ NextSubscription(h) \in Ahead(h)
         /\ \A v \in Ahead(h) : sub[NextSubscription(h)] <= sub[v]
         /\ Ahead(h) \subseteq Members
<1>1. Ahead(h) \subseteq Members
  BY DEF Ahead
<1> DEFINE numbers == {sub[v] : v \in Ahead(h)}
<1>2. numbers \subseteq Nat /\ numbers # {}
  BY <1>1 DEF TypeOK
<1>3. PICK n \in numbers : \A k \in numbers : n <= k
  BY <1>2, SmallestNat
<1>4. PICK u \in Ahead(h) : sub[u] = n
  BY <1>3
<1>5. \A v \in Ahead(h) : sub[u] <= sub[v]
  BY <1>3, <1>4
<1> QED
  BY <1>1, <1>4, <1>5 DEF NextSubscription

-----------------------------------------------------------------------------
(* Types.                                                                  *)

\* The part of TypeOK that a growing conversation could disturb, and the rest.
LogTypes ==
  /\ known \subseteq Messages
  /\ recorded \subseteq Messages
  /\ unread \subseteq Members \X Messages
  /\ snap \in [Attempts \cup Members -> 0 .. Len(log)]
  /\ shown \in [Members -> 0 .. Len(log)]
  /\ cleared \in [Members -> 0 .. Len(log)]

HubTypes ==
  /\ sub \in [Members -> 0 .. last]
  /\ base \in 0 .. last
  /\ last \in Nat
  /\ held \in [Attempts -> 0 .. last]
  /\ cursor \in [Attempts -> 0 .. last]
  /\ upto \in [Attempts -> 0 .. last]

HandlerTypes ==
  /\ pc \in [Attempts -> PCs]
  /\ to \in [Attempts -> SUBSET Members]
  /\ whom \in [Attempts -> Members \cup {Agent}]
  /\ reading \subseteq Members

\* What an attempt beyond "idle" announces has been posted.
Announced == \A h \in Attempts : pc[h] # "idle" => MessageOf[h] \in Messages

(* A delivery announces a message that was posted.                         *)
LEMMA AnnouncedStep ==
  ASSUME TypeOK, Announced, [Next]_vars
  PROVE  Announced'
<1>1. ASSUME NEW h \in Attempts, pc'[h] # "idle" PROVE MessageOf[h] \in Messages
  <2>1. ASSUME NEW k \in Attempts, Handle(k), pc[h] = "idle"
        PROVE  MessageOf[h] \in Messages
    <3>1. pc[k] # "idle" \/ Deliver(k)
      BY <2>1 DEF Handle, Resolve, Insert, Record, List, Clear, Published
    <3>2. k = h
      BY <1>1, <2>1
      DEF Handle, Deliver, Resolve, Insert, Record, List, Clear, Published, Goto,
          QueryFails, TypeOK
    <3> QED
      BY <2>1, <3>1, <3>2 DEF Deliver
  <2>2. ASSUME NEW u \in Members, Visit(u) PROVE pc' = pc
    BY <2>2 DEF Visit, Open, Answer, Subscribe, Unsubscribe
  <2>3. CASE Post \/ Confirm \/ UNCHANGED vars
    BY <1>1, <2>3 DEF Post, Confirm, vars, Announced
  <2>4. CASE Crash
    BY <1>1, <2>4 DEF Crash, Ended, Announced
  <2> QED
    BY <1>1, <2>1, <2>2, <2>3, <2>4 DEF Next, Announced
<1> QED
  BY <1>1, LogGrows DEF Announced

(* The steps of a delivery keep the types of its own variables.            *)
LEMMA HandlerStep ==
  ASSUME TypeOK, [Next]_vars
  PROVE  HandlerTypes'
<1>1. ASSUME NEW h \in Attempts, Handle(h) PROVE HandlerTypes'
  <2>1. CASE Deliver(h) \/ Insert(h) \/ Record(h) \/ Published(h) \/ Clear(h)
    BY <2>1
    DEF Deliver, Insert, Record, Published, Clear, Goto, QueryFails, HandlerTypes,
        TypeOK, PCs, Ended, walk
  <2>2. CASE Resolve(h)
    <3>1. \E some \in SUBSET Members : to' = [to EXCEPT ![h] = some] \/ to' = to
      BY <2>2 DEF Resolve, Recipients, TypeOK
    <3>2. to' \in [Attempts -> SUBSET Members]
      BY <3>1 DEF TypeOK
    <3>3. pc' = [pc EXCEPT ![h] = "insert"] \/ pc' = [pc EXCEPT ![h] = "failed"]
      BY <2>2 DEF Resolve, Goto, QueryFails
    <3> QED
      BY <2>2, <3>2, <3>3 DEF Resolve, HandlerTypes, TypeOK, PCs, Ended, walk
  <2>3. CASE List(h)
    <3>1. NextSubscription(h) \in Members
      BY <2>3, NextIsAhead DEF List
    <3> QED
      BY <2>3, <3>1 DEF List, Goto, HandlerTypes, TypeOK, PCs, Ended
  <2> QED
    BY <1>1, <2>1, <2>2, <2>3 DEF Handle
<1>2. ASSUME NEW u \in Members, Visit(u) PROVE HandlerTypes'
  BY <1>2 DEF Visit, Open, Answer, Subscribe, Unsubscribe, HandlerTypes, TypeOK, walk
<1>3. CASE Post \/ Confirm \/ UNCHANGED vars
  BY <1>3 DEF Post, Confirm, vars, walk, HandlerTypes, TypeOK
<1>4. CASE Crash
  BY <1>4 DEF Crash, walk, HandlerTypes, TypeOK, PCs, Ended
<1> QED
  BY <1>1, <1>2, <1>3, <1>4 DEF Next

(* Subscriptions are numbered in the order they are made.                  *)
LEMMA HubStep ==
  ASSUME TypeOK, [Next]_vars
  PROVE  HubTypes'
<1>1. ASSUME NEW h \in Attempts, Handle(h) PROVE HubTypes'
  <2>1. CASE Record(h)
    <3>1. /\ held' = held \/ held' = [held EXCEPT ![h] = base]
          /\ cursor' = cursor \/ cursor' = [cursor EXCEPT ![h] = base]
          /\ upto' = upto \/ upto' = [upto EXCEPT ![h] = last]
          /\ sub' = sub /\ base' = base /\ last' = last
      BY <2>1 DEF Record, hub, walk
    <3>2. base \in 0 .. last /\ last \in 0 .. last
      BY DEF TypeOK
    <3>3. held' \in [Attempts -> 0 .. last]
      BY <3>1, <3>2 DEF TypeOK
    <3>4. cursor' \in [Attempts -> 0 .. last]
      BY <3>1, <3>2 DEF TypeOK
    <3>5. upto' \in [Attempts -> 0 .. last]
      BY <3>1, <3>2 DEF TypeOK
    <3> QED
      BY <3>1, <3>3, <3>4, <3>5 DEF HubTypes, TypeOK
  <2>2. CASE List(h)
    <3>1. NextSubscription(h) \in Members
      BY <2>2, NextIsAhead DEF List
    <3> QED
      BY <2>2, <3>1 DEF List, hub, HubTypes, TypeOK
  <2>3. CASE ~ Record(h) /\ ~ List(h)
    BY <1>1, <2>3
    DEF Handle, Deliver, Resolve, Insert, Clear, Published, hub, walk, HubTypes, TypeOK
  <2> QED
    BY <2>1, <2>2, <2>3
<1>2. ASSUME NEW u \in Members, Visit(u) PROVE HubTypes'
  <2>1. CASE Subscribe(u)
    <3>1. last' = last + 1 /\ last \in Nat /\ 0 .. last \subseteq 0 .. last'
      BY <2>1 DEF Subscribe, TypeOK
    <3>2. last + 1 \in 0 .. last' /\ last \in 0 .. last'
      BY <3>1
    <3>3. sub' \in [Members -> 0 .. last'] /\ base' \in 0 .. last'
      BY <2>1, <3>1, <3>2 DEF Subscribe, TypeOK
    <3>4. /\ held' \in [Attempts -> 0 .. last'] /\ cursor' \in [Attempts -> 0 .. last']
          /\ upto' \in [Attempts -> 0 .. last']
      BY <2>1, <3>1 DEF Subscribe, walk, TypeOK
    <3> QED
      BY <3>1, <3>3, <3>4 DEF HubTypes
  <2>2. CASE Open(u) \/ Answer(u)
    BY <2>2 DEF Open, Answer, hub, walk, HubTypes, TypeOK
  <2>3. CASE Unsubscribe(u)
    <3>1. sub' \in [Members -> 0 .. last]
      BY <2>3 DEF Unsubscribe, TypeOK
    <3> QED
      BY <2>3, <3>1 DEF Unsubscribe, walk, HubTypes, TypeOK
  <2> QED
    BY <1>2, <2>1, <2>2, <2>3 DEF Visit
<1>3. CASE Post \/ Confirm \/ UNCHANGED vars
  BY <1>3 DEF Post, Confirm, vars, hub, walk, HubTypes, TypeOK
<1>4. CASE Crash
  BY <1>4 DEF Crash, walk, HubTypes, TypeOK
<1> QED
  BY <1>1, <1>2, <1>3, <1>4 DEF Next

(* What is said about messages is said about messages of the conversation. *)
LEMMA LogTypesStep ==
  ASSUME TypeOK, Announced, [Next]_vars
  PROVE  LogTypes'
<1>0. /\ Len(log) \in Nat /\ Len(log') \in Nat
      /\ Messages \subseteq Messages' /\ 0 .. Len(log) \subseteq 0 .. Len(log')
  BY LogGrows DEF Messages
<1>1. ASSUME NEW h \in Attempts, Handle(h) PROVE LogTypes'
  <2>0. log' = log
    BY <1>1 DEF Handle, Deliver, Resolve, Insert, Record, List, Clear, Published
  <2>1. CASE Deliver(h) \/ Resolve(h) \/ Published(h)
    BY <2>0, <2>1 DEF Deliver, Resolve, Published, LogTypes, TypeOK, Messages
  <2>2. CASE Insert(h)
    <3>1. MessageOf[h] \in Messages /\ to[h] \subseteq Members
      BY <2>2 DEF Insert, Announced, TypeOK
    <3>2. unread' \subseteq Members \X Messages
      BY <2>2, <3>1 DEF Insert, TypeOK
    <3> QED
      BY <2>0, <2>2, <3>2 DEF Insert, LogTypes, TypeOK, Messages
  <2>3. CASE Record(h)
    <3>1. MessageOf[h] \in Messages
      BY <2>3 DEF Record, Announced
    <3> QED
      BY <2>0, <2>3, <3>1 DEF Record, LogTypes, TypeOK, Messages
  <2>4. CASE List(h)
    <3>1. snap' = snap \/ snap' = [snap EXCEPT ![h] = Len(log)]
      BY <2>4 DEF List
    <3>2. Len(log) \in 0 .. Len(log)
      BY <1>0
    <3>3. snap' \in [Attempts \cup Members -> 0 .. Len(log)]
      BY <3>1, <3>2 DEF TypeOK
    <3> QED
      BY <2>0, <2>4, <3>3 DEF List, LogTypes, TypeOK, Messages
  <2>5. CASE Clear(h)
    <3>1. /\ unread' = unread \/ unread' = {x \in unread : x[1] # whom[h]}
          /\ cleared' = cleared \/ cleared' = [cleared EXCEPT ![whom[h]] = Len(log)]
          /\ shown' = shown \/ shown' = [shown EXCEPT ![whom[h]] = snap[h]]
          /\ snap' = snap /\ known' = known /\ recorded' = recorded
      BY <2>5 DEF Clear, ClearRows
    <3>2. snap[h] \in 0 .. Len(log) /\ Len(log) \in 0 .. Len(log)
      BY <1>0 DEF TypeOK
    <3>3. unread' \subseteq Members \X Messages
      BY <3>1 DEF TypeOK
    <3>4. cleared' \in [Members -> 0 .. Len(log)]
      BY <3>1, <3>2 DEF TypeOK
    <3>5. shown' \in [Members -> 0 .. Len(log)]
      BY <3>1, <3>2 DEF TypeOK
    <3> QED
      BY <2>0, <3>1, <3>3, <3>4, <3>5 DEF LogTypes, TypeOK, Messages
  <2> QED
    BY <1>1, <2>1, <2>2, <2>3, <2>4, <2>5 DEF Handle
<1>2. ASSUME NEW u \in Members, Visit(u) PROVE LogTypes'
  <2>0. log' = log /\ snap[u] \in 0 .. Len(log) /\ Len(log) \in 0 .. Len(log)
    BY <1>0, <1>2 DEF Visit, Open, Answer, Subscribe, Unsubscribe, TypeOK
  <2>1. CASE Open(u)
    BY <2>0, <2>1 DEF Open, LogTypes, TypeOK, Messages
  <2>2. CASE Answer(u)
    <3>1. /\ unread' \subseteq Members \X Messages
          /\ cleared' \in [Members -> 0 .. Len(log)]
          /\ shown' \in [Members -> 0 .. Len(log)]
      BY <2>0, <2>2 DEF Answer, ClearRows, TypeOK
    <3> QED
      BY <2>0, <2>2, <3>1 DEF Answer, LogTypes, TypeOK, Messages
  <2>3. CASE Subscribe(u) \/ Unsubscribe(u)
    BY <2>0, <2>3 DEF Subscribe, Unsubscribe, LogTypes, TypeOK, Messages
  <2> QED
    BY <1>2, <2>1, <2>2, <2>3 DEF Visit
<1>3. CASE Post
  BY <1>0, <1>3 DEF Post, LogTypes, TypeOK
<1>4. CASE Confirm \/ Crash \/ UNCHANGED vars
  BY <1>4 DEF Confirm, Crash, vars, LogTypes, TypeOK, Messages
<1> QED
  BY <1>1, <1>2, <1>3, <1>4 DEF Next

(* Every variable of the fan-out keeps its type.                           *)
THEOREM TypeCorrect == Spec => []TypeOK
<1>1. Init => TypeOK /\ Announced
  <2> SUFFICES ASSUME Init PROVE TypeOK /\ Announced
    OBVIOUS
  <2>1. <<>> \in Seq(Members \cup {Agent}) /\ Len(<<>>) = 0
    OBVIOUS
  <2> QED
    BY <2>1 DEF Init, TypeOK, Announced, PCs, Ended, Messages
<1>2. TypeOK /\ Announced /\ [Next]_vars => TypeOK' /\ Announced'
  <2> SUFFICES ASSUME TypeOK, Announced, [Next]_vars PROVE TypeOK'
    BY AnnouncedStep
  <2> QED
    BY LogGrows, HandlerStep, HubStep, LogTypesStep, SameFaults
    DEF TypeOK, HandlerTypes, HubTypes, LogTypes
<1> QED
  BY <1>1, <1>2, PTL DEF Spec
-----------------------------------------------------------------------------
(* Marks.                                                                  *)

(* A mark goes only with all the member's rows, and the history says so.   *)
LEMMA MarkedStays ==
  ASSUME TypeOK, [Next]_vars, NEW u \in Members, NEW m \in Messages, Marked(u, m)
  PROVE  Marked(u, m)'
<1>0. m <= Len(log) /\ Len(log) \in Nat /\ m \in Nat /\ cleared[u] \in Nat
  BY LogGrows DEF Messages, TypeOK
<1>1. ASSUME NEW v, ClearRows(v) PROVE Marked(u, m)'
  <2>1. CASE u = v
    BY <1>0, <1>1, <2>1 DEF ClearRows, Marked, TypeOK
  <2>2. CASE u # v
    <3>1. cleared'[u] = cleared[u]
      BY <1>1, <2>2 DEF ClearRows, TypeOK
    <3>2. <<u, m>> \in unread => <<u, m>> \in unread'
      BY <1>1, <2>2 DEF ClearRows
    <3> QED
      BY <3>1, <3>2 DEF Marked
  <2> QED
    BY <2>1, <2>2
<1>2. ASSUME unread \subseteq unread', cleared' = cleared PROVE Marked(u, m)'
  BY <1>2 DEF Marked
<1>3. ASSUME NEW h \in Attempts, Handle(h) PROVE Marked(u, m)'
  <2>1. CASE Clear(h)
    <3>1. ClearRows(whom[h]) \/ UNCHANGED <<unread, cleared>>
      BY <2>1 DEF Clear
    <3> QED
      BY <1>1, <1>2, <3>1
  <2>2. CASE ~ Clear(h)
    <3>1. unread \subseteq unread' /\ cleared' = cleared
      BY <1>3, <2>2 DEF Handle, Deliver, Resolve, Insert, Record, List, Published
    <3> QED
      BY <1>2, <3>1
  <2> QED
    BY <2>1, <2>2
<1>4. ASSUME NEW v \in Members, Visit(v) PROVE Marked(u, m)'
  <2>1. ClearRows(v) \/ UNCHANGED <<unread, cleared>>
    BY <1>4 DEF Visit, Open, Answer, Subscribe, Unsubscribe
  <2> QED
    BY <1>1, <1>2, <2>1
<1>5. CASE Post \/ Confirm \/ Crash \/ UNCHANGED vars
  BY <1>2, <1>5 DEF Post, Confirm, Crash, vars
<1> QED
  BY <1>3, <1>4, <1>5 DEF Next

(* What a delivery does to its place, when no lookup fails: it comes to    *)
(* "insert" with all its recipients, and to "record" with its marks.       *)
LEMMA MarkInvStep ==
  ASSUME TypeOK, MarkInv, [Next]_vars
  PROVE  MarkInv'
<1>0. Announced
  BY DEF MarkInv, Announced
<1>1. Announced'
  BY <1>0, AnnouncedStep
<1> SUFFICES ASSUME NEW k \in Attempts, "lookup" \notin faults
             PROVE  LET m == MessageOf[k]
                    IN /\ pc'[k] # "idle" => m \in Messages'
                       /\ pc'[k] = "insert" => Members \ {log'[m]} \subseteq to'[k]
                       /\ pc'[k] = "record" =>
                            \A u \in Members \ {log'[m]} : Marked(u, m)'
  BY <1>1, SameFaults DEF MarkInv, Announced
<1> DEFINE m == MessageOf[k]
<1>2. pc'[k] # "idle" => m \in Messages'
  BY <1>1 DEF Announced
\* The delivery stays where it is.
<1>3. ASSUME pc'[k] = pc[k], to'[k] = to[k]
      PROVE  /\ pc'[k] = "insert" => Members \ {log'[m]} \subseteq to'[k]
             /\ pc'[k] = "record" => \A u \in Members \ {log'[m]} : Marked(u, m)'
  <2>1. pc[k] # "idle" => m \in Messages /\ log'[m] = log[m]
    BY LogGrows DEF MarkInv
  <2> QED
    BY <1>3, <2>1, MarkedStays DEF MarkInv
<1>4. ASSUME NEW h \in Attempts, Handle(h)
      PROVE  /\ pc'[k] = "insert" => Members \ {log'[m]} \subseteq to'[k]
             /\ pc'[k] = "record" => \A u \in Members \ {log'[m]} : Marked(u, m)'
  <2>1. CASE h # k
    <3>1. pc'[k] = pc[k] /\ to'[k] = to[k]
      BY <1>4, <2>1
      DEF Handle, Deliver, Resolve, Insert, Record, List, Clear, Published, Goto,
          QueryFails, TypeOK
    <3> QED
      BY <1>3, <3>1
  <2>2. CASE h = k
    <3>1. CASE Resolve(h)
      <4>1. pc'[k] # "record"
        BY <2>2, <3>1 DEF Resolve, Goto, QueryFails, TypeOK
      <4>2. ASSUME pc'[k] = "insert" PROVE Members \ {log'[m]} \subseteq to'[k]
        <5>1. to'[k] = Recipients(m)
          BY <2>2, <3>1, <4>2 DEF Resolve, Goto, QueryFails, TypeOK
        <5>2. log' = log
          BY <3>1 DEF Resolve
        <5> QED
          BY <5>1, <5>2 DEF Recipients
      <4> QED
        BY <4>1, <4>2
    <3>2. CASE Insert(h)
      <4>1. pc'[k] # "insert"
        BY <2>2, <3>2 DEF Insert, Goto, QueryFails, TypeOK
      <4>2. ASSUME pc'[k] = "record", NEW u \in Members \ {log'[m]}
            PROVE  Marked(u, m)'
        <5>1. unread' = unread \cup {<<v, m>> : v \in to[k]}
          BY <2>2, <3>2, <4>2 DEF Insert, Goto, QueryFails, TypeOK
        <5>2. u \in to[k]
          BY <2>2, <3>2, <4>2 DEF Insert, MarkInv
        <5> QED
          BY <5>1, <5>2 DEF Marked
      <4> QED
        BY <4>1, <4>2
    <3>3. CASE ~ Resolve(h) /\ ~ Insert(h)
      <4>1. pc'[k] \notin {"insert", "record"}
        BY <1>4, <2>2, <3>3
        DEF Handle, Deliver, Record, List, Clear, Published, Goto, QueryFails, TypeOK
      <4> QED
        BY <4>1
    <3> QED
      BY <3>1, <3>2, <3>3
  <2> QED
    BY <2>1, <2>2
<1>5. ASSUME NEW v \in Members, Visit(v)
      PROVE  /\ pc'[k] = "insert" => Members \ {log'[m]} \subseteq to'[k]
             /\ pc'[k] = "record" => \A u \in Members \ {log'[m]} : Marked(u, m)'
  BY <1>3, <1>5 DEF Visit, Open, Answer, Subscribe, Unsubscribe
<1>6. CASE Post \/ Confirm \/ UNCHANGED vars
  BY <1>2, <1>3, <1>6 DEF Post, Confirm, vars
<1>7. CASE Crash
  <2>1. pc'[k] \notin {"insert", "record"}
    BY <1>7 DEF Crash, Ended
  <2> QED
    BY <1>2, <2>1
<1> QED
  BY <1>2, <1>4, <1>5, <1>6, <1>7 DEF Next

(* A message is recorded only from "record", with its marks written.       *)
LEMMA AcceptedStep ==
  ASSUME TypeOK, MarkInv, AcceptedIsMarked, [Next]_vars
  PROVE  AcceptedIsMarked'
<1> SUFFICES ASSUME "lookup" \notin faults,
                    NEW m \in recorded', NEW u \in Members \ {log'[m]}
             PROVE  Marked(u, m)'
  BY SameFaults DEF AcceptedIsMarked
<1>1. CASE m \in recorded
  <2>1. m \in Messages
    BY <1>1 DEF TypeOK
  <2>2. log'[m] = log[m]
    BY <2>1, LogGrows
  <2> QED
    BY <1>1, <2>1, <2>2, MarkedStays DEF AcceptedIsMarked
<1>2. CASE m \notin recorded
  <2>1. \E h \in Attempts : Record(h)
    <3>1. ASSUME NEW h \in Attempts, Handle(h), ~ Record(h) PROVE recorded' = recorded
      BY <3>1 DEF Handle, Deliver, Resolve, Insert, List, Clear, Published
    <3>2. ASSUME NEW v \in Members, Visit(v) PROVE recorded' = recorded
      BY <3>2 DEF Visit, Open, Answer, Subscribe, Unsubscribe
    <3>3. CASE Post \/ Confirm \/ Crash \/ UNCHANGED vars
      BY <1>2, <3>3 DEF Post, Confirm, Crash, vars
    <3> QED
      BY <1>2, <3>1, <3>2, <3>3 DEF Next
  <2>2. PICK h \in Attempts : Record(h)
    BY <2>1
  <2>3. m = MessageOf[h] /\ pc[h] = "record" /\ log' = log
    BY <1>2, <2>2 DEF Record
  <2>4. m \in Messages /\ Marked(u, m)
    BY <2>3 DEF MarkInv
  <2> QED
    BY <2>4, MarkedStays
<1> QED
  BY <1>1, <1>2

(* As long as every contact is found, no recorded delivery leaves a member *)
(* unmarked: neither a failed query nor a crash, nor a repetition of the   *)
(* delivery, nor any reader of the thread, makes a mark disappear unseen.  *)
THEOREM MarksSurvive == Spec => []AcceptedIsMarked
<1>1. Init => MarkInv /\ AcceptedIsMarked
  BY DEF Init, MarkInv, AcceptedIsMarked
<1>2. TypeOK /\ MarkInv /\ AcceptedIsMarked /\ [Next]_vars
        => MarkInv' /\ AcceptedIsMarked'
  BY MarkInvStep, AcceptedStep
<1> QED
  BY <1>1, <1>2, TypeCorrect, PTL DEF Spec
-----------------------------------------------------------------------------
(* The walk over the streams.                                              *)

(* A subscription gets a number of its own, above all there were.          *)
LEMMA HubInvStep ==
  ASSUME TypeOK, HubInv, [Next]_vars
  PROVE  HubInv'
<1>1. ASSUME NEW u \in Members, Visit(u) PROVE HubInv'
  <2>1. CASE Open(u) \/ Answer(u)
    BY <2>1 DEF Open, Answer, hub, HubInv
  <2>2. CASE Unsubscribe(u)
    BY <2>2 DEF Unsubscribe, HubInv, TypeOK
  <2>3. CASE Subscribe(u)
    <3>1. /\ last \in Nat /\ base \in 0 .. last
          /\ \A v \in Members : sub[v] \in 0 .. last
      BY DEF TypeOK
    <3>2. /\ sub'[u] = last + 1 /\ base' \in {base, last}
          /\ \A v \in Members \ {u} : sub'[v] = sub[v]
          /\ \A v \in Members \ {u} : sub[v] # 0 => base' = base
      BY <2>3 DEF Subscribe, TypeOK
    <3>3. ASSUME NEW v \in Members, sub'[v] # 0
          PROVE  sub'[v] > base' /\ \A w \in Members : sub'[w] = sub'[v] => v = w
      <4>1. CASE v = u
        BY <3>1, <3>2, <4>1
      <4>2. CASE v # u
        <5>1. sub'[v] = sub[v] /\ base' = base /\ sub[v] > base
          BY <3>2, <3>3, <4>2 DEF HubInv
        <5>2. ASSUME NEW w \in Members, sub'[w] = sub'[v] PROVE v = w
          BY <3>1, <3>2, <3>3, <5>1, <5>2 DEF HubInv
        <5> QED
          BY <5>1, <5>2
      <4> QED
        BY <4>1, <4>2
    <3> QED
      BY <3>3 DEF HubInv
  <2> QED
    BY <1>1, <2>1, <2>2, <2>3 DEF Visit
<1>2. ASSUME NEW h \in Attempts, Handle(h) PROVE HubInv'
  BY <1>2
  DEF Handle, Deliver, Resolve, Insert, Record, List, Clear, Published, hub, HubInv
<1>3. CASE Post \/ Confirm \/ UNCHANGED vars
  BY <1>3 DEF Post, Confirm, vars, hub, HubInv
<1>4. CASE Crash
  BY <1>4 DEF Crash, HubInv
<1> QED
  BY <1>1, <1>2, <1>3, <1>4 DEF Next

(* A stream that is not new was open before, and the Set is still the same. *)
LEMMA StreamStays ==
  ASSUME TypeOK, [Next]_vars, NEW u \in Members, sub'[u] # 0, sub'[u] <= last
  PROVE  sub'[u] = sub[u] /\ base' = base
<1>1. ASSUME NEW v \in Members, Visit(v) PROVE sub'[u] = sub[u] /\ base' = base
  <2>1. CASE Open(v) \/ Answer(v)
    BY <2>1 DEF Open, Answer, hub
  <2>2. CASE Unsubscribe(v)
    BY <2>2 DEF Unsubscribe, TypeOK
  <2>3. CASE Subscribe(v)
    <3>1. u # v
      BY <2>3 DEF Subscribe, TypeOK
    <3>2. sub'[u] = sub[u]
      BY <2>3, <3>1 DEF Subscribe, TypeOK
    <3> QED
      BY <2>3, <3>2 DEF Subscribe
  <2> QED
    BY <1>1, <2>1, <2>2, <2>3 DEF Visit
<1>2. ASSUME NEW h \in Attempts, Handle(h) PROVE sub' = sub /\ base' = base
  BY <1>2 DEF Handle, Deliver, Resolve, Insert, Record, List, Clear, Published, hub
<1>3. CASE Post \/ Confirm \/ UNCHANGED vars
  BY <1>3 DEF Post, Confirm, vars, hub
<1>4. CASE Crash
  BY <1>4 DEF Crash
<1> QED
  BY <1>1, <1>2, <1>3, <1>4 DEF Next

(* What a member has received is not taken back, and a snapshot in hand is *)
(* replaced only by a later one.                                           *)
LEMMA ShownGrows ==
  ASSUME TypeOK, [Next]_vars
  PROVE  /\ \A u \in Members : shown'[u] >= shown[u]
         /\ \A p \in Attempts \cup Members : snap'[p] >= snap[p]
<1>0. /\ \A u \in Members : shown[u] \in Nat
      /\ \A p \in Attempts \cup Members : snap[p] \in Nat /\ snap[p] <= Len(log)
      /\ Len(log) \in Nat
  BY LogGrows DEF TypeOK
<1>1. \/ shown' = shown
      \/ \E u \in Members \cup {Agent}, p \in Attempts \cup Members :
           snap[p] > shown[u] /\ shown' = [shown EXCEPT ![u] = snap[p]]
  <2>1. ASSUME NEW h \in Attempts, Handle(h), ~ Clear(h) PROVE shown' = shown
    BY <2>1 DEF Handle, Deliver, Resolve, Insert, Record, List, Published
  <2>2. ASSUME NEW h \in Attempts, Clear(h)
        PROVE  \/ shown' = shown
               \/ snap[h] > shown[whom[h]] /\ shown' = [shown EXCEPT ![whom[h]] = snap[h]]
    BY <2>2 DEF Clear
  <2>3. ASSUME NEW h \in Attempts PROVE whom[h] \in Members \cup {Agent}
    BY DEF TypeOK
  <2>4. ASSUME NEW u \in Members, Visit(u)
        PROVE  \/ shown' = shown
               \/ snap[u] > shown[u] /\ shown' = [shown EXCEPT ![u] = snap[u]]
    BY <2>4 DEF Visit, Open, Answer, Subscribe, Unsubscribe
  <2>5. CASE Post \/ Confirm \/ Crash \/ UNCHANGED vars
    BY <2>5 DEF Post, Confirm, Crash, vars
  <2> QED
    BY <2>1, <2>2, <2>3, <2>4, <2>5 DEF Next
<1>2. \A u \in Members : shown'[u] >= shown[u]
  <2>1. CASE shown' = shown
    BY <1>0, <2>1
  <2>2. ASSUME NEW u \in Members \cup {Agent}, NEW p \in Attempts \cup Members,
               snap[p] > shown[u], shown' = [shown EXCEPT ![u] = snap[p]]
        PROVE  \A v \in Members : shown'[v] >= shown[v]
    <3> TAKE v \in Members
    <3>1. CASE v = u
      BY <1>0, <2>2, <3>1 DEF TypeOK
    <3>2. CASE v # u
      BY <1>0, <2>2, <3>2 DEF TypeOK
    <3> QED
      BY <3>1, <3>2
  <2> QED
    BY <1>1, <2>1, <2>2
<1>3. \/ snap' = snap
      \/ \E p \in Attempts \cup Members : snap' = [snap EXCEPT ![p] = Len(log)]
  <2>1. ASSUME NEW h \in Attempts, Handle(h)
        PROVE  snap' = snap \/ snap' = [snap EXCEPT ![h] = Len(log)]
    BY <2>1 DEF Handle, Deliver, Resolve, Insert, Record, List, Clear, Published
  <2>2. ASSUME NEW u \in Members, Visit(u)
        PROVE  snap' = snap \/ snap' = [snap EXCEPT ![u] = Len(log)]
    BY <2>2 DEF Visit, Open, Answer, Subscribe, Unsubscribe
  <2>3. CASE Post \/ Confirm \/ Crash \/ UNCHANGED vars
    BY <2>3 DEF Post, Confirm, Crash, vars
  <2> QED
    BY <2>1, <2>2, <2>3 DEF Next
<1>4. ASSUME NEW p \in Attempts \cup Members PROVE snap'[p] >= snap[p]
  <2>1. snap'[p] = snap[p] \/ snap'[p] = Len(log)
    BY <1>3 DEF TypeOK
  <2> QED
    BY <1>0, <2>1
<1> QED
  BY <1>2, <1>4

\* What WalkInv says of one delivery and one member.
KeepsPlace(h, u) ==
  sub[u] \in 1 .. upto[h] =>
    /\ pc[h] \in {"publish", "clear"} => held[h] = base /\ Reached(h, u)
    /\ pc[h] = "done" => shown[u] >= MessageOf[h]

(* A delivery that does not move keeps its place.                          *)
LEMMA PlaceKept ==
  ASSUME TypeOK, TypeOK', [Next]_vars, NEW h \in Attempts, NEW u \in Members,
         KeepsPlace(h, u), pc'[h] \in {pc[h], "lost"},
         held'[h] = held[h], cursor'[h] = cursor[h], whom'[h] = whom[h],
         upto'[h] = upto[h]
  PROVE  KeepsPlace(h, u)'
<1>1. upto[h] \in Nat /\ upto[h] <= last /\ last \in Nat
  BY DEF TypeOK
<1>2. /\ shown[u] \in Nat /\ shown'[u] \in Nat /\ shown'[u] >= shown[u]
      /\ snap[h] \in Nat /\ snap'[h] \in Nat /\ snap'[h] >= snap[h]
      /\ MessageOf[h] \in Nat
  <2>1. MessageOf[h] \in Nat
    BY FanoutAssumption
  <2>2. snap[h] \in Nat /\ shown[u] \in Nat
    BY DEF TypeOK
  <2>3. snap'[h] \in Nat /\ shown'[u] \in Nat
    BY DEF TypeOK
  <2>4. shown'[u] >= shown[u] /\ snap'[h] >= snap[h]
    BY ShownGrows
  <2> QED
    BY <2>1, <2>2, <2>3, <2>4
<1> SUFFICES ASSUME sub'[u] \in 1 .. upto'[h]
             PROVE  /\ pc'[h] \in {"publish", "clear"} => held'[h] = base' /\ Reached(h, u)'
                    /\ pc'[h] = "done" => shown'[u] >= MessageOf[h]
  BY DEF KeepsPlace
<1>3. sub'[u] = sub[u] /\ base' = base
  BY <1>1, StreamStays
<1> QED
  BY <1>1, <1>2, <1>3 DEF KeepsPlace, Reached

(* The walk comes to every stream that was open when it began, and sends   *)
(* each a snapshot that has the message.                                   *)
LEMMA PlaceStep ==
  ASSUME TypeOK, TypeOK', Announced, HubInv, [Next]_vars, "notReady" \notin faults,
         NEW h \in Attempts, NEW u \in Members, KeepsPlace(h, u)
  PROVE  KeepsPlace(h, u)'
<1> DEFINE m == MessageOf[h]
<1>0. /\ last \in Nat /\ base \in 0 .. last /\ sub[u] \in 0 .. last
      /\ cursor[h] \in Nat /\ upto[h] \in 0 .. last /\ shown[u] \in Nat
      /\ snap[h] \in Nat /\ Len(log) \in Nat /\ m \in Nat
  <2>1. m \in Nat
    BY FanoutAssumption
  <2>2. /\ last \in Nat /\ base \in 0 .. last /\ sub[u] \in 0 .. last
        /\ cursor[h] \in Nat /\ upto[h] \in 0 .. last
    BY DEF TypeOK
  <2>3. shown[u] \in Nat /\ snap[h] \in Nat /\ Len(log) \in Nat
    BY DEF TypeOK
  <2> QED
    BY <2>1, <2>2, <2>3
<1>1. ASSUME NEW k \in Attempts, Handle(k), k # h PROVE KeepsPlace(h, u)'
  <2>1. /\ pc'[h] = pc[h] /\ held'[h] = held[h] /\ cursor'[h] = cursor[h]
        /\ whom'[h] = whom[h] /\ upto'[h] = upto[h]
    BY <1>1
    DEF Handle, Deliver, Resolve, Insert, Record, List, Clear, Published, Goto,
        QueryFails, TypeOK, walk
  <2> QED
    BY <2>1, PlaceKept
<1>2. CASE Deliver(h) \/ Resolve(h) \/ Insert(h)
  <2>1. pc'[h] \notin {"publish", "clear", "done"}
    BY <1>2 DEF Deliver, Resolve, Insert, Goto, QueryFails, TypeOK
  <2> QED
    BY <2>1 DEF KeepsPlace
<1>3. CASE Record(h)
  <2>1. sub' = sub /\ base' = base
    BY <1>3 DEF Record, hub
  <2>2. \/ pc'[h] \in {"duplicate", "failed"}
        \/ /\ held'[h] = base /\ cursor'[h] = base /\ upto'[h] = last
           /\ pc'[h] = IF \E v \in Members : sub[v] # 0 THEN "publish" ELSE "done"
    BY <1>3 DEF Record, Goto, QueryFails, TypeOK
  <2>3. CASE pc'[h] \in {"duplicate", "failed"}
    BY <2>3 DEF KeepsPlace
  <2>4. CASE sub[u] = 0
    BY <1>0, <2>1, <2>4 DEF KeepsPlace, TypeOK
  <2>5. CASE sub[u] # 0 /\ pc'[h] = "publish" /\ held'[h] = base /\ cursor'[h] = base
    <3>1. sub'[u] > cursor'[h] /\ held'[h] = base'
      BY <2>1, <2>5 DEF HubInv
    <3> QED
      BY <2>5, <3>1 DEF KeepsPlace, Reached
  <2> QED
    BY <2>2, <2>3, <2>4, <2>5
<1>4. CASE List(h)
  <2> DEFINE n == NextSubscription(h)
  <2>1. /\ pc[h] = "publish" /\ n \in Ahead(h) /\ n \in Members
        /\ \A v \in Ahead(h) : sub[n] <= sub[v]
    BY <1>4, NextIsAhead DEF List
  <2> HIDE DEF n
  <2>2. /\ cursor'[h] = sub[n] /\ whom'[h] = n
        /\ sub' = sub /\ base' = base /\ upto' = upto /\ held' = held /\ shown' = shown
        /\ \/ pc'[h] = "clear" /\ snap'[h] = Len(log)
           \/ pc'[h] = "aborted"
    BY <1>4 DEF List, Goto, TypeOK, hub, n
  <2>3. CASE pc'[h] = "aborted"
    BY <2>3 DEF KeepsPlace
  <2>4. CASE pc'[h] = "clear" /\ snap'[h] = Len(log)
    <3> SUFFICES ASSUME sub[u] \in 1 .. upto[h]
                 PROVE  held[h] = base /\ Reached(h, u)'
      BY <2>2, <2>4 DEF KeepsPlace
    <3>1. held[h] = base /\ (sub[u] > cursor[h] \/ shown[u] >= m)
      BY <2>1 DEF KeepsPlace, Reached
    <3>2. CASE shown[u] >= m
      BY <2>2, <3>1, <3>2 DEF Reached
    <3>3. CASE sub[u] > cursor[h]
      <4>1. sub[n] <= sub[u] /\ sub[n] \in Nat
        BY <2>1, <3>1, <3>3 DEF Ahead, TypeOK
      <4>2. CASE sub[n] < sub[u]
        BY <2>2, <3>1, <4>2 DEF Reached
      <4>3. CASE sub[n] = sub[u]
        <5>1. n = u
          BY <2>1, <4>3 DEF HubInv
        <5>2. m <= Len(log)
          BY <2>1 DEF Announced, Messages
        <5> QED
          BY <2>2, <2>4, <3>1, <4>3, <5>1, <5>2 DEF Reached
      <4> QED
        BY <1>0, <4>1, <4>2, <4>3
    <3> QED
      BY <3>1, <3>2, <3>3
  <2> QED
    BY <2>2, <2>3, <2>4
<1>5. CASE Published(h)
  <2>1. /\ pc[h] = "publish" /\ Ahead(h) = {} /\ pc'[h] = "done"
        /\ sub' = sub /\ upto' = upto /\ shown' = shown
    BY <1>5 DEF Published, Goto, TypeOK, hub, walk
  <2>2. ASSUME sub[u] \in 1 .. upto[h] PROVE shown[u] >= m
    <3>1. held[h] = base /\ (sub[u] > cursor[h] \/ shown[u] >= m)
      BY <2>1, <2>2 DEF KeepsPlace, Reached
    <3>2. ~ (sub[u] > cursor[h])
      BY <2>1, <3>1 DEF Ahead
    <3> QED
      BY <3>1, <3>2
  <2> QED
    BY <2>1, <2>2 DEF KeepsPlace
<1>6. CASE Clear(h)
  <2>1. /\ pc[h] = "clear" /\ sub' = sub /\ base' = base /\ upto' = upto
        /\ held' = held /\ cursor' = cursor
        /\ pc'[h] \in {"publish", "aborted"}
        /\ pc'[h] = "publish" =>
             shown' = IF sub[whom[h]] = cursor[h] /\ snap[h] > shown[whom[h]]
                      THEN [shown EXCEPT ![whom[h]] = snap[h]] ELSE shown
    BY <1>6 DEF Clear, Goto, TypeOK, hub, walk
  <2>2. CASE pc'[h] = "aborted"
    BY <2>2 DEF KeepsPlace
  <2>3. CASE pc'[h] = "publish"
    <3> SUFFICES ASSUME sub[u] \in 1 .. upto[h]
                 PROVE  held[h] = base /\ Reached(h, u)'
      BY <2>1, <2>3 DEF KeepsPlace
    <3>1. held[h] = base /\ Reached(h, u)
      BY <2>1 DEF KeepsPlace
    <3>2. shown'[u] \in Nat /\ shown'[u] >= shown[u]
      <4>1. shown'[u] >= shown[u]
        BY ShownGrows
      <4>2. shown'[u] \in Nat
        BY DEF TypeOK
      <4> QED
        BY <4>1, <4>2
    <3>3. CASE sub[u] > cursor[h] \/ shown[u] >= m
      BY <1>0, <2>1, <3>1, <3>2, <3>3 DEF Reached
    <3>4. CASE whom[h] = u /\ sub[u] = cursor[h] /\ snap[h] >= m
      <4>1. shown'[u] >= m
        BY <1>0, <2>1, <2>3, <3>4 DEF TypeOK
      <4> QED
        BY <3>1, <4>1 DEF Reached
    <3> QED
      BY <3>1, <3>3, <3>4 DEF Reached
  <2> QED
    BY <2>1, <2>2, <2>3
<1>7. ASSUME NEW v \in Members, Visit(v) PROVE KeepsPlace(h, u)'
  <2>1. UNCHANGED <<pc, held, cursor, whom, upto>>
    BY <1>7 DEF Visit, Open, Answer, Subscribe, Unsubscribe, walk
  <2> QED
    BY <2>1, PlaceKept
<1>8. CASE Post \/ Confirm \/ Crash \/ UNCHANGED vars
  <2>1. /\ pc'[h] \in {pc[h], "lost"}
        /\ UNCHANGED <<held, cursor, whom, upto>>
    BY <1>8 DEF Post, Confirm, Crash, vars, walk
  <2> QED
    BY <2>1, PlaceKept
<1> QED
  BY <1>1, <1>2, <1>3, <1>4, <1>5, <1>6, <1>7, <1>8 DEF Next, Handle

(* Every stream that was open when a fan-out began, and still is at its    *)
(* end, has received the message (publishThreadMessages).                  *)
THEOREM EveryStreamTold == Spec => []SubscribersTold
<1> DEFINE Walks == "notReady" \notin faults =>
                      \A h \in Attempts : \A u \in Members : KeepsPlace(h, u)
<1>1. Init => Announced /\ HubInv /\ Walks
  BY DEF Init, Announced, HubInv, KeepsPlace
<1>2. TypeOK /\ TypeOK' /\ Announced /\ HubInv /\ Walks /\ [Next]_vars
        => Announced' /\ HubInv' /\ Walks'
  <2> SUFFICES ASSUME TypeOK, TypeOK', Announced, HubInv, Walks, [Next]_vars
               PROVE  Walks'
    BY AnnouncedStep, HubInvStep
  <2> QED
    BY PlaceStep, SameFaults
<1>3. Walks => SubscribersTold
  BY DEF KeepsPlace, SubscribersTold
<1> QED
  BY <1>1, <1>2, <1>3, TypeCorrect, PTL DEF Spec
=============================================================================
