-------------------------- MODULE SendLedgerProofs --------------------------
(* Theorems about SendLedger for every number of requests, every payload   *)
(* and every bound.                                                        *)
EXTENDS SendLedger, NaturalFacts, TLAPS

(* The lease, the confirmation and the failure mark write rows.            *)
LEMMA RowTypes ==
  ASSUME TypeOK, NEW r \in Requests
  PROVE  /\ Leased(r, row) \in Rows
         /\ [Leased(r, row) EXCEPT !.payload = PayloadOf[r]] \in Rows
         /\ \A fenced \in BOOLEAN : Confirmed(r, fenced) \in Rows
         /\ Failed(r) \in Rows
         /\ row.messageId \in Messages \cup {NoMessage}
  BY DEF TypeOK, Rows, Leased, Confirmed, Failed, TokenOf, Tokens

(* The two lookups answer a message of the conversation, or none.          *)
LEMMA LookupTypes ==
  ASSUME TypeOK, NEW c \in Conversations
  PROVE  /\ BySource(c) \in Messages \cup {NoMessage}
         /\ BySource(c) # NoMessage <=> c \notin gone /\ Hits(c) # {}
         /\ BySource(c) # NoMessage => /\ BySource(c)[1] = c
                                       /\ BySource(c)[2] \in Hits(c)
<1>1. Hits(c) \subseteq Nat \ {0}
  BY DEF TypeOK, Hits
<1>2. CASE Hits(c) = {}
  BY <1>2 DEF BySource
<1>3. CASE Hits(c) # {}
  <2>1. PICK i \in Hits(c) : \A j \in Hits(c) : i <= j
    BY <1>1, <1>3, SmallestNat
  <2> DEFINE oldest == CHOOSE k \in Hits(c) : \A j \in Hits(c) : k <= j
  <2>2. oldest \in Hits(c)
    BY <2>1
  <2>3. BySource(c) = IF c \in gone THEN NoMessage ELSE <<c, oldest>>
    BY <1>3 DEF BySource
  <2> HIDE DEF oldest
  <2>4. oldest \in Nat \ {0}
    BY <1>1, <2>2
  <2> QED
    BY <1>3, <2>2, <2>3, <2>4 DEF Messages, NoMessage
<1> QED BY <1>2, <1>3

(* What the moves of one request do to the types.                          *)
LEMMA MoveTypes ==
  ASSUME TypeOK, NEW r \in Requests
  PROVE  /\ \A to \in PCs : Goto(r, to) => pc' \in [Requests -> PCs]
         /\ \A m \in Messages \cup {NoMessage} :
              Hold(r, m) => msg' \in [Requests -> Messages \cup {NoMessage}]
         /\ \A what \in Answers :
              Reply(r, what) => /\ pc' \in [Requests -> PCs]
                                /\ answer' \in [Requests -> Answers]
         /\ \A c \in Conversations, n \in {1, 2} :
              BeginSend(r, c, n) => /\ pc' \in [Requests -> PCs]
                                    /\ conv' \in [Requests -> Conversations]
                                    /\ round' \in [Requests -> {1, 2}]
                                    /\ acquiredAt' \in [Requests -> Nat]
<1>1. "done" \in PCs /\ "insert" \in PCs
  BY DEF PCs, AcquirePCs, RestPCs
<1>2. \A to \in PCs : Goto(r, to) => pc' \in [Requests -> PCs]
  BY DEF TypeOK, Goto
<1>3. \A m \in Messages \cup {NoMessage} :
        Hold(r, m) => msg' \in [Requests -> Messages \cup {NoMessage}]
  BY DEF TypeOK, Hold
<1>4. \A what \in Answers :
        Reply(r, what) => /\ pc' \in [Requests -> PCs]
                          /\ answer' \in [Requests -> Answers]
  BY <1>1, <1>2 DEF TypeOK, Reply
<1>5. \A c \in Conversations, n \in {1, 2} :
        BeginSend(r, c, n) => /\ pc' \in [Requests -> PCs]
                              /\ conv' \in [Requests -> Conversations]
                              /\ round' \in [Requests -> {1, 2}]
                              /\ acquiredAt' \in [Requests -> Nat]
  BY <1>1, <1>2 DEF TypeOK, BeginSend
<1> QED
  BY <1>2, <1>3, <1>4, <1>5

(* The initial state is typed.                                             *)
LEMMA TypeInit == Init => TypeOK
  BY TypeAssumption
  DEF Init, TypeOK, Rows, AbsentRow, NoToken, NoMessage, NoPayload,
      Conversations, Entries, PCs, RestPCs, WireStates, Answers

(* Every step of the model, and a stutter, keeps the types.                *)
LEMMA TypeStep ==
  ASSUME TypeOK, [Next]_vars
  PROVE  TypeOK'
<1>1. ASSUME NEW r \in Requests, Start(r) PROVE TypeOK'
  BY <1>1, MoveTypes DEF Start, Throw, TypeOK, Answers, net, local
<1>2. ASSUME NEW r \in Requests, Insert(r) PROVE TypeOK'
  <2>1. row' \in Rows
    BY <1>2, RowTypes DEF Insert, TypeOK
  <2>2. pc' \in [Requests -> PCs] /\ answer' \in [Requests -> Answers]
    BY <1>2, MoveTypes DEF Insert, TypeOK, PCs, AcquirePCs, LeasePCs, Answers
  <2> QED
    BY <1>2, <2>1, <2>2 DEF Insert, TypeOK, net, local
<1>3. ASSUME NEW r \in Requests, NEW open \in PCs, Judge(r, open) \/ Throw(r)
      PROVE  /\ pc' \in [Requests -> PCs]
             /\ answer' \in [Requests -> Answers]
             /\ msg' \in [Requests -> Messages \cup {NoMessage}]
  BY <1>3, MoveTypes, RowTypes
  DEF Judge, Throw, TypeOK, PCs, FollowPCs, Answers
<1>4. ASSUME NEW r \in Requests, Select(r) \/ Reselect(r) PROVE TypeOK'
  BY <1>3, <1>4 DEF Select, Reselect, TypeOK, net, local, PCs, AcquirePCs, FollowPCs
<1>5. ASSUME NEW r \in Requests, Reacquire(r) PROVE TypeOK'
  <2>1. row' \in Rows
    BY <1>5, RowTypes DEF Reacquire, TypeOK
  <2>2. pc' \in [Requests -> PCs] /\ answer' \in [Requests -> Answers]
    BY <1>5, MoveTypes DEF Reacquire, TypeOK, PCs, AcquirePCs, LeasePCs, Answers
  <2> QED
    BY <1>5, <2>1, <2>2 DEF Reacquire, TypeOK, net, local
<1>6. ASSUME NEW r \in Requests,
             \/ ReplayById(r) \/ ReplayBySource(r) \/ Watch(r)
             \/ Lookup(r) \/ Recheck(r)
      PROVE  TypeOK'
  <2>1. conv[r] \in Conversations
    BY DEF TypeOK
  <2>2. BySource(conv[r]) \in Messages \cup {NoMessage}
    BY <2>1, LookupTypes
  <2>3. /\ pc' \in [Requests -> PCs]
        /\ answer' \in [Requests -> Answers]
        /\ msg' \in [Requests -> Messages \cup {NoMessage}]
    BY <1>6, <2>2, MoveTypes
    DEF ReplayById, ReplayBySource, Watch, Lookup, Recheck, Throw, TypeOK,
        PCs, FollowPCs, LeasePCs, Answers
  <2> QED
    BY <1>6, <2>3
    DEF ReplayById, ReplayBySource, Watch, Lookup, Recheck, TypeOK, net, local
<1>7. ASSUME NEW r \in Requests,
             \/ ReplayMark(r) \/ WatchMark(r) \/ LookupMark(r)
             \/ CreateMark(r) \/ RecheckMark(r) \/ FailMissing(r) \/ FailError(r)
      PROVE  TypeOK'
  <2>1. row' \in Rows
    BY <1>7, RowTypes
    DEF ReplayMark, WatchMark, LookupMark, CreateMark, RecheckMark,
        FailMissing, FailError, Mark, TypeOK
  <2>2. pc' \in [Requests -> PCs] /\ answer' \in [Requests -> Answers]
    BY <1>7, MoveTypes
    DEF ReplayMark, WatchMark, LookupMark, CreateMark, RecheckMark,
        FailMissing, FailError, Mark, TypeOK, PCs, LeasePCs, RestPCs, Answers
  <2> QED
    BY <1>7, <2>1, <2>2
    DEF ReplayMark, WatchMark, LookupMark, CreateMark, RecheckMark,
        FailMissing, FailError, Mark, TypeOK, net, local
<1>8. ASSUME NEW r \in Requests, Create(r) \/ Created(r) \/ CreateFails(r) \/ Crash(r)
      PROVE  TypeOK'
  <2>1. pc' \in [Requests -> PCs]
    BY <1>8, MoveTypes
    DEF Create, Created, CreateFails, Crash, PCs, LeasePCs, RestPCs
  <2>2. wire' \in [Requests -> WireStates]
    BY <1>8 DEF Create, Created, CreateFails, Crash, TypeOK, WireStates, net
  <2> QED
    BY <1>8, <2>1, <2>2
    DEF Create, Created, CreateFails, Crash, TypeOK, net, local
<1>9. ASSUME NEW r \in Requests, Remap(r) PROVE TypeOK'
  <2>1. mapped' \in Conversations
    BY <1>9, TypeAssumption DEF Remap, TypeOK, Conversations
  <2>2. /\ pc' \in [Requests -> PCs]
        /\ answer' \in [Requests -> Answers]
        /\ conv' \in [Requests -> Conversations]
        /\ round' \in [Requests -> {1, 2}]
        /\ acquiredAt' \in [Requests -> Nat]
    BY <1>9, <2>1, MoveTypes DEF Remap, TypeOK, Answers, local
  <2> QED
    BY <1>9, <2>1, <2>2 DEF Remap, TypeOK, net
<1>10. ASSUME NEW r \in Requests, Land(r) PROVE TypeOK'
  <2>1. conv[r] \in Conversations /\ Own(PayloadOf[r]) \in Entries
    BY TypeAssumption DEF TypeOK, Entries
  <2>2. log' \in [Conversations -> Seq(Entries)]
    BY <1>10, <2>1 DEF Land, TypeOK
  <2>3. wire' \in [Requests -> WireStates]
    BY <1>10 DEF Land, TypeOK, WireStates
  <2>4. conv[r] \notin gone => Len(log'[conv[r]]) \in Nat \ {0}
    BY <1>10, <2>1 DEF Land, TypeOK
  <2>5. msg' \in [Requests -> Messages \cup {NoMessage}]
    BY <1>10, <2>1, <2>4 DEF Land, TypeOK, Messages
  <2> QED
    BY <1>10, <2>2, <2>3, <2>5 DEF Land, TypeOK, local
<1>11. ASSUME OtherMessage \/ DeleteConversation \/ Tick PROVE TypeOK'
  <2>1. Other \in Entries /\ mapped \in Conversations
    BY DEF Entries, TypeOK
  <2>2. ASSUME OtherMessage PROVE log' \in [Conversations -> Seq(Entries)]
    BY <2>1, <2>2 DEF OtherMessage, TypeOK
  <2>3. gone' \subseteq Conversations
    BY <1>11, <2>1 DEF OtherMessage, DeleteConversation, Tick, TypeOK, net
  <2> QED
    BY <1>11, <2>2, <2>3
    DEF OtherMessage, DeleteConversation, Tick, TypeOK, net, local
<1>12. ASSUME UNCHANGED vars PROVE TypeOK'
  BY <1>12 DEF vars, TypeOK
<1> QED
  BY <1>1, <1>2, <1>4, <1>5, <1>6, <1>7, <1>8, <1>9, <1>10, <1>11, <1>12
  DEF Next, Step

(* The row, the logs, the requests and the clock keep their types: in      *)
(* particular the row's token was drawn by some request and its message is *)
(* one a conversation can hold.                                            *)
THEOREM TypeCorrect == Spec => []TypeOK
  BY TypeInit, TypeStep, PTL DEF Spec

(* No request outlives its budget: the clock waits for requests at work,   *)
(* and a request only becomes timed when it reads the clock.               *)
LEMMA TimelyStep ==
  ASSUME TypeOK, Timely, [Next]_vars
  PROVE  Timely'
<1>1. ASSUME NEW r \in Requests, Start(r) \/ Remap(r) PROVE Timely'
  BY <1>1, TypeAssumption
  DEF Start, Remap, BeginSend, Throw, Reply, Goto, Timely, TypeOK, TimedPCs,
      LeasePCs, local
<1>2. ASSUME NEW r \in Requests,
             \/ Insert(r) \/ Select(r) \/ Reacquire(r) \/ Reselect(r)
      PROVE  Timely'
  BY <1>2
  DEF Insert, Select, Reacquire, Reselect, Judge, Throw, Reply, Goto, Timely,
      TypeOK, TimedPCs, LeasePCs, local
<1>3. ASSUME NEW r \in Requests,
             \/ ReplayById(r) \/ ReplayBySource(r) \/ ReplayMark(r)
             \/ Watch(r) \/ WatchMark(r)
      PROVE  Timely'
  <2>1. pc' = [pc EXCEPT ![r] = pc'[r]] /\ pc'[r] \notin TimedPCs
    <3>1. CASE ReplayById(r) \/ ReplayBySource(r)
      BY <3>1
      DEF ReplayById, ReplayBySource, Throw, Reply, Goto, TypeOK, TimedPCs, LeasePCs
    <3>2. CASE ReplayMark(r)
      BY <3>2 DEF ReplayMark, Mark, Reply, Goto, TypeOK, TimedPCs, LeasePCs
    <3>3. CASE Watch(r)
      BY <3>3 DEF Watch, Throw, Reply, Goto, TypeOK, TimedPCs, LeasePCs
    <3>4. CASE WatchMark(r)
      BY <3>4 DEF WatchMark, Mark, Reply, Goto, TypeOK, TimedPCs, LeasePCs
    <3> QED
      BY <1>3, <3>1, <3>2, <3>3, <3>4
  <2>2. UNCHANGED <<clock, acquiredAt>>
    BY <1>3 DEF ReplayById, ReplayBySource, ReplayMark, Watch, WatchMark, local
  <2> QED
    BY <2>1, <2>2 DEF Timely, TypeOK
<1>4. ASSUME NEW r \in Requests,
             \/ Lookup(r) \/ LookupMark(r) \/ Create(r) \/ Created(r)
             \/ CreateFails(r) \/ CreateMark(r)
      PROVE  Timely'
  BY <1>4
  DEF Lookup, LookupMark, Create, Created, CreateFails, CreateMark, Mark,
      Reply, Goto, Timely, TypeOK, TimedPCs, LeasePCs, local
<1>5. ASSUME NEW r \in Requests,
             \/ Recheck(r) \/ RecheckMark(r) \/ FailMissing(r) \/ FailError(r)
             \/ Crash(r)
      PROVE  Timely'
  <2>1. /\ pc' = [pc EXCEPT ![r] = pc'[r]]
        /\ pc[r] \in TimedPCs \/ pc'[r] \notin TimedPCs
    <3>1. CASE Recheck(r) \/ Crash(r)
      BY <3>1 DEF Recheck, Crash, Goto, TypeOK, TimedPCs, LeasePCs
    <3>2. CASE RecheckMark(r)
      BY <3>2 DEF RecheckMark, Mark, Reply, Goto, TypeOK, TimedPCs, LeasePCs
    <3>3. CASE FailMissing(r) \/ FailError(r)
      BY <3>3 DEF FailMissing, FailError, Reply, Goto, TypeOK, TimedPCs, LeasePCs
    <3> QED
      BY <1>5, <3>1, <3>2, <3>3
  <2>2. UNCHANGED <<clock, acquiredAt>>
    BY <1>5 DEF Recheck, RecheckMark, FailMissing, FailError, Crash, local
  <2> QED
    BY <2>1, <2>2 DEF Timely, TypeOK
<1>6. ASSUME Tick PROVE Timely'
  BY <1>6, TypeAssumption DEF Tick, Timely, TypeOK, local
<1>7. ASSUME \/ \E r \in Requests : Land(r)
             \/ OtherMessage \/ DeleteConversation \/ UNCHANGED vars
      PROVE  Timely'
  BY <1>7 DEF Land, OtherMessage, DeleteConversation, vars, Timely, local
<1> QED
  BY <1>1, <1>2, <1>3, <1>4, <1>5, <1>6, <1>7 DEF Next, Step

(* Where Chatwoot does not land late, no request leaves its POST behind.   *)
LEMMA WireStep ==
  ASSUME LateLanding = FALSE, TypeOK, WireInv, [Next]_vars
  PROVE  WireInv'
<1>1. ASSUME NEW r \in Requests,
             \/ Start(r) \/ Remap(r) \/ Insert(r) \/ Select(r) \/ Reacquire(r)
             \/ Reselect(r)
      PROVE  WireInv'
  BY <1>1
  DEF Start, Remap, BeginSend, Insert, Select, Reacquire, Reselect, Judge,
      Throw, Reply, Goto, WireInv, TypeOK, net
<1>2. ASSUME NEW r \in Requests,
             \/ ReplayById(r) \/ ReplayBySource(r) \/ ReplayMark(r)
             \/ Watch(r) \/ WatchMark(r)
      PROVE  WireInv'
  BY <1>2
  DEF ReplayById, ReplayBySource, ReplayMark, Watch, WatchMark, Mark, Throw,
      Reply, Goto, WireInv, TypeOK, net
<1>3. ASSUME NEW r \in Requests,
             \/ Lookup(r) \/ LookupMark(r) \/ Create(r) \/ Created(r)
             \/ CreateFails(r) \/ CreateMark(r)
      PROVE  WireInv'
  BY <1>3
  DEF Lookup, LookupMark, Create, Created, CreateFails, CreateMark, Mark,
      Reply, Goto, WireInv, TypeOK, net
<1>4. ASSUME NEW r \in Requests,
             \/ Recheck(r) \/ RecheckMark(r) \/ FailMissing(r) \/ FailError(r)
             \/ Crash(r) \/ Land(r)
      PROVE  WireInv'
  BY <1>4
  DEF Recheck, RecheckMark, FailMissing, FailError, Crash, Land, Mark, Reply,
      Goto, WireInv, TypeOK, net
<1>5. ASSUME OtherMessage \/ DeleteConversation \/ Tick \/ UNCHANGED vars
      PROVE  WireInv'
  BY <1>5 DEF OtherMessage, DeleteConversation, Tick, vars, WireInv, net
<1> QED
  BY <1>1, <1>2, <1>3, <1>4, <1>5 DEF Next, Step

(* After a 404 the conversation stays deleted.                             *)
LEMMA GoneStep ==
  ASSUME TypeOK, WireInv, GoneInv, [Next]_vars
  PROVE  GoneInv'
<1>1. ASSUME NEW r \in Requests,
             \/ Start(r) \/ Remap(r) \/ Insert(r) \/ Select(r) \/ Reacquire(r)
             \/ Reselect(r)
      PROVE  GoneInv'
  BY <1>1
  DEF Start, Remap, BeginSend, Insert, Select, Reacquire, Reselect, Judge,
      Throw, Reply, Goto, GoneInv, WireInv, TypeOK, net, local
<1>2. ASSUME NEW r \in Requests,
             \/ ReplayById(r) \/ ReplayBySource(r) \/ ReplayMark(r)
             \/ Watch(r) \/ WatchMark(r)
      PROVE  GoneInv'
  BY <1>2
  DEF ReplayById, ReplayBySource, ReplayMark, Watch, WatchMark, Mark, Throw,
      Reply, Goto, GoneInv, TypeOK, net, local
<1>3. ASSUME NEW r \in Requests,
             \/ Lookup(r) \/ LookupMark(r) \/ Create(r) \/ Created(r)
             \/ CreateFails(r) \/ CreateMark(r)
      PROVE  GoneInv'
  BY <1>3
  DEF Lookup, LookupMark, Create, Created, CreateFails, CreateMark, Mark,
      Reply, Goto, GoneInv, TypeOK, WireStates, net, local
<1>4. ASSUME NEW r \in Requests,
             \/ Recheck(r) \/ RecheckMark(r) \/ FailMissing(r) \/ FailError(r)
             \/ Crash(r) \/ Land(r)
      PROVE  GoneInv'
  BY <1>4
  DEF Recheck, RecheckMark, FailMissing, FailError, Crash, Land, Mark, Reply,
      Goto, GoneInv, TypeOK, net, local
<1>5. ASSUME OtherMessage \/ DeleteConversation \/ Tick \/ UNCHANGED vars
      PROVE  GoneInv'
  BY <1>5 DEF OtherMessage, DeleteConversation, Tick, vars, GoneInv, net, local
<1> QED
  BY <1>1, <1>2, <1>3, <1>4, <1>5 DEF Next, Step

(* The step of r that takes the lease: nobody else keeps it.  A holder     *)
(* whose lease is stale has outlived its budget, which Timely excludes.    *)
LEMMA NobodyElseKeeps ==
  ASSUME SendBudget <= StaleAfter, TypeOK, Timely, LeaseInv,
         NEW r \in Requests, NEW q \in Requests, Keeps(q),
         row.status = "absent" \/ Reacquirable(r)
  PROVE  FALSE
<1>1. Holds(q)
  BY DEF LeaseInv, Reacquirable
<1>2. clock <= acquiredAt[q] + SendBudget
  BY DEF Keeps, MayPost, Timely, TimedPCs, LeasePCs
<1>3. row.updatedAt + StaleAfter < acquiredAt[r]
  BY <1>1 DEF Holds, Reacquirable
<1>4. acquiredAt[r] <= clock
  BY DEF Timely
<1> QED
  BY <1>1, <1>2, <1>3, <1>4, TypeAssumption DEF Holds, TypeOK

(* Tokens tell requests apart, and a free row has none of them.            *)
LEMMA TokensDiffer ==
  ASSUME TypeOK, NEW r \in Requests, NEW q \in Requests
  PROVE  /\ TokenOf(r) # NoToken
         /\ TokenOf(r) = TokenOf(q) => r = q
  BY DEF TokenOf, NoToken

(* Steps that leave the lease alone, seen by any request: who may post or  *)
(* keep the lease after the step did so before it.                         *)
LEMMA NoNewKeeper ==
  ASSUME LateLanding = FALSE, TypeOK, WireInv, GoneInv, [Next]_vars,
         ~ \E r \in Requests : Insert(r) \/ Reacquire(r),
         NEW q \in Requests
  PROVE  /\ MayPost(q)' => MayPost(q)
         /\ Keeps(q)' => Keeps(q)
<1>1. ASSUME NEW r \in Requests, Start(r) \/ Remap(r) \/ Select(r) \/ Reselect(r)
      PROVE  (MayPost(q)' => MayPost(q)) /\ (Keeps(q)' => Keeps(q))
  <2>1. wire[r] = "idle" /\ wire' = wire /\ clock' = clock /\ gone' = gone
    BY <1>1 DEF WireInv, Start, Remap, Select, Reselect, net
  <2>2. /\ pc' = [pc EXCEPT ![r] = pc'[r]]
        /\ pc'[r] \in {"insert", "reacquire", "replayById", "watch", "done"}
        /\ q # r => conv'[q] = conv[q] /\ acquiredAt'[q] = acquiredAt[q]
    BY <1>1
    DEF Start, Remap, Select, Reselect, BeginSend, Judge, Throw, Reply, Goto,
        TypeOK, local
  <2> QED
    BY <2>1, <2>2 DEF MayPost, Keeps, TypeOK
<1>2. ASSUME NEW r \in Requests,
             \/ ReplayById(r) \/ ReplayBySource(r) \/ ReplayMark(r)
             \/ Watch(r) \/ WatchMark(r)
      PROVE  (MayPost(q)' => MayPost(q)) /\ (Keeps(q)' => Keeps(q))
  <2>1. UNCHANGED <<wire, clock, gone, conv, acquiredAt>>
    BY <1>2 DEF ReplayById, ReplayBySource, ReplayMark, Watch, WatchMark, net, local
  <2>2. /\ pc' = [pc EXCEPT ![r] = pc'[r]]
        /\ pc'[r] \in {"replayBySource", "replayMark", "watchMark", "done"}
    BY <1>2
    DEF ReplayById, ReplayBySource, ReplayMark, Watch, WatchMark, Mark, Throw,
        Reply, Goto, TypeOK
  <2> QED
    BY <2>1, <2>2 DEF MayPost, Keeps, TypeOK
<1>3. ASSUME NEW r \in Requests,
             Lookup(r) \/ LookupMark(r) \/ CreateMark(r) \/ Recheck(r)
      PROVE  (MayPost(q)' => MayPost(q)) /\ (Keeps(q)' => Keeps(q))
  <2>1. UNCHANGED <<wire, clock, gone, conv, acquiredAt>>
    BY <1>3 DEF Lookup, LookupMark, CreateMark, Recheck, net, local
  <2>2. /\ pc' = [pc EXCEPT ![r] = pc'[r]]
        /\ pc'[r] \in {"create", "lookupMark", "recheck", "recheckMark", "failError", "done"}
        /\ pc'[r] = "create" => pc[r] = "lookup"
        /\ pc'[r] = "lookupMark" => pc[r] = "lookup"
        /\ pc'[r] = "recheck" => pc[r] = "createMark"
        /\ pc'[r] = "recheckMark" => pc[r] = "recheck" /\ conv[r] \notin gone
    BY <1>3
    DEF Lookup, LookupMark, CreateMark, Recheck, BySource, Mark, Reply, Goto, TypeOK
  <2> QED
    BY <2>1, <2>2 DEF MayPost, Keeps, TypeOK
<1>4. ASSUME NEW r \in Requests, Create(r) \/ Created(r) \/ CreateFails(r)
      PROVE  (MayPost(q)' => MayPost(q)) /\ (Keeps(q)' => Keeps(q))
  <2>1. UNCHANGED <<clock, gone, conv, acquiredAt>>
    BY <1>4 DEF Create, Created, CreateFails, net, local
  <2>2. /\ pc' = [pc EXCEPT ![r] = pc'[r]]
        /\ wire' = [wire EXCEPT ![r] = wire'[r]]
        /\ MayPost(r)
        /\ pc'[r] # "awaiting" => wire'[r] = "idle"
        /\ pc'[r] \in {"awaiting", "createMark", "failMissing", "recheck"}
    BY <1>4 DEF Create, Created, CreateFails, Goto, MayPost, TypeOK
  <2> QED
    BY <2>1, <2>2 DEF MayPost, Keeps, TypeOK
<1>5. ASSUME NEW r \in Requests,
             RecheckMark(r) \/ FailMissing(r) \/ FailError(r) \/ Crash(r)
      PROVE  (MayPost(q)' => MayPost(q)) /\ (Keeps(q)' => Keeps(q))
  <2>1. UNCHANGED <<wire, clock, gone, conv, acquiredAt>>
    BY <1>5 DEF RecheckMark, FailMissing, FailError, Crash, net, local
  <2>2. /\ pc' = [pc EXCEPT ![r] = pc'[r]]
        /\ pc'[r] \in {"done", "remap", "recheck", "crashed"}
        /\ pc'[r] = "recheck" => conv[r] \in gone
    BY <1>5
    DEF RecheckMark, FailMissing, FailError, Crash, GoneInv, Mark, Reply, Goto, TypeOK
  <2> QED
    BY <2>1, <2>2 DEF MayPost, Keeps, TypeOK
<1>6. ASSUME NEW r \in Requests, Land(r)
      PROVE  (MayPost(q)' => MayPost(q)) /\ (Keeps(q)' => Keeps(q))
  <2>1. UNCHANGED <<clock, gone, conv, acquiredAt, pc>>
    BY <1>6 DEF Land, local
  <2>2. wire' = [wire EXCEPT ![r] = wire'[r]] /\ wire'[r] \in {"landed", "refused"}
    BY <1>6 DEF Land, TypeOK
  <2> QED
    BY <2>1, <2>2 DEF MayPost, Keeps, TypeOK
<1>7. ASSUME OtherMessage \/ DeleteConversation \/ Tick \/ UNCHANGED vars
      PROVE  (MayPost(q)' => MayPost(q)) /\ (Keeps(q)' => Keeps(q))
  <2>1. UNCHANGED <<wire, conv, acquiredAt, pc>> /\ gone \subseteq gone'
    BY <1>7 DEF OtherMessage, DeleteConversation, Tick, vars, net, local
  <2>2. clock' \in {clock, clock + 1}
    BY <1>7 DEF OtherMessage, DeleteConversation, Tick, vars
  <2>3. clock' <= acquiredAt[q] + SendBudget => clock <= acquiredAt[q] + SendBudget
    BY <2>2, TypeAssumption DEF TypeOK
  <2> QED
    BY <2>1, <2>3 DEF MayPost, Keeps
<1> QED
  BY <1>1, <1>2, <1>3, <1>4, <1>5, <1>6, <1>7 DEF Next, Step

(* Nor do those steps take the row from a request that keeps the lease,    *)
(* unless they confirm it: the failure marks are fenced by the token.      *)
LEMMA KeptRow ==
  ASSUME LateLanding = FALSE, TypeOK, WireInv, GoneInv, LeaseInv, [Next]_vars,
         ~ \E r \in Requests : Insert(r) \/ Reacquire(r),
         NEW q \in Requests, Keeps(q)'
  PROVE  row'.status = "confirmed" \/ Holds(q)'
<1>1. Keeps(q) /\ (row.status = "confirmed" \/ Holds(q))
  BY NoNewKeeper DEF LeaseInv
<1>2. ASSUME NEW r \in Requests, Failed(r) # row
      PROVE  row.token = TokenOf(r) /\ row.status # "confirmed" /\ (Holds(q) => q = r)
  BY <1>2, TokensDiffer DEF Failed, LeaseInv, Holds
<1>3. ASSUME NEW r \in Requests, NEW fenced \in BOOLEAN,
             row' \in {row, Confirmed(r, fenced)}
      PROVE  row' = row \/ row'.status = "confirmed"
  BY <1>3 DEF Confirmed, TypeOK, Rows
<1>4. ASSUME NEW r \in Requests,
             \/ ReplayMark(r) \/ WatchMark(r) \/ LookupMark(r)
             \/ CreateMark(r) \/ RecheckMark(r)
      PROVE  row'.status = "confirmed" \/ Holds(q)'
  <2>1. row' = row \/ row'.status = "confirmed"
    BY <1>3, <1>4 DEF ReplayMark, WatchMark, LookupMark, CreateMark, RecheckMark, Mark
  <2>2. UNCHANGED <<round, acquiredAt>>
    BY <1>4 DEF ReplayMark, WatchMark, LookupMark, CreateMark, RecheckMark, local
  <2> QED
    BY <1>1, <2>1, <2>2 DEF Holds, TokenOf
<1>5. ASSUME NEW r \in Requests, FailMissing(r) \/ FailError(r)
      PROVE  row'.status = "confirmed" \/ Holds(q)'
  <2>1. ~ Keeps(r)
    BY <1>5 DEF FailMissing, FailError, Keeps, MayPost, WireInv
  <2>2. row' = row
    BY <1>1, <1>2, <1>5, <2>1 DEF FailMissing, FailError
  <2>3. UNCHANGED <<round, acquiredAt>>
    BY <1>5 DEF FailMissing, FailError, local
  <2> QED
    BY <1>1, <2>2, <2>3 DEF Holds, TokenOf
<1>6. ASSUME NEW r \in Requests, Start(r) \/ Remap(r)
      PROVE  row'.status = "confirmed" \/ Holds(q)'
  <2>1. ~ Keeps(r)
    BY <1>6 DEF Start, Remap, Keeps, MayPost, WireInv
  <2>2. row' = row /\ (q # r => round'[q] = round[q] /\ acquiredAt'[q] = acquiredAt[q])
    BY <1>6 DEF Start, Remap, BeginSend, Throw, Reply, TypeOK, local
  <2> QED
    BY <1>1, <2>1, <2>2 DEF Holds, TokenOf
<1>7. ASSUME NEW r \in Requests,
             \/ Select(r) \/ Reselect(r) \/ ReplayById(r) \/ ReplayBySource(r)
             \/ Watch(r) \/ Lookup(r) \/ Create(r) \/ Created(r) \/ CreateFails(r)
             \/ Recheck(r) \/ Crash(r) \/ Land(r)
      PROVE  row'.status = "confirmed" \/ Holds(q)'
  <2>1. UNCHANGED <<row, round, acquiredAt>>
    BY <1>7
    DEF Select, Reselect, ReplayById, ReplayBySource, Watch, Lookup, Create,
        Created, CreateFails, Recheck, Crash, Land, local
  <2> QED
    BY <1>1, <2>1 DEF Holds, TokenOf
<1>8. ASSUME OtherMessage \/ DeleteConversation \/ Tick \/ UNCHANGED vars
      PROVE  row'.status = "confirmed" \/ Holds(q)'
  <2>1. UNCHANGED <<row, round, acquiredAt>>
    BY <1>8 DEF OtherMessage, DeleteConversation, Tick, vars, local
  <2> QED
    BY <1>1, <2>1 DEF Holds, TokenOf
<1> QED
  BY <1>4, <1>5, <1>6, <1>7, <1>8 DEF Next, Step

(* A request that tries to take the lease either changes nothing of it, or *)
(* is its only keeper afterwards.                                          *)
LEMMA AcquireStep ==
  ASSUME SendBudget <= StaleAfter, TypeOK, Timely, WireInv, LeaseInv,
         NEW r \in Requests, Insert(r) \/ Reacquire(r)
  PROVE  LeaseInv'
<1>1. /\ UNCHANGED <<wire, clock, gone, conv, acquiredAt, round>>
      /\ pc' = [pc EXCEPT ![r] = pc'[r]]
      /\ pc[r] \in {"insert", "reacquire"}
      /\ wire[r] = "idle"
  BY DEF Insert, Reacquire, Reply, Goto, WireInv, TypeOK, net, local
<1>2. ~ Keeps(r)
  BY <1>1 DEF Keeps, MayPost
<1>3. CASE row.status = "absent" \/ Reacquirable(r)
  <2>1. \A q \in Requests : ~ Keeps(q)
    BY <1>3, NobodyElseKeeps
  <2>2. pc'[r] \in {"lookup", "select", "reselect", "done"}
    BY DEF Insert, Reacquire, Reply, Goto, TypeOK
  <2>3. \A q \in Requests : Keeps(q)' => q = r /\ pc'[r] = "lookup"
    BY <1>1, <2>1, <2>2 DEF Keeps, MayPost, TypeOK
  <2>4. pc'[r] = "lookup" => Holds(r)'
    <3>1. pc'[r] = "lookup" =>
            row' \in {Leased(r, row), [Leased(r, row) EXCEPT !.payload = PayloadOf[r]]}
      BY DEF Insert, Reacquire, Reply, Goto, TypeOK
    <3>2. \A x \in {Leased(r, row), [Leased(r, row) EXCEPT !.payload = PayloadOf[r]]} :
            /\ x.status = "processing" /\ x.token = TokenOf(r)
            /\ x.updatedAt = acquiredAt[r]
      BY DEF Leased, TypeOK, Rows
    <3>3. TokenOf(r)' = TokenOf(r)
      BY <1>1 DEF TokenOf
    <3> QED
      BY <1>1, <3>1, <3>2, <3>3 DEF Holds
  <2>5. row'.status = "confirmed" => row'.token = NoToken
    BY DEF Insert, Reacquire, Leased, LeaseInv, TypeOK, Rows
  <2>6. LeaseExclusive'
    BY <2>3 DEF LeaseExclusive, Keeps
  <2> QED
    BY <2>3, <2>4, <2>5, <2>6 DEF LeaseInv
<1>4. CASE ~ (row.status = "absent" \/ Reacquirable(r))
  <2>1. row' = row /\ pc'[r] \in {"select", "reselect", "done"}
    BY <1>4 DEF Insert, Reacquire, Reply, Goto, TypeOK
  <2>2. \A q \in Requests : (MayPost(q)' => MayPost(q)) /\ (Keeps(q)' => Keeps(q))
    BY <1>1, <2>1 DEF Keeps, MayPost, TypeOK
  <2>3. \A q \in Requests : Holds(q) => Holds(q)'
    BY <1>1, <2>1 DEF Holds, TokenOf
  <2> QED
    BY <2>1, <2>2, <2>3 DEF LeaseInv, LeaseExclusive
<1> QED
  BY <1>3, <1>4

ConfirmedInv == TypeOK /\ (row.status = "confirmed" => row.token = NoToken)

(* No step takes a confirmed row back; it has no token a mark could match. *)
LEMMA ConfirmedStep ==
  ASSUME ConfirmedInv, [Next]_vars
  PROVE  /\ row'.status = "confirmed" => row'.token = NoToken
         /\ row.status = "confirmed" => row'.status = "confirmed"
<1> USE DEF ConfirmedInv
<1>1. ASSUME NEW r \in Requests
      PROVE  /\ Failed(r).status = "confirmed" => Failed(r).token = NoToken
             /\ row.status = "confirmed" => Failed(r) = row
  BY TokensDiffer DEF Failed, TypeOK, Rows
<1>2. ASSUME NEW r \in Requests, NEW fenced \in BOOLEAN
      PROVE  /\ Confirmed(r, fenced).status = "confirmed" => Confirmed(r, fenced).token = NoToken
             /\ row.status = "confirmed" => Confirmed(r, fenced).status = "confirmed"
  BY DEF Confirmed, TypeOK, Rows
<1>3. ASSUME NEW r \in Requests, Insert(r) \/ Reacquire(r)
      PROVE  /\ row'.status = "confirmed" => row'.token = NoToken
             /\ row.status = "confirmed" => row'.status = "confirmed"
  BY <1>3 DEF Insert, Reacquire, Reacquirable, Leased, TypeOK, Rows
<1>4. ASSUME NEW r \in Requests,
             \/ ReplayMark(r) \/ WatchMark(r) \/ LookupMark(r)
             \/ CreateMark(r) \/ RecheckMark(r) \/ FailMissing(r) \/ FailError(r)
      PROVE  /\ row'.status = "confirmed" => row'.token = NoToken
             /\ row.status = "confirmed" => row'.status = "confirmed"
  BY <1>1, <1>2, <1>4
  DEF ReplayMark, WatchMark, LookupMark, CreateMark, RecheckMark, FailMissing,
      FailError, Mark
<1>5. ASSUME UNCHANGED row
      PROVE  /\ row'.status = "confirmed" => row'.token = NoToken
             /\ row.status = "confirmed" => row'.status = "confirmed"
  BY <1>5
<1> QED
  BY <1>3, <1>4, <1>5
  DEF Next, Step, Start, Select, Reselect, ReplayById, ReplayBySource, Watch,
      Lookup, Create, Created, CreateFails, Recheck, Remap, Crash, Land,
      OtherMessage, DeleteConversation, Tick, vars

(* Every step keeps the lease with one holder at most.                     *)
LEMMA LeaseStep ==
  ASSUME LateLanding = FALSE, SendBudget <= StaleAfter,
         TypeOK, Timely, WireInv, GoneInv, LeaseInv, [Next]_vars
  PROVE  LeaseInv'
<1>1. CASE \E r \in Requests : Insert(r) \/ Reacquire(r)
  BY <1>1, AcquireStep
<1>2. CASE ~ \E r \in Requests : Insert(r) \/ Reacquire(r)
  <2>1. \A q \in Requests : Keeps(q)' => row'.status = "confirmed" \/ Holds(q)'
    BY <1>2, KeptRow
  <2>2. LeaseExclusive'
    BY <1>2, NoNewKeeper DEF LeaseInv, LeaseExclusive
  <2>3. row'.status = "confirmed" => row'.token = NoToken
    BY ConfirmedStep DEF LeaseInv, ConfirmedInv
  <2> QED
    BY <2>1, <2>2, <2>3 DEF LeaseInv
<1> QED
  BY <1>1, <1>2

LedgerInv == TypeOK /\ Timely /\ WireInv /\ GoneInv /\ LeaseInv

(* The inductive invariant of the lease holds in every behaviour.          *)
LEMMA LedgerInvariant ==
  ASSUME LateLanding = FALSE, SendBudget <= StaleAfter
  PROVE  Spec => []LedgerInv
<1>1. Init => LedgerInv
  <2> SUFFICES ASSUME Init PROVE LedgerInv
    OBVIOUS
  <2>1. TypeOK
    BY TypeInit
  <2> QED
    BY <2>1, TypeAssumption
    DEF Init, LedgerInv, Timely, WireInv, GoneInv, LeaseInv, LeaseExclusive,
        Keeps, MayPost, AbsentRow, TimedPCs, LeasePCs
<1>2. LedgerInv /\ [Next]_vars => LedgerInv'
  BY TypeStep, TimelyStep, WireStep, GoneStep, LeaseStep DEF LedgerInv
<1> QED
  BY <1>1, <1>2, PTL DEF Spec

(* Between reading the row and the end of its POST a request is the only   *)
(* one that may post for the key, if Chatwoot does not execute a POST the  *)
(* portal has given up on and the lease outlives the budget of its holder. *)
THEOREM OnlyOnePoster ==
  ASSUME LateLanding = FALSE, SendBudget <= StaleAfter
  PROVE  Spec => []LeaseExclusive
<1>1. LedgerInv => LeaseExclusive
  BY DEF LedgerInv, LeaseInv
<1> QED
  BY <1>1, LedgerInvariant, PTL

-----------------------------------------------------------------------------
(* A confirmed row has no token, so no fence can match it.                  *)
(* A confirmation is final, whatever Chatwoot and the clock do: the fence  *)
(* of the failure mark can no longer match, and the takeover excludes it.  *)
THEOREM ConfirmationIsFinal == Spec => ConfirmedForGood
<1>1. Init => ConfirmedInv
  BY TypeInit DEF Init, AbsentRow, ConfirmedInv
<1>2. ConfirmedInv /\ [Next]_vars => ConfirmedInv'
  BY ConfirmedStep, TypeStep DEF ConfirmedInv
<1>3. ConfirmedInv /\ [Next]_vars
      => [row.status = "confirmed" => row'.status = "confirmed"]_vars
  BY ConfirmedStep
<1> QED
  BY <1>1, <1>2, <1>3, PTL DEF Spec, ConfirmedForGood

-----------------------------------------------------------------------------
(* At most one visible message.                                            *)

(* A lookup of a live conversation finds the key if it is there at all.    *)
LEMMA LookupSees ==
  ASSUME MaxTraffic <= PageSize, TypeOK, PageInv, NEW c \in Conversations,
         c \notin gone, BySource(c) = NoMessage
  PROVE  Clean(c)
<1>1. Hits(c) = {}
  BY LookupTypes
<1>2. ASSUME NEW i \in DOMAIN log[c], OwnAt(c, i) PROVE FALSE
  <2>1. i \in Nat \ {0} /\ Len(log[c]) \in Nat /\ log[c] \in Seq(Entries)
    BY DEF TypeOK
  <2>2. Len(log[c]) <= MaxTraffic \/ Len(log[c]) = i
    BY <1>2 DEF PageInv
  <2>3. i + PageSize > Len(log[c])
    BY <2>1, <2>2, TypeAssumption
  <2> QED
    BY <1>1, <1>2, <2>3 DEF Hits, OwnAt
<1> QED
  BY <1>2 DEF Clean

(* No step of the portal touches the logs, the deletions or an old mapping.*)
LEMMA MappedStep ==
  ASSUME TypeOK, WireInv, GoneInv, MappedInv, [Next]_vars
  PROVE  MappedInv'
<1>0. mapped \in Nat /\ Conversations \subseteq Nat
  BY TypeAssumption DEF TypeOK, Conversations
<1>1. ASSUME NEW r \in Requests, Start(r) PROVE MappedInv'
  <2>1. \A q \in Requests : conv'[q] \in {conv[q], mapped}
    BY <1>1 DEF Start, BeginSend, TypeOK, local
  <2>2. log' = log /\ gone' = gone /\ mapped' = mapped
    BY <1>1 DEF Start, net
  <2> QED
    BY <1>0, <2>1, <2>2 DEF MappedInv
<1>2. ASSUME NEW r \in Requests, Remap(r) PROVE MappedInv'
  <2>1. mapped' = mapped \/ (mapped' = mapped + 1 /\ mapped \in gone)
    BY <1>2 DEF Remap, GoneInv
  <2>2. \A q \in Requests : conv'[q] \in {conv[q], mapped'}
    <3>1. CASE mapped # conv[r] /\ BeginSend(r, mapped, 2) /\ mapped' = mapped
      BY <3>1 DEF BeginSend, TypeOK
    <3>2. CASE BeginSend(r, mapped', 2)
      BY <3>2 DEF BeginSend, TypeOK
    <3>3. CASE UNCHANGED conv
      BY <3>3
    <3> QED
      BY <1>2, <3>1, <3>2, <3>3 DEF Remap, local
  <2>3. log' = log /\ gone' = gone
    BY <1>2 DEF Remap, net
  <2>4. ASSUME NEW c \in Conversations
        PROVE  /\ c < mapped' => c \in gone'
               /\ c > mapped' => log'[c] = <<>>
    <3>1. c \in Nat
      BY <1>0
    <3> QED
      BY <1>0, <2>1, <2>3, <3>1 DEF MappedInv
  <2>5. ASSUME NEW q \in Requests PROVE conv'[q] <= mapped'
    <3>1. conv[q] <= mapped /\ conv[q] \in Nat
      BY <1>0 DEF MappedInv, TypeOK
    <3> QED
      BY <1>0, <2>1, <2>2, <3>1
  <2> QED
    BY <2>4, <2>5 DEF MappedInv
<1>3. ASSUME NEW r \in Requests, Land(r) PROVE MappedInv'
  <2>1. conv[r] \in Conversations /\ conv[r] <= mapped
    BY DEF MappedInv, TypeOK
  <2>2. \A c \in Conversations : c > mapped => log'[c] = log[c]
    BY <1>3, <2>1 DEF Land, TypeOK, Conversations
  <2> QED
    BY <1>3, <2>2 DEF Land, MappedInv, local
<1>4. ASSUME OtherMessage PROVE MappedInv'
  <2>1. \A c \in Conversations : c > mapped => log'[c] = log[c]
    BY <1>4 DEF OtherMessage, TypeOK, Conversations
  <2> QED
    BY <1>4, <2>1 DEF OtherMessage, MappedInv, local
<1>5. ASSUME DeleteConversation PROVE MappedInv'
  BY <1>5 DEF DeleteConversation, MappedInv, local
<1>6. ASSUME UNCHANGED <<log, gone, mapped, conv>> PROVE MappedInv'
  BY <1>6 DEF MappedInv
<1> QED
  BY <1>1, <1>2, <1>3, <1>4, <1>5, <1>6
  DEF Next, Step, Insert, Reacquire, Select, Reselect, ReplayById,
      ReplayBySource, ReplayMark, Watch, WatchMark, Lookup, LookupMark, Create,
      Created, CreateFails, CreateMark, Recheck, RecheckMark, FailMissing,
      FailError, Crash, Tick, vars, net, local

(* What a landing and a message of somebody else do to a log.              *)
LEMMA LandEffect ==
  ASSUME TypeOK, NEW r \in Requests, Land(r), conv[r] \notin gone
  PROVE  /\ conv[r] \in Conversations
         /\ \A c \in Conversations : c # conv[r] => log'[c] = log[c]
         /\ Len(log[conv[r]]) \in Nat
         /\ Len(log'[conv[r]]) = Len(log[conv[r]]) + 1
         /\ DOMAIN log[conv[r]] = 1 .. Len(log[conv[r]])
         /\ DOMAIN log'[conv[r]] = 1 .. Len(log[conv[r]]) + 1
         /\ \A i \in DOMAIN log[conv[r]] : log'[conv[r]][i] = log[conv[r]][i]
<1>1. conv[r] \in Conversations /\ log[conv[r]] \in Seq(Entries)
  BY DEF TypeOK
<1>2. Own(PayloadOf[r]) \in Entries
  BY TypeAssumption DEF Entries
<1>3. log'[conv[r]] = Append(log[conv[r]], Own(PayloadOf[r]))
  BY <1>1 DEF Land, TypeOK
<1>4. \A c \in Conversations : c # conv[r] => log'[c] = log[c]
  BY <1>1 DEF Land, TypeOK
<1> QED
  BY <1>1, <1>2, <1>3, <1>4

(* A message of somebody else makes a log longer by an entry without the key.*)
LEMMA OtherEffect ==
  ASSUME TypeOK, OtherMessage
  PROVE  /\ mapped \in Conversations
         /\ \A c \in Conversations : c # mapped => log'[c] = log[c]
         /\ Len(log[mapped]) \in Nat
         /\ Len(log[mapped]) < MaxTraffic
         /\ Len(log'[mapped]) = Len(log[mapped]) + 1
         /\ DOMAIN log[mapped] = 1 .. Len(log[mapped])
         /\ DOMAIN log'[mapped] = 1 .. Len(log[mapped]) + 1
         /\ \A i \in DOMAIN log[mapped] : log'[mapped][i] = log[mapped][i]
         /\ log'[mapped][Len(log[mapped]) + 1] = Other
<1>1. mapped \in Conversations /\ log[mapped] \in Seq(Entries)
  BY DEF TypeOK
<1>2. Other \in Entries
  BY DEF Entries
<1>3. log'[mapped] = Append(log[mapped], Other)
  BY <1>1 DEF OtherMessage, TypeOK
<1>4. \A c \in Conversations : c # mapped => log'[c] = log[c]
  BY <1>1 DEF OtherMessage, TypeOK
<1> QED
  BY <1>1, <1>2, <1>3, <1>4 DEF OtherMessage

(* The steps of the portal itself write no log and delete nothing.         *)
LEMMA StepFrame ==
  ASSUME NEW r \in Requests, Step(r)
  PROVE  log' = log /\ gone' = gone
<1>1. CASE Start(r) \/ Insert(r) \/ Reacquire(r) \/ Select(r) \/ Reselect(r)
  BY <1>1 DEF Start, Insert, Reacquire, Select, Reselect, net
<1>2. CASE ReplayById(r) \/ ReplayBySource(r) \/ ReplayMark(r) \/ Watch(r) \/ WatchMark(r)
  BY <1>2 DEF ReplayById, ReplayBySource, ReplayMark, Watch, WatchMark, net
<1>3. CASE Lookup(r) \/ LookupMark(r) \/ CreateMark(r) \/ Recheck(r) \/ RecheckMark(r)
  BY <1>3 DEF Lookup, LookupMark, CreateMark, Recheck, RecheckMark, net
<1>4. CASE Create(r) \/ Created(r) \/ CreateFails(r)
  BY <1>4 DEF Create, Created, CreateFails
<1>5. CASE FailMissing(r) \/ FailError(r) \/ Remap(r)
  BY <1>5 DEF FailMissing, FailError, Remap, net
<1> QED
  BY <1>1, <1>2, <1>3, <1>4, <1>5 DEF Step

(* The two steps that write a log; every other step leaves the logs alone, *)
(* and no step brings a deleted conversation back.                         *)
LEMMA LogFrame ==
  ASSUME [Next]_vars
  PROVE  /\ gone \subseteq gone'
         /\ \/ log' = log
            \/ OtherMessage
            \/ \E r \in Requests : Land(r) /\ conv[r] \notin gone
<1>1. ASSUME NEW r \in Requests, Crash(r) PROVE log' = log /\ gone' = gone
  BY <1>1 DEF Crash, net
<1>2. ASSUME NEW r \in Requests, Land(r)
      PROVE  gone' = gone /\ (log' = log \/ conv[r] \notin gone)
  BY <1>2 DEF Land
<1>3. CASE OtherMessage
  BY <1>3 DEF OtherMessage
<1>4. CASE DeleteConversation \/ Tick \/ UNCHANGED vars
  BY <1>4 DEF DeleteConversation, Tick, vars, net
<1> QED
  BY <1>1, <1>2, <1>3, <1>4, StepFrame DEF Next

UniqueInv == MappedInv /\ PageInv /\ CleanInv /\ AtMostOnce

(* Only messages of the key are stored past MaxTraffic.                    *)
LEMMA PageStep ==
  ASSUME TypeOK, GoneInv, WireInv, LeaseInv, UniqueInv, [Next]_vars
  PROVE  PageInv'
<1>1. CASE log' = log
  BY <1>1 DEF UniqueInv, PageInv, OwnAt
<1>2. CASE OtherMessage
  BY <1>2, OtherEffect, TypeAssumption DEF UniqueInv, PageInv, OwnAt
<1>3. ASSUME NEW r \in Requests, Land(r), conv[r] \notin gone PROVE PageInv'
  <2>1. \A i \in DOMAIN log[conv[r]] : ~ OwnAt(conv[r], i)
    BY <1>3 DEF Land, UniqueInv, CleanInv, Posting, Clean
  <2>2. ASSUME NEW i \in DOMAIN log'[conv[r]], OwnAt(conv[r], i)'
        PROVE  Len(log'[conv[r]]) = i
    <3>1. i \in DOMAIN log[conv[r]] => OwnAt(conv[r], i)
      BY <1>3, <2>2, LandEffect DEF OwnAt, Land, local
    <3> QED
      BY <1>3, <2>1, <3>1, LandEffect
  <2>3. ASSUME NEW c \in Conversations, c # conv[r], NEW i \in DOMAIN log'[c],
               OwnAt(c, i)'
        PROVE  Len(log'[c]) <= MaxTraffic \/ Len(log'[c]) = i
    BY <1>3, <2>3, LandEffect DEF UniqueInv, PageInv, OwnAt
  <2>4. conv' = conv
    BY <1>3 DEF Land, local
  <2> QED
    BY <2>2, <2>3, <2>4 DEF PageInv
<1> QED
  BY <1>1, <1>2, <1>3, LogFrame

(* Posting begins with a lookup that found nothing; only the one poster    *)
(* can make a conversation unclean, and then it no longer posts.           *)
LEMMA CleanStep ==
  ASSUME LateLanding = FALSE, MaxTraffic <= PageSize, TypeOK, Timely, WireInv,
         GoneInv, LeaseInv, UniqueInv, [Next]_vars
  PROVE  CleanInv'
<1> SUFFICES ASSUME NEW q \in Requests, Posting(q)'
             PROVE  Clean(conv[q])' /\ conv'[q] = conv[q]
  BY DEF CleanInv, Clean, OwnAt
<1>1. ASSUME NEW r \in Requests, Lookup(r) PROVE Clean(conv[q])' /\ conv'[q] = conv[q]
  <2>1. UNCHANGED <<log, gone, wire, conv, clock, acquiredAt>>
    BY <1>1 DEF Lookup, net, local
  <2>2. Posting(q) \/ (q = r /\ BySource(conv[r]) = NoMessage)
    BY <1>1, <2>1 DEF Lookup, Goto, Posting, TypeOK
  <2>3. conv[q] \in Conversations
    BY DEF TypeOK
  <2>4. Clean(conv[q])
    BY <2>2, <2>3, LookupSees DEF UniqueInv, CleanInv, Clean
  <2> QED
    BY <2>1, <2>4 DEF Clean, OwnAt
<1>2. ASSUME NEW r \in Requests, Create(r)
      PROVE  Clean(conv[q])' /\ conv'[q] = conv[q]
  <2>1. UNCHANGED <<log, gone, conv, clock, acquiredAt>>
    BY <1>2 DEF Create, local
  <2>2. Posting(q)
    BY <1>2, <2>1 DEF Create, Goto, Posting, TypeOK
  <2> QED
    BY <2>1, <2>2 DEF UniqueInv, CleanInv, Clean, OwnAt
<1>3. ASSUME NEW r \in Requests, Land(r)
      PROVE  Clean(conv[q])' /\ conv'[q] = conv[q]
  <2>1. UNCHANGED <<gone, conv, pc, clock, acquiredAt>>
    BY <1>3 DEF Land, local
  <2>2. pc[r] \in {"awaiting", "crashed"} /\ MayPost(r)
    BY <1>3 DEF Land, WireInv, MayPost
  <2>3. wire'[r] \in {"landed", "refused"} /\ wire' = [wire EXCEPT ![r] = wire'[r]]
    BY <1>3 DEF Land, TypeOK
  <2>4. q # r /\ Posting(q)
    BY <2>1, <2>2, <2>3 DEF Posting, TypeOK
  <2>5. MayPost(q)
    BY <2>4 DEF Posting, MayPost
  <2> QED
    BY <2>2, <2>4, <2>5 DEF LeaseInv, LeaseExclusive
<1>4. ASSUME OtherMessage PROVE Clean(conv[q])' /\ conv'[q] = conv[q]
  <2>1. UNCHANGED <<gone, conv, pc, wire, clock, acquiredAt>>
    BY <1>4 DEF OtherMessage, local
  <2>2. Clean(conv[q]) /\ conv[q] \in Conversations
    BY <2>1 DEF Posting, UniqueInv, CleanInv, TypeOK
  <2> QED
    BY <1>4, <2>1, <2>2, OtherEffect DEF Clean, OwnAt
<1>5. ASSUME NEW r \in Requests, Start(r) \/ Remap(r)
      PROVE  Clean(conv[q])' /\ conv'[q] = conv[q]
  <2>1. UNCHANGED <<log, gone, wire, clock>> /\ wire[r] = "idle"
    BY <1>5 DEF Start, Remap, WireInv, TypeOK, net
  <2>2. pc'[r] # "create"
    BY <1>5 DEF Start, Remap, BeginSend, Throw, Reply, Goto, TypeOK
  <2>3. q # r
    BY <2>1, <2>2 DEF Posting
  <2>4. conv'[q] = conv[q] /\ acquiredAt'[q] = acquiredAt[q] /\ pc'[q] = pc[q]
    BY <1>5, <2>3 DEF Start, Remap, BeginSend, Throw, Reply, Goto, TypeOK, local
  <2>5. Posting(q)
    BY <2>1, <2>4 DEF Posting
  <2> QED
    BY <2>1, <2>4, <2>5 DEF UniqueInv, CleanInv, Clean, OwnAt
<1>6. ASSUME NEW r \in Requests,
             \/ Insert(r) \/ Select(r) \/ Reacquire(r) \/ Reselect(r)
             \/ ReplayById(r) \/ ReplayBySource(r) \/ ReplayMark(r)
             \/ Watch(r) \/ WatchMark(r) \/ LookupMark(r) \/ CreateMark(r)
             \/ Recheck(r) \/ RecheckMark(r) \/ FailMissing(r) \/ FailError(r)
             \/ Crash(r)
      PROVE  Clean(conv[q])' /\ conv'[q] = conv[q]
  <2>1. UNCHANGED <<log, gone, conv, wire, clock, acquiredAt>>
    BY <1>6
    DEF Insert, Reacquire, Select, Reselect, ReplayById, ReplayBySource,
        ReplayMark, Watch, WatchMark, LookupMark, CreateMark, Recheck,
        RecheckMark, FailMissing, FailError, Crash, net, local
  <2>2. pc'[q] = "create" => pc[q] = "create"
    BY <1>6
    DEF Insert, Reacquire, Select, Reselect, ReplayById, ReplayBySource,
        ReplayMark, Watch, WatchMark, LookupMark, CreateMark, Recheck,
        RecheckMark, FailMissing, FailError, Crash, Judge, Mark, Throw, Reply,
        Goto, TypeOK
  <2>3. Posting(q)
    BY <2>1, <2>2 DEF Posting
  <2> QED
    BY <2>1, <2>3 DEF UniqueInv, CleanInv, Clean, OwnAt
<1>7. ASSUME NEW r \in Requests, Created(r) \/ CreateFails(r)
      PROVE  Clean(conv[q])' /\ conv'[q] = conv[q]
  <2>1. UNCHANGED <<log, gone, conv, clock, acquiredAt>>
    BY <1>7 DEF Created, CreateFails, local
  <2>2. Posting(q)
    BY <1>7, <2>1 DEF Created, CreateFails, Goto, Posting, TypeOK
  <2> QED
    BY <2>1, <2>2 DEF UniqueInv, CleanInv, Clean, OwnAt
<1>8. ASSUME DeleteConversation \/ Tick \/ UNCHANGED vars
      PROVE  Clean(conv[q])' /\ conv'[q] = conv[q]
  <2>1. UNCHANGED <<log, conv, pc, wire, acquiredAt>> /\ gone \subseteq gone'
    BY <1>8 DEF DeleteConversation, Tick, vars, net, local
  <2>2. clock' \in {clock, clock + 1}
    BY <1>8 DEF DeleteConversation, Tick, vars
  <2>3. clock' <= acquiredAt[q] + SendBudget => clock <= acquiredAt[q] + SendBudget
    BY <2>2, TypeAssumption DEF TypeOK
  <2>4. Posting(q)
    BY <2>1, <2>3 DEF Posting
  <2> QED
    BY <2>1, <2>4 DEF UniqueInv, CleanInv, Clean, OwnAt
<1> QED
  BY <1>1, <1>2, <1>3, <1>4, <1>5, <1>6, <1>7, <1>8 DEF Next, Step

(* Every step keeps the invariant of the unique message.                   *)
LEMMA UniqueStep ==
  ASSUME TypeOK, GoneInv, WireInv, LeaseInv, UniqueInv, [Next]_vars
  PROVE  AtMostOnce'
<1>0. gone \subseteq gone'
  BY LogFrame
<1>1. CASE log' = log
  BY <1>0, <1>1 DEF UniqueInv, AtMostOnce, OwnAt
<1>2. CASE OtherMessage
  <2>1. ASSUME NEW c \in Conversations, NEW i \in DOMAIN log'[c], OwnAt(c, i)'
        PROVE  OwnAt(c, i)
    BY <1>2, <2>1, OtherEffect DEF OwnAt
  <2> QED
    BY <1>0, <2>1 DEF UniqueInv, AtMostOnce, OwnAt
<1>3. ASSUME NEW r \in Requests, Land(r), conv[r] \notin gone PROVE AtMostOnce'
  <2> DEFINE k == conv[r]
             n == Len(log[k]) + 1
  <2>1. \A i \in DOMAIN log[k] : ~ OwnAt(k, i)
    BY <1>3 DEF Land, UniqueInv, CleanInv, Posting, Clean
  <2>2. k = mapped
    BY <1>3 DEF UniqueInv, MappedInv, TypeOK, Conversations
  <2>3. \A c \in Conversations \ gone : c # k => log[c] = <<>>
    BY <2>2 DEF UniqueInv, MappedInv, TypeOK, Conversations
  <2>4. ASSUME NEW c \in Conversations \ gone', NEW i \in DOMAIN log'[c], OwnAt(c, i)'
        PROVE  c = k /\ i = n
    <3>1. c \in Conversations \ gone
      BY <1>0
    <3>2. c = k
      BY <1>3, <2>3, <2>4, <3>1, LandEffect DEF OwnAt
    <3>3. i \in DOMAIN log[k] => OwnAt(k, i)
      BY <1>3, <2>4, <3>2, LandEffect DEF OwnAt
    <3> QED
      BY <1>3, <2>1, <2>4, <3>2, <3>3, LandEffect
  <2> QED
    BY <2>4 DEF AtMostOnce
<1> QED
  BY <1>1, <1>2, <1>3, LogFrame

(* The inductive invariant of the unique message holds in every behaviour. *)
LEMMA UniqueInvariant ==
  ASSUME LateLanding = FALSE, SendBudget <= StaleAfter, MaxTraffic <= PageSize
  PROVE  Spec => []UniqueInv
<1>1. Init => UniqueInv
  BY TypeAssumption
  DEF Init, UniqueInv, MappedInv, PageInv, CleanInv, Posting, AtMostOnce, OwnAt,
      Conversations
<1>2. LedgerInv /\ UniqueInv /\ [Next]_vars => UniqueInv'
  BY MappedStep, PageStep, CleanStep, UniqueStep DEF LedgerInv, UniqueInv
<1> QED
  BY <1>1, <1>2, LedgerInvariant, PTL DEF Spec

(* However the requests of one key interleave, crash, time out and retry,  *)
(* and wherever the conversation is deleted, the customer's message is     *)
(* visible at most once: if Chatwoot executes no POST the portal gave up   *)
(* on, the lease outlives its holder's budget, and the page a source id is *)
(* looked up in is not overrun by other traffic.                           *)
THEOREM MessageIsUnique ==
  ASSUME LateLanding = FALSE, SendBudget <= StaleAfter, MaxTraffic <= PageSize
  PROVE  Spec => []AtMostOnce
<1>1. UniqueInv => AtMostOnce
  BY DEF UniqueInv
<1> QED
  BY <1>1, UniqueInvariant, PTL

-----------------------------------------------------------------------------
(* What is stored, and what is answered.                                   *)

\* The awaits of a request whose payload the row was compared with, and of one
\* that holds a message it has found, created, or read from the row.
BoundPCs == {"reacquire", "reselect", "remap"} \cup LeasePCs \cup FollowPCs
HoldingPCs == {"lookupMark", "createMark", "recheckMark", "replayById",
               "replayBySource", "replayMark", "watchMark"}

\* The key stands for the payload of its row, once there is one.
BodyInv ==
  /\ row.status = "absent" <=> row.payload = NoPayload
  /\ \A r \in Requests :
       /\ pc[r] \in BoundPCs \/ wire[r] # "idle" \/ answer[r] = "sent"
            => row.payload = PayloadOf[r]
       /\ pc[r] = "select" => row.status # "absent"
       /\ answer[r] # "none" => pc[r] = "done"
  /\ \A c \in Conversations : \A i \in DOMAIN log[c] :
       OwnAt(c, i) => row.status # "absent" /\ log[c][i] = Own(row.payload)

\* Every message a request or the row names was stored for the key.
MessageInv ==
  /\ row.status = "confirmed" => Posted(row.messageId, row.payload)
  /\ \A r \in Requests :
       \/ pc[r] \in HoldingPCs
       \/ pc[r] = "awaiting" /\ wire[r] = "landed"
       \/ answer[r] = "sent"
       => Posted(msg[r], row.payload)

(* A step of one request leaves the others where they are.                 *)
LEMMA OthersStand ==
  ASSUME TypeOK, NEW r \in Requests, Step(r) \/ Crash(r)
  PROVE  \A q \in Requests \ {r} :
           /\ pc'[q] = pc[q] /\ wire'[q] = wire[q]
           /\ msg'[q] = msg[q] /\ answer'[q] = answer[q]
<1>1. CASE Start(r) \/ Insert(r) \/ Select(r) \/ Reacquire(r) \/ Reselect(r)
  BY <1>1
  DEF Start, Insert, Select, Reacquire, Reselect, Judge, BeginSend, Throw, Reply,
      Goto, Hold, TypeOK, net
<1>2. CASE ReplayById(r) \/ ReplayBySource(r) \/ Watch(r) \/ Lookup(r) \/ Recheck(r)
  BY <1>2
  DEF ReplayById, ReplayBySource, Watch, Lookup, Recheck, Throw, Reply, Goto, Hold,
      TypeOK, net
<1>3. CASE ReplayMark(r) \/ WatchMark(r) \/ LookupMark(r) \/ CreateMark(r) \/ RecheckMark(r)
  BY <1>3
  DEF ReplayMark, WatchMark, LookupMark, CreateMark, RecheckMark, Mark, Reply, Goto,
      TypeOK, net
<1>4. CASE Create(r) \/ Created(r) \/ CreateFails(r) \/ Crash(r)
  BY <1>4 DEF Create, Created, CreateFails, Crash, Goto, TypeOK, net
<1>5. CASE FailMissing(r) \/ FailError(r) \/ Remap(r)
  BY <1>5 DEF FailMissing, FailError, Remap, BeginSend, Reply, Goto, TypeOK, net
<1> QED
  BY <1>1, <1>2, <1>3, <1>4, <1>5 DEF Step

(* A request whose payload was compared works on a row that exists.        *)
LEMMA BoundRow ==
  ASSUME TypeOK, BodyInv, NEW r \in Requests, pc[r] \in BoundPCs \/ wire[r] # "idle"
  PROVE  row.status # "absent" /\ row.payload = PayloadOf[r]
BY PayloadAssumption, TypeAssumption DEF BodyInv

(* Only the INSERT binds the key to a payload, and no step frees it.       *)
LEMMA BodyKept ==
  ASSUME TypeOK, BodyInv, [Next]_vars
  PROVE  \/ row'.payload = row.payload /\ (row'.status = "absent" <=> row.status = "absent")
         \/ \E r \in Requests : /\ Insert(r) /\ row.status = "absent"
                               /\ row'.status = "processing" /\ row'.payload = PayloadOf[r]
<1> DEFINE Same == row'.payload = row.payload /\ (row'.status = "absent" <=> row.status = "absent")
<1>0. row \in Rows
  BY DEF TypeOK
<1>1. ASSUME NEW r \in Requests, Insert(r), row.status = "absent"
      PROVE  Same \/ (row'.status = "processing" /\ row'.payload = PayloadOf[r])
  BY <1>0, <1>1 DEF Insert, Leased, Rows
<1>2. ASSUME NEW r \in Requests, Insert(r), row.status # "absent" PROVE Same
  BY <1>2 DEF Insert
<1>3. ASSUME NEW r \in Requests, Reacquire(r) PROVE Same
  BY <1>0, <1>3 DEF Reacquire, Reacquirable, Leased, Rows
<1>4. ASSUME NEW r \in Requests,
             \/ ReplayMark(r) \/ WatchMark(r) \/ LookupMark(r) \/ CreateMark(r)
             \/ RecheckMark(r) \/ FailMissing(r) \/ FailError(r)
      PROVE  Same
  <2>1. row' \in {row, Failed(r), Confirmed(r, TRUE), Confirmed(r, FALSE)}
    BY <1>4
    DEF ReplayMark, WatchMark, LookupMark, CreateMark, RecheckMark, FailMissing, FailError,
        Mark
  <2>2. pc[r] \in BoundPCs
    BY <1>4
    DEF ReplayMark, WatchMark, LookupMark, CreateMark, RecheckMark, FailMissing, FailError,
        BoundPCs, LeasePCs, FollowPCs
  <2>3. \A x \in {Failed(r), Confirmed(r, TRUE), Confirmed(r, FALSE)} :
          x.payload = row.payload /\ (x = row \/ x.status \in {"failed", "confirmed"})
    BY <1>0 DEF Failed, Confirmed, Rows
  <2> QED
    BY <2>1, <2>2, <2>3, BoundRow
<1>5. ASSUME UNCHANGED row PROVE Same
  BY <1>5
<1> QED
  BY <1>1, <1>2, <1>3, <1>4, <1>5
  DEF Next, Step, Start, Select, Reselect, ReplayById, ReplayBySource, Watch,
      Lookup, Create, Created, CreateFails, Recheck, Remap, Crash, Land,
      OtherMessage, DeleteConversation, Tick, vars

(* Whatever a log holds it keeps; what is new in it is one entry, a        *)
(* message of the key only if a POST has landed.                           *)
LEMMA LogGrows ==
  ASSUME TypeOK, [Next]_vars, NEW c \in Conversations
  PROVE  /\ \A i \in DOMAIN log[c] : i \in DOMAIN log'[c] /\ log'[c][i] = log[c][i]
         /\ \A i \in DOMAIN log'[c] :
              \/ i \in DOMAIN log[c]
              \/ log'[c][i] = Other
              \/ \E r \in Requests : wire[r] = "sent" /\ log'[c][i] = Own(PayloadOf[r])
<1>1. CASE log' = log
  BY <1>1
<1>2. CASE OtherMessage
  <2>1. CASE c # mapped
    BY <1>2, <2>1, OtherEffect
  <2>2. CASE c = mapped
    BY <1>2, <2>2, OtherEffect
  <2> QED
    BY <2>1, <2>2
<1>3. ASSUME NEW r \in Requests, Land(r), conv[r] \notin gone
      PROVE  /\ \A i \in DOMAIN log[c] : i \in DOMAIN log'[c] /\ log'[c][i] = log[c][i]
             /\ \A i \in DOMAIN log'[c] :
                  \/ i \in DOMAIN log[c]
                  \/ wire[r] = "sent" /\ log'[c][i] = Own(PayloadOf[r])
  <2>1. wire[r] = "sent" /\ log[c] \in Seq(Entries)
    BY <1>3 DEF Land, TypeOK
  <2>2. CASE c # conv[r]
    BY <1>3, <2>2, LandEffect
  <2>3. CASE c = conv[r]
    <3>1. log'[c] = Append(log[c], Own(PayloadOf[r]))
      BY <1>3, <2>3 DEF Land, TypeOK
    <3>2. log'[c][Len(log[c]) + 1] = Own(PayloadOf[r])
      BY <2>1, <3>1
    <3>3. /\ Len(log[c]) \in Nat
          /\ DOMAIN log[c] = 1 .. Len(log[c])
          /\ DOMAIN log'[c] = 1 .. Len(log[c]) + 1
          /\ \A i \in DOMAIN log[c] : log'[c][i] = log[c][i]
      BY <1>3, <2>3, LandEffect
    <3>4. \A i \in 1 .. Len(log[c]) + 1 : i \in 1 .. Len(log[c]) \/ i = Len(log[c]) + 1
      BY <3>3
    <3> QED
      BY <2>1, <3>2, <3>3, <3>4
  <2> QED
    BY <2>2, <2>3
<1> QED
  BY <1>1, <1>2, <1>3, LogFrame

(* What was posted stays posted.                                           *)
LEMMA PostedStays ==
  ASSUME TypeOK, [Next]_vars, NEW m, NEW p, Posted(m, p)
  PROVE  Posted(m, p)'
BY LogGrows DEF Posted

(* A lookup finds a message of the key.                                    *)
LEMMA FoundIsPosted ==
  ASSUME TypeOK, BodyInv, NEW c \in Conversations, BySource(c) # NoMessage
  PROVE  Posted(BySource(c), row.payload)
BY LookupTypes DEF BodyInv, Posted, Hits, OwnAt

(* One step of one request, and where it stands then.                      *)
LEMMA BodyMoves ==
  ASSUME TypeOK, BodyInv, NEW r \in Requests, Step(r) \/ Crash(r)
  PROVE  /\ pc'[r] \in BoundPCs \/ wire'[r] # "idle" \/ answer'[r] = "sent"
              => row'.payload = PayloadOf[r]
         /\ pc'[r] = "select" => row'.status # "absent"
         /\ answer'[r] # "none" => pc'[r] = "done"
<1>0. row \in Rows /\ (answer[r] = "none" \/ pc[r] = "done")
  BY DEF TypeOK, BodyInv
<1>1. CASE Insert(r)
  <2>1. pc'[r] \in {"lookup", "select", "done"} /\ wire'[r] = wire[r]
        /\ answer'[r] # "sent" /\ (answer'[r] # "none" => pc'[r] = "done")
    BY <1>0, <1>1 DEF Insert, Reply, Goto, TypeOK, net
  <2>2. pc'[r] = "lookup" => row'.payload = PayloadOf[r]
    BY <1>0, <1>1 DEF Insert, Reply, Goto, Leased, Rows, TypeOK
  <2>3. pc'[r] = "select" => row' = row /\ row.status # "absent"
    BY <1>1 DEF Insert, Reply, Goto, TypeOK
  <2>4. wire[r] # "idle" => row'.payload = PayloadOf[r]
    BY <1>1, BoundRow DEF Insert
  <2>5. "done" \notin BoundPCs /\ "select" \notin BoundPCs
    BY DEF BoundPCs, LeasePCs, FollowPCs
  <2> QED
    BY <2>1, <2>2, <2>3, <2>4, <2>5
<1>2. CASE Select(r) \/ Reselect(r)
  <2>1. row' = row /\ wire' = wire
    BY <1>2 DEF Select, Reselect, net
  <2>2. /\ answer'[r] # "none" => pc'[r] = "done"
        /\ answer'[r] # "sent" /\ pc'[r] # "select"
        /\ pc'[r] \in BoundPCs => row.payload = PayloadOf[r]
    BY <1>0, <1>2
    DEF Select, Reselect, Judge, Throw, Reply, Goto, TypeOK, BoundPCs, LeasePCs, FollowPCs
  <2> QED
    BY <2>1, <2>2 DEF BodyInv
<1>3. CASE Start(r) \/ Remap(r)
  <2>1. row' = row /\ wire' = wire
    BY <1>3 DEF Start, Remap, net
  <2>2. /\ answer'[r] # "none" => pc'[r] = "done"
        /\ answer'[r] # "sent" /\ pc'[r] \in {"insert", "done"}
    BY <1>0, <1>3 DEF Start, Remap, BeginSend, Throw, Reply, Goto, TypeOK
  <2>3. "done" \notin BoundPCs /\ "insert" \notin BoundPCs
    BY DEF BoundPCs, LeasePCs, FollowPCs
  <2> QED
    BY <2>1, <2>2, <2>3 DEF BodyInv
<1>4. CASE ~ (Insert(r) \/ Select(r) \/ Reselect(r) \/ Start(r) \/ Remap(r) \/ Crash(r))
  <2>1. pc[r] \in BoundPCs
    BY <1>4
    DEF Step, Reacquire, ReplayById, ReplayBySource, ReplayMark, Watch, WatchMark, Lookup,
        LookupMark, Create, Created, CreateFails, CreateMark, Recheck, RecheckMark,
        FailMissing, FailError, BoundPCs, LeasePCs, FollowPCs
  <2>2. row'.payload = row.payload
    <3>1. [Next]_vars
      BY DEF Next
    <3> QED
      BY <2>1, <3>1, BodyKept, BoundRow
  <2>3. pc'[r] # "select"
    BY <1>4
    DEF Step, Reacquire, ReplayById, ReplayBySource, ReplayMark, Watch, WatchMark, Lookup,
        LookupMark, Create, Created, CreateFails, CreateMark, Recheck, RecheckMark,
        FailMissing, FailError, Mark, Throw, Reply, Goto, TypeOK
  <2>4. answer'[r] # "none" => pc'[r] = "done"
    BY <1>0, <1>4
    DEF Step, Reacquire, ReplayById, ReplayBySource, ReplayMark, Watch, WatchMark, Lookup,
        LookupMark, Create, Created, CreateFails, CreateMark, Recheck, RecheckMark,
        FailMissing, FailError, Mark, Throw, Reply, Goto, TypeOK
  <2> QED
    BY <2>1, <2>2, <2>3, <2>4, BoundRow
<1>5. CASE Crash(r)
  BY <1>0, <1>5 DEF Crash, Goto, TypeOK, BoundPCs, LeasePCs, FollowPCs, BodyInv, net
<1> QED
  BY <1>1, <1>2, <1>3, <1>4, <1>5

(* Every step keeps the key bound to one payload.                          *)
LEMMA BodyStep ==
  ASSUME TypeOK, BodyInv, [Next]_vars
  PROVE  BodyInv'
<1>1. row'.status = "absent" <=> row'.payload = NoPayload
  BY BodyKept, PayloadAssumption, TypeAssumption DEF BodyInv
<1>2. row.status # "absent" => row'.status # "absent" /\ row'.payload = row.payload
  BY BodyKept
<1>3. ASSUME NEW q \in Requests
      PROVE  /\ pc'[q] \in BoundPCs \/ wire'[q] # "idle" \/ answer'[q] = "sent"
                  => row'.payload = PayloadOf[q]
             /\ pc'[q] = "select" => row'.status # "absent"
             /\ answer'[q] # "none" => pc'[q] = "done"
  <2>0. /\ pc[q] \in BoundPCs \/ wire[q] # "idle" \/ answer[q] = "sent"
             => row.payload = PayloadOf[q] /\ row.status # "absent"
        /\ pc[q] = "select" => row.status # "absent"
        /\ answer[q] # "none" => pc[q] = "done"
    BY PayloadAssumption, TypeAssumption DEF BodyInv
  <2>1. ASSUME NEW r \in Requests, Step(r) \/ Crash(r), q = r
        PROVE  /\ pc'[q] \in BoundPCs \/ wire'[q] # "idle" \/ answer'[q] = "sent"
                    => row'.payload = PayloadOf[q]
               /\ pc'[q] = "select" => row'.status # "absent"
               /\ answer'[q] # "none" => pc'[q] = "done"
    BY <2>1, BodyMoves
  <2>2. ASSUME NEW r \in Requests, Step(r) \/ Crash(r), q # r
        PROVE  pc'[q] = pc[q] /\ wire'[q] = wire[q] /\ answer'[q] = answer[q]
    BY <2>2, OthersStand
  <2>3. ASSUME NEW r \in Requests, Land(r)
        PROVE  pc'[q] = pc[q] /\ (wire'[q] # "idle" => wire[q] # "idle") /\ answer'[q] = answer[q]
    BY <2>3 DEF Land, TypeOK
  <2>4. ASSUME OtherMessage \/ DeleteConversation \/ Tick \/ UNCHANGED vars
        PROVE  pc'[q] = pc[q] /\ wire'[q] = wire[q] /\ answer'[q] = answer[q]
    BY <2>4 DEF OtherMessage, DeleteConversation, Tick, vars, net
  <2> QED
    BY <1>2, <2>0, <2>1, <2>2, <2>3, <2>4 DEF Next
<1>4. ASSUME NEW c \in Conversations, NEW i \in DOMAIN log'[c], OwnAt(c, i)'
      PROVE  row'.status # "absent" /\ log'[c][i] = Own(row'.payload)
  <2>1. log'[c][i] # Other
    BY <1>4 DEF OwnAt
  <2>2. CASE i \in DOMAIN log[c]
    BY <1>2, <2>1, <2>2, LogGrows DEF BodyInv, OwnAt
  <2>3. CASE i \notin DOMAIN log[c]
    <3>1. PICK r \in Requests : wire[r] = "sent" /\ log'[c][i] = Own(PayloadOf[r])
      BY <2>1, <2>3, LogGrows
    <3> QED
      BY <1>2, <3>1, BoundRow
  <2> QED
    BY <2>2, <2>3
<1> QED
  BY <1>1, <1>3, <1>4 DEF BodyInv

(* Whatever message a step of a request takes up or answers was posted.    *)
LEMMA MessageMoves ==
  ASSUME TypeOK, BodyInv, MessageInv, NEW r \in Requests, Step(r) \/ Crash(r)
  PROVE  \/ pc'[r] \in HoldingPCs
         \/ pc'[r] = "awaiting" /\ wire'[r] = "landed"
         \/ answer'[r] = "sent"
         => Posted(msg'[r], row.payload) /\ row.status # "absent"
<1> DEFINE Goal == \/ pc'[r] \in HoldingPCs
                   \/ pc'[r] = "awaiting" /\ wire'[r] = "landed"
                   \/ answer'[r] = "sent"
                   => Posted(msg'[r], row.payload) /\ row.status # "absent"
<1>0. /\ answer[r] = "none" \/ pc[r] = "done"
      /\ pc[r] = "done" \/ answer[r] # "sent"
  BY DEF BodyInv
<1>1. CASE \/ Start(r) \/ Insert(r) \/ Reacquire(r) \/ Remap(r) \/ Create(r)
           \/ CreateFails(r) \/ FailMissing(r) \/ FailError(r) \/ Crash(r)
  <2>1. /\ pc'[r] \notin HoldingPCs
        /\ pc'[r] = "awaiting" => wire'[r] = "sent"
        /\ answer'[r] # "sent"
    BY <1>0, <1>1
    DEF Start, Insert, Reacquire, Remap, Create, CreateFails, FailMissing, FailError, Crash,
        BeginSend, Throw, Reply, Goto, TypeOK, HoldingPCs, net
  <2> QED
    BY <2>1
<1>2. CASE Select(r) \/ Reselect(r)
  <2>1. /\ pc'[r] = "replayById" => row.status = "confirmed" /\ msg'[r] = row.messageId
        /\ pc'[r] \in {"replayById", "reacquire", "watch", "done"} /\ answer'[r] # "sent"
    BY <1>0, <1>2 DEF Select, Reselect, Judge, Throw, Reply, Goto, Hold, TypeOK
  <2> QED
    BY <2>1 DEF MessageInv, HoldingPCs
<1>3. CASE ReplayBySource(r) \/ Watch(r) \/ Lookup(r) \/ Recheck(r)
  <2>1. pc[r] \in BoundPCs /\ conv[r] \in Conversations
    BY <1>3
    DEF ReplayBySource, Watch, Lookup, Recheck, BoundPCs, LeasePCs, FollowPCs, TypeOK
  <2>2. pc'[r] \in HoldingPCs \/ answer'[r] = "sent" =>
           BySource(conv[r]) # NoMessage /\ msg'[r] = BySource(conv[r])
    BY <1>0, <1>3
    DEF ReplayBySource, Watch, Lookup, Recheck, Throw, Reply, Goto, Hold, TypeOK, HoldingPCs
  <2>3. pc'[r] # "awaiting"
    BY <1>3 DEF ReplayBySource, Watch, Lookup, Recheck, Throw, Reply, Goto, TypeOK
  <2> QED
    BY <2>1, <2>2, <2>3, FoundIsPosted, BoundRow
<1>4. CASE \/ ReplayById(r) \/ ReplayMark(r) \/ WatchMark(r) \/ LookupMark(r)
           \/ CreateMark(r) \/ RecheckMark(r)
  <2>1. /\ pc[r] \in HoldingPCs /\ pc[r] \in BoundPCs /\ msg' = msg
        /\ pc'[r] # "awaiting"
    BY <1>4
    DEF ReplayById, ReplayMark, WatchMark, LookupMark, CreateMark, RecheckMark, Mark, Reply,
        Goto, TypeOK, HoldingPCs, BoundPCs, LeasePCs, FollowPCs
  <2> QED
    BY <2>1, BoundRow DEF MessageInv
<1>5. CASE Created(r)
  <2>1. /\ pc[r] = "awaiting" /\ pc'[r] \in {"createMark", "failMissing"} /\ msg' = msg
        /\ pc'[r] = "createMark" => wire[r] = "landed"
        /\ answer'[r] # "sent"
    BY <1>0, <1>5 DEF Created, Goto, TypeOK
  <2>2. pc[r] \in BoundPCs
    BY <2>1 DEF BoundPCs, LeasePCs
  <2> QED
    BY <2>1, <2>2, BoundRow DEF MessageInv, HoldingPCs
<1> QED
  BY <1>1, <1>2, <1>3, <1>4, <1>5 DEF Step

(* A row is confirmed with the message its request holds.                  *)
LEMMA ConfirmingRow ==
  ASSUME TypeOK, BodyInv, MessageInv, [Next]_vars, row'.status = "confirmed"
  PROVE  Posted(row'.messageId, row.payload)
<1>0. row \in Rows
  BY DEF TypeOK
<1>1. ASSUME NEW r \in Requests, Insert(r) \/ Reacquire(r)
      PROVE  Posted(row'.messageId, row.payload)
  BY <1>0, <1>1 DEF Insert, Reacquire, Leased, Rows, MessageInv
<1>2. ASSUME NEW r \in Requests,
             \/ ReplayMark(r) \/ WatchMark(r) \/ LookupMark(r) \/ CreateMark(r)
             \/ RecheckMark(r)
      PROVE  Posted(row'.messageId, row.payload)
  <2>1. /\ pc[r] \in HoldingPCs
        /\ row' \in {row, Confirmed(r, TRUE), Confirmed(r, FALSE)}
    BY <1>2
    DEF ReplayMark, WatchMark, LookupMark, CreateMark, RecheckMark, Mark, HoldingPCs
  <2>2. row' = row \/ row'.messageId = msg[r]
    BY <1>0, <2>1 DEF Confirmed, Rows
  <2> QED
    BY <2>1, <2>2 DEF MessageInv
<1>3. ASSUME NEW r \in Requests, FailMissing(r) \/ FailError(r)
      PROVE  Posted(row'.messageId, row.payload)
  BY <1>0, <1>3 DEF FailMissing, FailError, Failed, Rows, MessageInv
<1>4. ASSUME UNCHANGED row PROVE Posted(row'.messageId, row.payload)
  BY <1>4 DEF MessageInv
<1> QED
  BY <1>1, <1>2, <1>3, <1>4
  DEF Next, Step, Start, Select, Reselect, ReplayById, ReplayBySource, Watch,
      Lookup, Create, Created, CreateFails, Recheck, Remap, Crash, Land,
      OtherMessage, DeleteConversation, Tick, vars

(* Every step keeps what the requests and the row name stored.             *)
LEMMA MessageStep ==
  ASSUME TypeOK, BodyInv, MessageInv, [Next]_vars
  PROVE  MessageInv'
<1>0. ASSUME NEW m, NEW p, Posted(m, p)
      PROVE  /\ m[1] \in Conversations
             /\ m[2] \in DOMAIN log'[m[1]]
             /\ log'[m[1]][m[2]] = Own(p)
  BY <1>0, PostedStays DEF Posted
<1>1. row.status # "absent" => row'.payload = row.payload
  BY BodyKept
<1>2. (row.status = "confirmed" => Posted(row.messageId, row.payload))'
  <2>1. ASSUME row'.status = "confirmed"
        PROVE  row'.payload = row.payload /\ Posted(row'.messageId, row.payload)
    BY <2>1, BodyKept, ConfirmingRow
  <2> QED
    BY <1>0, <2>1 DEF Posted
<1>3. ASSUME NEW q \in Requests,
             \/ pc'[q] \in HoldingPCs
             \/ pc'[q] = "awaiting" /\ wire'[q] = "landed"
             \/ answer'[q] = "sent"
      PROVE  Posted(msg[q], row.payload)'
  <2>1. ASSUME Posted(msg'[q], row.payload), row.status # "absent"
        PROVE  Posted(msg[q], row.payload)'
    BY <1>0, <1>1, <2>1 DEF Posted
  <2>2. ASSUME \/ pc[q] \in HoldingPCs
               \/ pc[q] = "awaiting" /\ wire[q] = "landed"
               \/ answer[q] = "sent"
        PROVE  Posted(msg[q], row.payload) /\ row.status # "absent"
    <3>1. pc[q] \in BoundPCs \/ wire[q] # "idle" \/ answer[q] = "sent"
      BY <2>2 DEF BoundPCs, HoldingPCs, LeasePCs, FollowPCs
    <3> QED
      BY <2>2, <3>1, PayloadAssumption, TypeAssumption DEF MessageInv, BodyInv
  <2>3. ASSUME NEW r \in Requests, Step(r) \/ Crash(r)
        PROVE  Posted(msg[q], row.payload)'
    <3>1. CASE q = r
      BY <1>3, <2>1, <2>3, <3>1, MessageMoves
    <3>2. CASE q # r
      BY <1>3, <2>1, <2>2, <2>3, <3>2, OthersStand
    <3> QED
      BY <3>1, <3>2
  <2>4. ASSUME NEW r \in Requests, Land(r)
        PROVE  Posted(msg[q], row.payload)'
    <3>0. /\ UNCHANGED <<pc, answer, row>>
          /\ wire[r] = "sent" /\ wire' = [wire EXCEPT ![r] = wire'[r]]
      BY <2>4 DEF Land, TypeOK
    <3>1. CASE q = r /\ pc[r] = "awaiting"
      <4>1. answer[r] # "sent"
        BY <3>1 DEF BodyInv
      <4>2. conv[r] \notin gone
        BY <1>3, <2>4, <3>0, <3>1, <4>1 DEF Land, HoldingPCs, TypeOK
      <4>3. /\ log' = [log EXCEPT ![conv[r]] = Append(@, Own(PayloadOf[r]))]
            /\ msg'[q] = <<conv[r], Len(log'[conv[r]])>>
        BY <2>4, <3>1, <4>2 DEF Land, TypeOK
      <4>4. conv[r] \in Conversations /\ log[conv[r]] \in Seq(Entries)
        BY DEF TypeOK
      <4>5. log'[conv[r]] = Append(log[conv[r]], Own(PayloadOf[r]))
        BY <4>3, <4>4 DEF TypeOK
      <4>6. /\ Len(log'[conv[r]]) \in DOMAIN log'[conv[r]]
            /\ log'[conv[r]][Len(log'[conv[r]])] = Own(PayloadOf[r])
        BY <4>4, <4>5
      <4>7. row'.payload = PayloadOf[r]
        BY <3>0 DEF BodyInv
      <4> QED
        BY <4>3, <4>4, <4>6, <4>7 DEF Posted
    <3>2. CASE ~ (q = r /\ pc[r] = "awaiting")
      <4>1. msg'[q] = msg[q]
        BY <2>4, <3>2 DEF Land, TypeOK
      <4>2. \/ pc[q] \in HoldingPCs
            \/ pc[q] = "awaiting" /\ wire[q] = "landed"
            \/ answer[q] = "sent"
        BY <1>3, <3>0, <3>2 DEF TypeOK
      <4> QED
        BY <2>1, <2>2, <4>1, <4>2
    <3> QED
      BY <3>1, <3>2
  <2>5. ASSUME OtherMessage \/ DeleteConversation \/ Tick \/ UNCHANGED vars
        PROVE  Posted(msg[q], row.payload)'
    <3>1. UNCHANGED <<pc, wire, answer, msg>>
      BY <2>5 DEF OtherMessage, DeleteConversation, Tick, vars, net
    <3> QED
      BY <1>3, <2>1, <2>2, <3>1
  <2> QED
    BY <2>3, <2>4, <2>5 DEF Next
<1> QED
  BY <1>2, <1>3 DEF MessageInv

StoredInv == TypeOK /\ BodyInv /\ MessageInv

(* The key stands for one payload and every message named is stored.       *)
LEMMA StoredInvariant == Spec => []StoredInv
<1>1. Init => StoredInv
  <2> SUFFICES ASSUME Init PROVE StoredInv
    OBVIOUS
  <2>1. TypeOK
    BY TypeInit
  <2>2. /\ row.status = "absent" /\ row.payload = NoPayload
        /\ \A r \in Requests : pc[r] = "start" /\ wire[r] = "idle" /\ answer[r] = "none"
        /\ \A c \in Conversations : log[c] = <<>>
    BY DEF Init, AbsentRow
  <2> QED
    BY <2>1, <2>2
    DEF StoredInv, BodyInv, MessageInv, BoundPCs, HoldingPCs, LeasePCs, FollowPCs, OwnAt
<1>2. StoredInv /\ [Next]_vars => StoredInv'
  BY TypeStep, BodyStep, MessageStep DEF StoredInv
<1> QED
  BY <1>1, <1>2, PTL DEF Spec

(* A confirmed row names a message Chatwoot stored with the payload of the *)
(* row, whoever wrote the mark, and also where Chatwoot lands late: no     *)
(* assumption on the budgets is needed.                                    *)
THEOREM ConfirmationNamesMessage == Spec => []ConfirmedNamesMessage
<1>1. StoredInv => ConfirmedNamesMessage
  BY DEF StoredInv, MessageInv, ConfirmedNamesMessage
<1> QED
  BY <1>1, StoredInvariant, PTL

(* A request that takes up a confirmed message, or answers "sent", leaves  *)
(* the row confirmed: its fenced mark can only miss a row that another     *)
(* request has confirmed already.                                          *)
LEMMA SentMoves ==
  ASSUME TypeOK, LeaseInv, BodyInv, ReplayInv, NEW r \in Requests, Step(r) \/ Crash(r),
         \/ pc'[r] \in {"replayById", "replayBySource", "replayMark"}
         \/ answer'[r] = "sent"
  PROVE  row'.status = "confirmed"
<1>0. row \in Rows /\ (answer[r] = "none" \/ pc[r] = "done")
  BY DEF TypeOK, BodyInv
<1>1. CASE \/ Start(r) \/ Insert(r) \/ Reacquire(r) \/ Remap(r) \/ Lookup(r)
           \/ Create(r) \/ Created(r) \/ CreateFails(r) \/ Recheck(r) \/ FailMissing(r)
           \/ FailError(r) \/ Watch(r) \/ Crash(r)
  BY <1>0, <1>1
  DEF Start, Insert, Reacquire, Remap, Lookup, Create, Created, CreateFails, Recheck,
      FailMissing, FailError, Watch, Crash, BeginSend, Throw, Reply, Goto, TypeOK
<1>2. CASE Select(r) \/ Reselect(r)
  BY <1>0, <1>2 DEF Select, Reselect, Judge, Throw, Reply, Goto, TypeOK
<1>3. CASE ReplayById(r) \/ ReplayBySource(r) \/ ReplayMark(r)
  <2>1. row.status = "confirmed"
    BY <1>3 DEF ReplayById, ReplayBySource, ReplayMark, ReplayInv
  <2>2. row' = row \/ row' = Confirmed(r, FALSE)
    BY <1>3 DEF ReplayById, ReplayBySource, ReplayMark, Mark
  <2> QED
    BY <1>0, <2>1, <2>2 DEF Confirmed, Rows
<1>4. CASE WatchMark(r)
  <2>1. row' = Confirmed(r, FALSE)
    BY <1>0, <1>4 DEF WatchMark, Mark, Reply, Goto, TypeOK
  <2> QED
    BY <1>0, <2>1 DEF Confirmed, Rows
<1>5. CASE LookupMark(r) \/ CreateMark(r) \/ RecheckMark(r)
  <2>1. row' = Confirmed(r, TRUE)
    BY <1>0, <1>5 DEF LookupMark, CreateMark, RecheckMark, Mark, Reply, Goto, TypeOK
  <2>2. row.status = "confirmed" \/ row.token = TokenOf(r)
    BY <1>5 DEF LookupMark, CreateMark, RecheckMark, LeaseInv, Keeps, Holds
  <2> QED
    BY <1>0, <2>1, <2>2 DEF Confirmed, Rows
<1> QED
  BY <1>1, <1>2, <1>3, <1>4, <1>5 DEF Step

(* No step answers "sent" before the row is confirmed.                     *)
LEMMA ReplayStep ==
  ASSUME TypeOK, LeaseInv, BodyInv, ReplayInv, [Next]_vars
  PROVE  ReplayInv'
<1>1. row.status = "confirmed" => row'.status = "confirmed"
  BY ConfirmedStep DEF ConfirmedInv, LeaseInv
<1>2. ASSUME NEW q \in Requests,
             \/ pc'[q] \in {"replayById", "replayBySource", "replayMark"}
             \/ answer'[q] = "sent"
      PROVE  row'.status = "confirmed"
  <2>1. ASSUME NEW r \in Requests, Step(r) \/ Crash(r) PROVE row'.status = "confirmed"
    BY <1>1, <1>2, <2>1, SentMoves, OthersStand DEF ReplayInv
  <2>2. ASSUME UNCHANGED <<pc, answer>> PROVE row'.status = "confirmed"
    BY <1>1, <1>2, <2>2 DEF ReplayInv
  <2> QED
    BY <2>1, <2>2 DEF Next, Land, OtherMessage, DeleteConversation, Tick, vars
<1> QED
  BY <1>2 DEF ReplayInv

(* The lease, the stored messages and the answers together.                *)
LEMMA AnswersInvariant ==
  ASSUME LateLanding = FALSE, SendBudget <= StaleAfter
  PROVE  Spec => [](LedgerInv /\ StoredInv /\ ReplayInv)
<1>1. Init => ReplayInv
  BY DEF Init, ReplayInv
<1>2. LedgerInv /\ StoredInv /\ ReplayInv /\ [Next]_vars => ReplayInv'
  BY ReplayStep DEF LedgerInv, StoredInv
<1> QED
  BY <1>1, <1>2, LedgerInvariant, StoredInvariant, PTL DEF Spec

(* "Sent" is only ever answered with a message that is stored, carries the *)
(* payload of that very request, and can no longer be sent again.          *)
THEOREM SentIsTrue ==
  ASSUME LateLanding = FALSE, SendBudget <= StaleAfter
  PROVE  Spec => []AnswerIsTrue
<1>1. StoredInv /\ ReplayInv => AnswerIsTrue
  BY DEF StoredInv, MessageInv, BodyInv, ReplayInv, AnswerIsTrue
<1> QED
  BY <1>1, AnswersInvariant, PTL

-----------------------------------------------------------------------------
(* The ledger implements IdempotentSend.                                   *)

(* The history consists of the places that carry the key.                  *)
LEMMA HistoryIs ==
  \A m : m \in History <=> \E c \in Conversations : \E i \in DOMAIN log[c] :
                              OwnAt(c, i) /\ m = <<c, i>>
BY DEF History, OwnAt

(* A stored message is in the history.                                     *)
LEMMA PostedIsHistory ==
  ASSUME NEW m, NEW p, Posted(m, p)
  PROVE  History # {}
<1>1. Own(p) # Other
  BY DEF Own, Other
<1>2. OwnAt(m[1], m[2]) /\ m[1] \in Conversations /\ m[2] \in DOMAIN log[m[1]]
  BY <1>1 DEF Posted, OwnAt
<1> QED
  BY <1>2, HistoryIs

(* Only a landing adds to the history, and it adds one new message.        *)
LEMMA HistoryMoves ==
  ASSUME TypeOK, [Next]_vars
  PROVE  \/ History' = History
         \/ \E r \in Requests :
              /\ Land(r) /\ conv[r] \notin gone
              /\ <<conv[r], Len(log[conv[r]]) + 1>> \notin History
              /\ History' = History \cup {<<conv[r], Len(log[conv[r]]) + 1>>}
<1> DEFINE InLater(m) == \E c \in Conversations : \E i \in DOMAIN log'[c] :
                           OwnAt(c, i)' /\ m = <<c, i>>
<1>0. \A m : m \in History' <=> InLater(m)
  BY DEF History, OwnAt
<1>1. CASE log' = log
  BY <1>1 DEF History, OwnAt
<1>2. CASE OtherMessage
  <2>1. ASSUME NEW c \in Conversations, NEW i
        PROVE  OwnAt(c, i)' <=> OwnAt(c, i)
    BY <1>2, OtherEffect DEF OwnAt
  <2>2. \A m : m \in History' <=> m \in History
    <3>1. ASSUME NEW m, m \in History' PROVE m \in History
      <4>1. PICK c \in Conversations, i \in Nat : i \in DOMAIN log'[c] /\ OwnAt(c, i)' /\ m = <<c, i>>
        BY <1>0, <3>1, TypeStep DEF TypeOK
      <4>2. OwnAt(c, i)
        BY <2>1, <4>1
      <4> QED
        BY <4>1, <4>2, HistoryIs DEF OwnAt
    <3>2. ASSUME NEW m, m \in History PROVE m \in History'
      <4>1. PICK c \in Conversations, i \in Nat : i \in DOMAIN log[c] /\ OwnAt(c, i) /\ m = <<c, i>>
        BY <3>2, HistoryIs DEF TypeOK
      <4>2. OwnAt(c, i)'
        BY <2>1, <4>1
      <4> QED
        BY <1>0, <4>1, <4>2 DEF OwnAt
    <3> QED
      BY <3>1, <3>2
  <2> QED
    BY <2>2
<1>3. ASSUME NEW r \in Requests, Land(r), conv[r] \notin gone
      PROVE  /\ <<conv[r], Len(log[conv[r]]) + 1>> \notin History
             /\ History' = History \cup {<<conv[r], Len(log[conv[r]]) + 1>>}
  <2> DEFINE k == conv[r]
             n == Len(log[k]) + 1
  <2>1. k \in Conversations /\ n \in DOMAIN log'[k] /\ n \notin DOMAIN log[k]
    BY <1>3, LandEffect
  <2>2. log'[k][n] = Own(PayloadOf[r])
    <3>1. log[k] \in Seq(Entries) /\ log'[k] = Append(log[k], Own(PayloadOf[r]))
      BY <1>3 DEF Land, TypeOK
    <3> QED
      BY <3>1
  <2>4. ASSUME NEW c \in Conversations, NEW i
        PROVE  (i \in DOMAIN log'[c] /\ log'[c][i] # Other)
                 <=> OwnAt(c, i) \/ (c = k /\ i = n)
    <3>1. CASE c # k
      BY <1>3, <3>1, LandEffect DEF OwnAt
    <3>2. CASE c = k
      <4>1. Own(PayloadOf[r]) # Other
        BY DEF Own, Other
      <4>2. i \in DOMAIN log'[k] <=> i \in DOMAIN log[k] \/ i = n
        BY <1>3, LandEffect
      <4> QED
        BY <1>3, <2>1, <2>2, <3>2, <4>1, <4>2, LandEffect DEF OwnAt
    <3> QED
      BY <3>1, <3>2
  <2>5. \A m : m \in History' <=> m \in History \/ m = <<k, n>>
    <3> HIDE DEF k, n
    <3>1. \A m : m \in History' <=>
                   \E c \in Conversations : \E i \in DOMAIN log'[c] :
                     log'[c][i] # Other /\ m = <<c, i>>
      BY <1>0 DEF OwnAt
    <3>2. ASSUME NEW m, m \in History' PROVE m \in History \/ m = <<k, n>>
      BY <2>4, <3>1, <3>2, HistoryIs DEF OwnAt
    <3>3. ASSUME NEW m, m \in History PROVE m \in History'
      BY <2>4, <3>1, <3>3, HistoryIs
    <3>4. <<k, n>> \in History'
      BY <2>1, <2>4, <3>1
    <3> QED
      BY <3>2, <3>3, <3>4
  <2>6. <<k, n>> \notin History
    BY <2>1, HistoryIs
  <2> QED
    BY <2>5, <2>6
<1> QED
  BY <1>1, <1>2, <1>3, LogFrame

(* Only the mapped conversation can show a message.                        *)
LEMMA VisibleIsMapped ==
  ASSUME TypeOK, MappedInv, NEW m \in Visible
  PROVE  m[1] = mapped /\ \E i \in DOMAIN log[mapped] : OwnAt(mapped, i)
<1>1. PICK c \in Conversations, i \in Nat : i \in DOMAIN log[c] /\ OwnAt(c, i) /\ m = <<c, i>>
  BY HistoryIs DEF Visible, TypeOK
<1>2. c \notin gone
  BY <1>1 DEF Visible
<1>3. log[c] # <<>>
  BY <1>1 DEF OwnAt
<1>4. c = mapped
  BY <1>2, <1>3 DEF MappedInv, TypeOK, Conversations
<1> QED
  BY <1>1, <1>4

(* What a request other than its INSERT answers, it may answer.            *)
LEMMA AnswerMoves ==
  ASSUME TypeOK, BodyInv, MessageInv, NEW r \in Requests, Step(r), ~ Insert(r)
  PROVE  \/ answer' = answer
         \/ \E what \in {"sent", "conflict", "inProgress", "unavailable", "missing"} :
              /\ Promise!Justified(r, what)
              /\ answer' = [answer EXCEPT ![r] = what]
<1> DEFINE To(what) == answer' = [answer EXCEPT ![r] = what]
<1>1. CASE \/ answer' = answer \/ To("unavailable") \/ To("missing")
  BY <1>1 DEF Promise!Justified
<1>2. CASE To("sent")
  <2>1. answer'[r] = "sent"
    BY <1>2 DEF TypeOK
  <2>2. Posted(msg'[r], row.payload) /\ row.status # "absent"
    BY <2>1, MessageMoves
  <2>3. row.payload = PayloadOf[r]
    <3>1. [Next]_vars
      BY DEF Next
    <3> QED
      BY <2>1, <2>2, <3>1, BodyMoves, BodyKept
  <2>4. History # {}
    BY <2>2, PostedIsHistory
  <2> QED
    BY <1>2, <2>3, <2>4 DEF Promise!Justified
<1>3. CASE Select(r) \/ Reselect(r)
  <2>1. \/ answer' = answer \/ To("unavailable")
        \/ row.payload # PayloadOf[r] /\ To("conflict")
    BY <1>3 DEF Select, Reselect, Judge, Throw, Reply
  <2>2. row.payload # PayloadOf[r] => row.payload # NoPayload
    BY <1>3 DEF Select, Reselect, BodyInv, BoundPCs
  <2> QED
    BY <1>1, <2>1, <2>2 DEF Promise!Justified
<1>4. CASE Watch(r)
  <2>1. \/ answer' = answer \/ To("unavailable") \/ To("inProgress")
    BY <1>4 DEF Watch, Throw, Reply
  <2>2. pc[r] \in BoundPCs
    BY <1>4 DEF Watch, BoundPCs, FollowPCs
  <2> QED
    BY <1>1, <2>1, <2>2, BoundRow DEF Promise!Justified
<1>5. CASE ~ (Select(r) \/ Reselect(r) \/ Watch(r))
  <2>1. \/ answer' = answer \/ To("unavailable") \/ To("missing") \/ To("sent")
    BY <1>5
    DEF Step, Start, Reacquire, ReplayById, ReplayBySource, ReplayMark, WatchMark, Lookup,
        LookupMark, Create, Created, CreateFails, CreateMark, Recheck, RecheckMark,
        FailMissing, FailError, Remap, Mark, Throw, Reply
  <2> QED
    BY <1>1, <1>2, <2>1
<1> QED
  BY <1>3, <1>4, <1>5

(* The steps that give an answer give it to a request that has none.       *)
LEMMA AnswerOnce ==
  ASSUME BodyInv, NEW r \in Requests, Step(r)
  PROVE  answer[r] = "none"
<1>1. pc[r] # "done"
  BY DEF Step, Start, Insert, Select, Reacquire, Reselect, ReplayById, ReplayBySource,
         ReplayMark, Watch, WatchMark, Lookup, LookupMark, Create, Created, CreateFails,
         CreateMark, Recheck, RecheckMark, FailMissing, FailError, Remap
<1> QED
  BY <1>1 DEF BodyInv

(* Every step of the ledger is a step of IdempotentSend, or none.          *)
LEMMA PromiseStep ==
  ASSUME TypeOK, BodyInv, MessageInv, UniqueInv, [Next]_vars
  PROVE  [Promise!Next]_Promise!vars
<1>1. ASSUME UNCHANGED <<log, gone>>
      PROVE  UNCHANGED <<History, Visible>>
  BY <1>1 DEF History, Visible, OwnAt
<1>2. ASSUME NEW r \in Requests, Insert(r) PROVE [Promise!Next]_Promise!vars
  <2>1. UNCHANGED <<History, Visible>>
    BY <1>1, <1>2 DEF Insert, net
  <2>2. \/ answer' = answer
        \/ answer[r] = "none" /\ answer' = [answer EXCEPT ![r] = "unavailable"]
    BY <1>2, AnswerOnce DEF Insert, Reply, Step
  <2>3. \/ row'.payload = row.payload
        \/ row.payload = NoPayload /\ row'.payload = PayloadOf[r]
    BY <1>2 DEF Insert, Leased, TypeOK, Rows, BodyInv
  <2>4. CASE row'.payload = row.payload
    BY <2>1, <2>2, <2>4
    DEF Promise!Next, Promise!Answer, Promise!Justified, Promise!vars
  <2>5. CASE row.payload = NoPayload /\ row'.payload = PayloadOf[r]
    BY <2>1, <2>2, <2>5 DEF Promise!Next, Promise!Bind
  <2> QED
    BY <2>3, <2>4, <2>5
<1>3. ASSUME NEW r \in Requests, Step(r), ~ Insert(r)
      PROVE  [Promise!Next]_Promise!vars
  <2>1. UNCHANGED <<History, Visible>>
    BY <1>1, <1>3, StepFrame
  <2>2. answer[r] = "none"
    BY <1>3, AnswerOnce
  <2>3. row'.payload = row.payload
    <3>1. ASSUME NEW q \in Requests, Insert(q) PROVE q = r
      <4>1. pc[q] = "insert" /\ (pc'[q] # "insert")
        BY <3>1 DEF Insert, Reply, Goto, TypeOK
      <4> QED
        BY <1>3, <4>1, OthersStand
    <3> QED
      BY <1>3, <3>1, BodyKept
  <2>4. CASE answer' = answer
    BY <2>1, <2>3, <2>4 DEF Promise!vars
  <2>5. CASE \E what \in {"sent", "conflict", "inProgress", "unavailable", "missing"} :
               /\ Promise!Justified(r, what)
               /\ answer' = [answer EXCEPT ![r] = what]
    BY <2>1, <2>2, <2>3, <2>5 DEF Promise!Next, Promise!Answer
  <2> QED
    BY <1>3, <2>4, <2>5, AnswerMoves
<1>4. ASSUME NEW r \in Requests, Land(r) PROVE [Promise!Next]_Promise!vars
  <2>1. row' = row /\ gone' = gone /\ answer' = answer /\ wire[r] = "sent"
    BY <1>4 DEF Land
  <2>2. CASE conv[r] \in gone
    BY <1>1, <1>4, <2>1, <2>2 DEF Land, Promise!vars
  <2>3. CASE conv[r] \notin gone
    <3> DEFINE new == <<conv[r], Len(log[conv[r]]) + 1>>
    <3>1. new \notin History /\ History' = History \cup {new}
      <4>1. \E q \in Requests : Land(q) /\ conv[q] \notin gone
        BY <1>4, <2>3
      <4>2. ASSUME NEW q \in Requests, Land(q) PROVE q = r
        <5>1. wire[q] = "sent" /\ wire'[q] # "sent"
          BY <4>2 DEF Land, TypeOK
        <5> QED
          BY <1>4, <5>1 DEF Land, TypeOK
      <4>3. History' # History
        <5>1. log' = [log EXCEPT ![conv[r]] = Append(@, Own(PayloadOf[r]))]
              /\ log[conv[r]] \in Seq(Entries) /\ conv[r] \in Conversations
          BY <1>4, <2>3 DEF Land, TypeOK
        <5>2. log'[conv[r]] = Append(log[conv[r]], Own(PayloadOf[r]))
          BY <5>1 DEF TypeOK
        <5>3. /\ Len(log[conv[r]]) + 1 \in DOMAIN log'[conv[r]]
              /\ Len(log[conv[r]]) + 1 \notin DOMAIN log[conv[r]]
              /\ log'[conv[r]][Len(log[conv[r]]) + 1] # Other
          BY <5>1, <5>2 DEF Own, Other
        <5>4. new \notin History
          BY <5>3, HistoryIs
        <5>5. new \in History'
          BY <5>1, <5>3 DEF History, OwnAt
        <5> QED
          BY <5>4, <5>5
      <4> QED
        BY <4>2, <4>3, HistoryMoves
    <3>2. Clean(conv[r]) /\ conv[r] = mapped
      BY <1>4, <2>3 DEF Land, UniqueInv, CleanInv, MappedInv, Posting, TypeOK, Conversations
    <3>3. Visible = {}
      BY <2>3, <3>2, VisibleIsMapped DEF UniqueInv, Clean
    <3>4. Visible' = {new}
      BY <2>1, <2>3, <3>1, <3>3 DEF Visible
    <3>5. row.payload # NoPayload
      BY <2>1, BoundRow DEF BodyInv
    <3> HIDE DEF new
    <3> QED
      BY <2>1, <3>1, <3>3, <3>4, <3>5 DEF Promise!Next, Promise!Deliver
  <2> QED
    BY <2>2, <2>3
<1>5. ASSUME OtherMessage PROVE [Promise!Next]_Promise!vars
  <2>1. row' = row /\ gone' = gone /\ answer' = answer /\ wire' = wire
    BY <1>5 DEF OtherMessage
  <2>2. History' = History
    <3>1. \A r \in Requests : ~ Land(r)
      BY <2>1 DEF Land, TypeOK
    <3> QED
      BY <3>1, HistoryMoves
  <2>3. Visible' = Visible
    BY <2>1, <2>2 DEF Visible
  <2> QED
    BY <2>1, <2>2, <2>3 DEF Promise!vars
<1>6. ASSUME DeleteConversation PROVE [Promise!Next]_Promise!vars
  <2>1. row' = row /\ log' = log /\ answer' = answer /\ gone' = gone \cup {mapped}
    BY <1>6 DEF DeleteConversation
  <2>2. History' = History
    BY <2>1 DEF History, OwnAt
  <2>3. Visible' = {}
    <3>1. Visible' = {m \in Visible : m[1] # mapped}
      BY <2>1, <2>2 DEF Visible
    <3> QED
      BY <3>1, VisibleIsMapped DEF UniqueInv
  <2> QED
    BY <2>1, <2>2, <2>3 DEF Promise!Next, Promise!Lose, Promise!vars
<1>7. ASSUME UNCHANGED <<row, log, gone, answer>> PROVE [Promise!Next]_Promise!vars
  BY <1>1, <1>7 DEF Promise!vars
<1> QED
  BY <1>2, <1>3, <1>4, <1>5, <1>6, <1>7 DEF Next, Crash, Tick, vars, net

(* The ledger keeps the promise of IdempotentSend: under the assumptions   *)
(* of MessageIsUnique every step of a request, of Chatwoot and of the      *)
(* clock binds the key, stores the one visible message, gives a justified  *)
(* answer, or changes nothing the client could see.                        *)
THEOREM PromiseKept ==
  ASSUME LateLanding = FALSE, SendBudget <= StaleAfter, MaxTraffic <= PageSize
  PROVE  Spec => ImplementsIdempotentSend
<1>1. Init => Promise!Init
  BY DEF Init, AbsentRow, Promise!Init, History, Visible, OwnAt
<1>2. LedgerInv /\ StoredInv /\ UniqueInv /\ [Next]_vars => [Promise!Next]_Promise!vars
  BY PromiseStep DEF StoredInv
<1> QED
  BY <1>1, <1>2, UniqueInvariant, LedgerInvariant, StoredInvariant, PTL
  DEF Spec, ImplementsIdempotentSend, Promise!Spec

=============================================================================
