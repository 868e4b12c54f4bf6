------------------------ MODULE ConversationProofs ------------------------
(***************************************************************************)
(* Proofs about the two parts that make conversations in Chatwoot: the     *)
(* portal's threads (ThreadBootstrap) and the Telegram bridge.             *)
(***************************************************************************)
EXTENDS ThreadBootstrap, TelegramBridge, FiniteSetTheorems, TLAPS

-----------------------------------------------------------------------------
(* ThreadBootstrap keeps its types, and under the advisory lock a thread's *)
(* mapping is replaced only when its conversation is deleted.              *)


(* A request's own steps move nobody else.                                 *)
LEMMA OwnStep ==
  ASSUME TypeOK, NEW r \in Requests, Step(r)
  PROVE  /\ pc' = [pc EXCEPT ![r] = pc'[r]]
         /\ stale' = [stale EXCEPT ![r] = stale'[r]]
         /\ source' = [source EXCEPT ![r] = source'[r]]
         /\ conv' = [conv EXCEPT ![r] = conv'[r]]
         /\ result' = [result EXCEPT ![r] = result'[r]]
         /\ gone' = gone
<1>1. CASE Resolve(r) \/ InsertThread(r) \/ UpdateThread(r) \/ Begin(r) \/ Lock(r)
  BY <1>1
  DEF Resolve, InsertThread, UpdateThread, Begin, Lock, Resolved, Finish, Goto,
      chatwoot, TypeOK
<1>2. CASE FindThread(r) \/ FindSource(r) \/ CreateSource(r) \/ RefindSource(r)
  BY <1>2
  DEF FindThread, FindSource, CreateSource, RefindSource, FoundSource, Return,
      Goto, chatwoot, TypeOK
<1>3. CASE SaveSource(r) \/ CreateConv(r) \/ SaveConv(r) \/ Use(r) \/ Commit(r)
  BY <1>3
  DEF SaveSource, CreateConv, SaveConv, Use, Commit, Return, Finish, Goto,
      chatwoot, TypeOK
<1> QED
  BY <1>1, <1>2, <1>3 DEF Step

-----------------------------------------------------------------------------
(* Types.                                                                  *)

(* What one request may write of its own keeps its type.                   *)
LEMMA OwnTypes ==
  ASSUME TypeOK, NEW r \in Requests, Step(r)
  PROVE  /\ pc'[r] \in PCs
         /\ stale'[r] \in Nat
         /\ source'[r] \in Nat
         /\ conv'[r] \in Nat
         /\ result'[r] \in Results
<1> ThreadOf[r] \in Threads
  BY BootstrapAssumption
<1>1. CASE Resolve(r) \/ InsertThread(r) \/ UpdateThread(r) \/ Begin(r) \/ Lock(r)
  BY <1>1
  DEF Resolve, InsertThread, UpdateThread, Begin, Lock, Resolved, Finish, Goto,
      chatwoot, TypeOK, PCs, LockedPCs, Results
<1>2. CASE FindThread(r) \/ FindSource(r) \/ CreateSource(r) \/ RefindSource(r)
  <2>1. /\ pc'[r] \in PCs /\ stale'[r] \in Nat /\ conv'[r] \in Nat /\ result'[r] \in Results
    BY <1>2
    DEF FindThread, FindSource, CreateSource, RefindSource, FoundSource, Return,
        Goto, chatwoot, TypeOK, PCs, LockedPCs, Results
  <2>2. inboxes[ThreadOf[r]] \in Nat /\ source[r] \in Nat
    BY DEF TypeOK
  <2>3. FoundSource(r) => source'[r] \in Nat
    BY <2>2 DEF FoundSource, TypeOK
  <2>4. CreateSource(r) => source'[r] \in Nat
    BY <2>2 DEF CreateSource, TypeOK
  <2>5. source'[r] \in Nat
    BY <1>2, <2>2, <2>3, <2>4 DEF FindThread, FindSource, RefindSource
  <2> QED
    BY <2>1, <2>5
<1>3. CASE SaveSource(r) \/ SaveConv(r) \/ Use(r) \/ Commit(r)
  BY <1>3
  DEF SaveSource, SaveConv, Use, Commit, Return, Finish, Goto,
      chatwoot, TypeOK, PCs, LockedPCs, Results
<1>4. CASE CreateConv(r)
  <2>1. Len(Append(convs, ThreadOf[r])) \in Nat
    BY DEF TypeOK
  <2> QED
    BY <1>4, <2>1
    DEF CreateConv, Return, Goto, TypeOK, PCs, LockedPCs, Results
<1> QED
  BY <1>1, <1>2, <1>3, <1>4 DEF Step

(* What one request may write of the rows and of Chatwoot keeps its type.  *)
LEMMA SharedTypes ==
  ASSUME TypeOK, NEW r \in Requests, Step(r)
  PROVE  /\ row' \in [Threads -> [exists : BOOLEAN, source : Nat, conv : Nat]]
         /\ inboxes' \in [Threads -> Nat]
         /\ convs' \in Seq(Threads)
         /\ Len(convs') \in Nat /\ Len(convs) \in Nat
         /\ Len(convs') >= Len(convs)
         /\ lost' \in Nat
         /\ lateInboxes' \in [Threads -> Nat] /\ lateConvs' \in [Threads -> Nat]
         /\ unheard' = unheard
<1> DEFINE t == ThreadOf[r]
<1>0. /\ t \in Threads
      /\ row[t] \in [exists : BOOLEAN, source : Nat, conv : Nat]
      /\ source[r] \in Nat /\ conv[r] \in Nat /\ inboxes[t] \in Nat
  BY BootstrapAssumption DEF TypeOK
<1>1. row' \in [Threads -> [exists : BOOLEAN, source : Nat, conv : Nat]]
  <2>1. CASE UNCHANGED row
    BY <2>1 DEF TypeOK
  <2>2. ASSUME NEW x \in [exists : BOOLEAN, source : Nat, conv : Nat],
               row' = [row EXCEPT ![t] = x]
        PROVE  row' \in [Threads -> [exists : BOOLEAN, source : Nat, conv : Nat]]
    BY <1>0, <2>2 DEF TypeOK
  <2>3. CASE InsertThread(r) /\ row' = [row EXCEPT ![t].exists = TRUE]
    <3>1. row' = [row EXCEPT ![t] = [row[t] EXCEPT !.exists = TRUE]]
      BY <1>0, <2>3 DEF TypeOK
    <3> QED BY <1>0, <2>2, <3>1
  <2>4. CASE row' = [row EXCEPT ![t].source = source[r]]
    <3>1. row' = [row EXCEPT ![t] = [row[t] EXCEPT !.source = source[r]]]
      BY <1>0, <2>4 DEF TypeOK
    <3> QED BY <1>0, <2>2, <3>1
  <2>5. CASE row' = [row EXCEPT ![t].conv = conv[r]]
    <3>1. row' = [row EXCEPT ![t] = [row[t] EXCEPT !.conv = conv[r]]]
      BY <1>0, <2>5 DEF TypeOK
    <3> QED BY <1>0, <2>2, <3>1
  <2> QED
    BY <2>1, <2>3, <2>4, <2>5
    DEF Step, Resolve, InsertThread, UpdateThread, Begin, Lock, FindThread,
        FindSource, CreateSource, RefindSource, SaveSource, CreateConv, SaveConv,
        Use, Commit
<1>2. inboxes' \in [Threads -> Nat] /\ lost' \in Nat
  <2>1. [inboxes EXCEPT ![t] = @ + 1] \in [Threads -> Nat] /\ lost + 1 \in Nat
    BY <1>0 DEF TypeOK
  <2>2. inboxes' \in {inboxes, [inboxes EXCEPT ![t] = @ + 1]} /\ lost' \in {lost, lost + 1}
    BY DEF Step, Resolve, InsertThread, UpdateThread, Begin, Lock, FindThread,
           FindSource, CreateSource, RefindSource, SaveSource, CreateConv, SaveConv,
           Use, Commit, chatwoot
  <2> QED
    BY <2>1, <2>2 DEF TypeOK
<1>3. convs' \in {convs, Append(convs, t)}
  BY DEF Step, Resolve, InsertThread, UpdateThread, Begin, Lock, FindThread,
         FindSource, CreateSource, RefindSource, SaveSource, CreateConv, SaveConv,
         Use, Commit, chatwoot
<1>4. convs \in Seq(Threads)
  BY DEF TypeOK
<1>5. /\ Append(convs, t) \in Seq(Threads)
      /\ Len(Append(convs, t)) = Len(convs) + 1
      /\ Len(convs) \in Nat
  BY <1>0, <1>4
<1>6. convs' \in Seq(Threads) /\ Len(convs') \in {Len(convs), Len(convs) + 1}
  <2>1. CASE convs' = convs
    BY <1>4, <2>1
  <2>2. CASE convs' = Append(convs, t)
    BY <1>5, <2>2
  <2> QED
    BY <1>3, <2>1, <2>2
<1>7. lateInboxes' \in [Threads -> Nat] /\ lateConvs' \in [Threads -> Nat] /\ unheard' = unheard
  <2>1. \A f \in [Threads -> Nat] : [f EXCEPT ![t] = @ + 1] \in [Threads -> Nat]
    <3> SUFFICES ASSUME NEW f \in [Threads -> Nat]
                 PROVE  [f EXCEPT ![t] = @ + 1] \in [Threads -> Nat]
      OBVIOUS
    <3>1. f[t] + 1 \in Nat
      BY <1>0
    <3> QED
      BY <3>1
  <2>2. /\ lateInboxes' \in {lateInboxes, [lateInboxes EXCEPT ![t] = @ + 1]}
        /\ lateConvs' \in {lateConvs, [lateConvs EXCEPT ![t] = @ + 1]}
        /\ unheard' = unheard
    BY DEF Step, Resolve, InsertThread, UpdateThread, Begin, Lock, FindThread,
           FindSource, CreateSource, RefindSource, SaveSource, CreateConv, SaveConv,
           Use, Commit, chatwoot, late
  <2> QED
    BY <2>1, <2>2 DEF TypeOK
<1> QED
  BY <1>1, <1>2, <1>5, <1>6, <1>7

(* How many requests are at one await.                                     *)
LEMMA WaitingCount ==
  ASSUME NEW t, NEW where
  PROVE  Cardinality(Waiting(t, where)) \in Nat
BY BootstrapAssumption, FS_Subset, FS_CardinalityType DEF Waiting

(* Chatwoot executes a create late, or a conversation is deleted.          *)
LEMMA LateTypes ==
  ASSUME TypeOK, NEW t \in Threads, LateInbox(t) \/ LateConv(t)
  PROVE  TypeOK'
<1>1. CASE LateInbox(t)
  <2>1. lateInboxes[t] - 1 \in Nat /\ inboxes[t] + 1 \in Nat /\ unheard[t] + 1 \in Nat
    BY <1>1 DEF LateInbox, TypeOK
  <2> QED
    BY <1>1, <2>1 DEF LateInbox, TypeOK, Conversations
<1>2. CASE LateConv(t)
  <2>1. lateConvs[t] - 1 \in Nat /\ lost + 1 \in Nat
    BY <1>2 DEF LateConv, TypeOK
  <2>2. /\ convs' \in Seq(Threads)
        /\ Len(convs') = Len(convs) + 1 /\ Len(convs) \in Nat
    BY <1>2 DEF LateConv, TypeOK
  <2>3. gone' \subseteq Conversations'
    BY <1>2, <2>2 DEF LateConv, TypeOK, Conversations
  <2> QED
    BY <1>2, <2>1, <2>2, <2>3 DEF LateConv, TypeOK
<1> QED
  BY <1>1, <1>2

(* Every variable of the bootstrap keeps its type.                         *)
THEOREM TypeCorrect == Spec => []TypeOK
<1>1. Init => TypeOK
  <2> SUFFICES ASSUME Init PROVE TypeOK
    OBVIOUS
  <2>1. <<>> \in Seq(Threads) /\ {} \subseteq Conversations
    OBVIOUS
  <2> QED
    BY <2>1 DEF Init, TypeOK, PCs, Results
<1>2. TypeOK /\ [Next]_vars => TypeOK'
  <2> SUFFICES ASSUME TypeOK, [Next]_vars PROVE TypeOK'
    OBVIOUS
  <2>1. ASSUME NEW r \in Requests, Step(r) PROVE TypeOK'
    <3>1. gone' \subseteq Conversations'
      <4>1. gone' = gone /\ gone \subseteq 1 .. Len(convs)
        BY <2>1, OwnStep DEF TypeOK, Conversations
      <4>2. Len(convs) \in Nat /\ Len(convs') \in Nat /\ Len(convs') >= Len(convs)
        BY <2>1, SharedTypes
      <4>3. 1 .. Len(convs) \subseteq 1 .. Len(convs')
        BY <4>2
      <4> QED
        BY <4>1, <4>3 DEF Conversations
    <3>2. /\ pc' \in [Requests -> PCs]
          /\ stale' \in [Requests -> Nat] /\ source' \in [Requests -> Nat]
          /\ conv' \in [Requests -> Nat] /\ result' \in [Requests -> Results]
      <4> HIDE DEF PCs, Results
      <4> QED BY <2>1, OwnStep, OwnTypes DEF TypeOK
    <3> QED
      BY <2>1, <3>1, <3>2, SharedTypes DEF TypeOK
  <2>2. CASE Crash
    <3>1. Cardinality({r \in Requests : pc[r] = "saveConv"}) \in Nat
      BY BootstrapAssumption, FS_Subset, FS_CardinalityType
    <3>2. /\ lateInboxes' \in [Threads -> Nat]
          /\ lateConvs' \in [Threads -> Nat]
      <4>1. ASSUME NEW t \in Threads
            PROVE  /\ lateInboxes[t] + Cardinality(Waiting(t, "createSource")) \in Nat
                   /\ lateConvs[t] + Cardinality(Waiting(t, "createConv")) \in Nat
        BY WaitingCount DEF TypeOK
      <4> QED
        BY <2>2, <4>1 DEF Crash
    <3>3. /\ stale' \in [Requests -> Nat] /\ source' \in [Requests -> Nat]
          /\ conv' \in [Requests -> Nat]
      BY <2>2 DEF Crash, Forgotten, TypeOK
    <3>4. /\ pc' \in [Requests -> PCs]
          /\ UNCHANGED <<row, inboxes, convs, gone, unheard, result>>
          /\ lost' = lost + Cardinality({r \in Requests : pc[r] = "saveConv"})
      BY <2>2 DEF Crash, TypeOK, PCs
    <3> QED
      BY <3>1, <3>2, <3>3, <3>4 DEF TypeOK, Conversations
  <2>3. CASE DeleteConversation
    BY <2>3 DEF DeleteConversation, late, TypeOK, Conversations
  <2>4. CASE UNCHANGED vars
    BY <2>4 DEF vars, TypeOK, Conversations
  <2>5. CASE \E t \in Threads : LateInbox(t) \/ LateConv(t)
    BY <2>5, LateTypes
  <2> QED
    BY <2>1, <2>2, <2>3, <2>4, <2>5 DEF Next
<1> QED
  BY <1>1, <1>2, PTL DEF Spec

-----------------------------------------------------------------------------
(* The lock.                                                               *)

(* Only the step Lock enters the locked region.                            *)
LEMMA EnterByLock ==
  ASSUME TypeOK, NEW r \in Requests, Step(r), ~ Lock(r), Locked(r)'
  PROVE  Locked(r)
<1>1. CASE Resolve(r) \/ InsertThread(r) \/ UpdateThread(r) \/ Begin(r)
  BY <1>1
  DEF Resolve, InsertThread, UpdateThread, Begin, Resolved, Finish, Goto, Locked,
      LockedPCs, TypeOK
<1>2. CASE Commit(r) \/ Use(r)
  BY <1>2 DEF Commit, Use, Finish, Goto, Locked, LockedPCs, TypeOK
<1> QED
  BY <1>1, <1>2
  DEF Step, FindThread, FindSource, CreateSource, RefindSource, SaveSource,
      CreateConv, SaveConv, Locked, LockedPCs

(* The advisory lock of a thread has one holder at most.                   *)
LEMMA LockStep ==
  ASSUME TypeOK, LockInv, [Next]_vars
  PROVE  LockInv'
<1>1. ASSUME NEW r \in Requests, Step(r) PROVE LockInv'
  <2>1. \A q \in Requests \ {r} : pc'[q] = pc[q]
    BY <1>1, OwnStep DEF TypeOK
  <2>2. CASE Lock(r)
    BY <2>1, <2>2 DEF Lock, LockInv, Locked
  <2>3. CASE ~ Lock(r)
    BY <1>1, <2>1, <2>3, EnterByLock DEF LockInv, Locked
  <2> QED
    BY <2>2, <2>3
<1>2. CASE Crash
  BY <1>2 DEF Crash, AtWork, LockInv, Locked, LockedPCs
<1>3. CASE UNCHANGED pc
  BY <1>3 DEF LockInv, Locked
<1> QED
  BY <1>1, <1>2, <1>3 DEF Next, DeleteConversation, LateInbox, LateConv, vars

-----------------------------------------------------------------------------
(* The mapping.                                                            *)

(* Only SaveConv replaces a conversation, only CreateConv adds one.        *)
LEMMA MappingFrame ==
  ASSUME TypeOK, NEW r \in Requests, Step(r)
  PROVE  /\ ~ SaveConv(r) => \A t \in Threads : row'[t].conv = row[t].conv
         /\ SaveConv(r) => /\ \A t \in Threads \ {ThreadOf[r]} : row'[t] = row[t]
                          /\ row'[ThreadOf[r]].conv \in {row[ThreadOf[r]].conv, conv[r]}
                          /\ convs' = convs
         /\ Len(convs) \in Nat /\ Len(convs') \in Nat /\ Len(convs') >= Len(convs)
<1>1. ThreadOf[r] \in Threads
  BY BootstrapAssumption
<1>2. CASE InsertThread(r) \/ SaveSource(r)
  <2>1. ~ SaveConv(r)
    BY <1>2 DEF InsertThread, SaveSource, SaveConv
  <2>2. \/ row' = row
        \/ row' = [row EXCEPT ![ThreadOf[r]] = [row[ThreadOf[r]] EXCEPT !.exists = TRUE]]
        \/ row' = [row EXCEPT ![ThreadOf[r]] = [row[ThreadOf[r]] EXCEPT !.source = source[r]]]
    BY <1>1, <1>2 DEF InsertThread, SaveSource, TypeOK
  <2>3. row[ThreadOf[r]] \in [exists : BOOLEAN, source : Nat, conv : Nat]
    BY <1>1 DEF TypeOK
  <2>4. /\ [row[ThreadOf[r]] EXCEPT !.exists = TRUE].conv = row[ThreadOf[r]].conv
        /\ [row[ThreadOf[r]] EXCEPT !.source = source[r]].conv = row[ThreadOf[r]].conv
    BY <2>3
  <2>5. \A t \in Threads : row'[t].conv = row[t].conv
    BY <1>1, <2>2, <2>4 DEF TypeOK
  <2> QED
    BY <2>1, <2>5, SharedTypes
<1>4. CASE SaveConv(r)
  <2>1. \/ row' = row
        \/ row' = [row EXCEPT ![ThreadOf[r]] = [row[ThreadOf[r]] EXCEPT !.conv = conv[r]]]
    BY <1>1, <1>4 DEF SaveConv, TypeOK
  <2>2. \A t \in Threads \ {ThreadOf[r]} : row'[t] = row[t]
    BY <1>1, <2>1 DEF TypeOK
  <2>3. row[ThreadOf[r]] \in [exists : BOOLEAN, source : Nat, conv : Nat]
    BY <1>1 DEF TypeOK
  <2>4. [row[ThreadOf[r]] EXCEPT !.conv = conv[r]].conv = conv[r]
    BY <2>3
  <2>5. row'[ThreadOf[r]].conv \in {row[ThreadOf[r]].conv, conv[r]}
    BY <1>1, <2>1, <2>4 DEF TypeOK
  <2> QED
    BY <1>4, <2>2, <2>5, SharedTypes DEF SaveConv
<1>3. CASE ~ (InsertThread(r) \/ SaveSource(r) \/ SaveConv(r))
  <2>1. row' = row
    BY <1>3
    DEF Step, Resolve, UpdateThread, Begin, Lock, Commit, FindThread, FindSource,
        CreateSource, RefindSource, CreateConv, Use
  <2> QED
    BY <1>3, <2>1, SharedTypes
<1> QED
  BY <1>2, <1>3, <1>4

(* What the step of r does to its own part of MapInv.                      *)
LEMMA OwnMapping ==
  ASSUME TypeOK, MapInv, NEW r \in Requests, Step(r)
  PROVE  LET t == ThreadOf[r]
         IN /\ stale'[r] \in gone \cup {0}
            /\ ~ SaveConv(r) /\ Replacing(r)' => row[t].conv \in {0, stale'[r]}
            /\ SaveConv(r) => ~ Replacing(r)'
            /\ pc'[r] = "saveConv" => conv'[r] \in 1 .. Len(convs') /\ conv'[r] > row[t].conv
            /\ Ready(r)' => conv'[r] # 0 /\ (conv'[r] \in gone \/ row'[t].conv = conv'[r])
<1> DEFINE t == ThreadOf[r]
<1>0. t \in Threads /\ row[t].conv \in Nat
  BY BootstrapAssumption DEF TypeOK
<1>1. CASE Resolve(r) \/ InsertThread(r) \/ UpdateThread(r)
  <2>1. pc'[r] \notin LockedPCs
    BY <1>1
    DEF Resolve, InsertThread, UpdateThread, Resolved, Finish, Goto, LockedPCs, TypeOK
  <2>2. stale' = stale
    BY <1>1 DEF Resolve, InsertThread, UpdateThread
  <2>3. pc'[r] = "use" => conv'[r] = row[t].conv /\ Writable(r, row[t].conv)
    BY <1>1
    DEF Resolve, InsertThread, UpdateThread, Resolved, Finish, Goto, TypeOK
  <2>4. pc'[r] = "done" => result'[r] # "ready"
    BY <1>1
    DEF Resolve, InsertThread, UpdateThread, Resolved, Finish, Goto, TypeOK
  <2>5. row'[t].conv = row[t].conv
    BY <1>0, <1>1, MappingFrame
    DEF Resolve, InsertThread, UpdateThread, SaveConv
  <2> QED
    BY <2>1, <2>2, <2>3, <2>4, <2>5
    DEF MapInv, Replacing, Locked, LockedPCs, Ready, Writable, Resolve,
        InsertThread, UpdateThread, SaveConv
<1>2. CASE Begin(r) \/ Lock(r)
  BY <1>2
  DEF Begin, Lock, Goto, TypeOK, MapInv, Replacing, Locked, LockedPCs, Ready,
      SaveConv, chatwoot
<1>3. CASE FindThread(r)
  BY <1>0, <1>3
  DEF FindThread, Return, Goto, TypeOK, MapInv, Replacing, Locked, LockedPCs,
      Ready, Writable, SaveConv, chatwoot
<1>4. CASE FindSource(r) \/ CreateSource(r) \/ RefindSource(r) \/ SaveSource(r)
  <2>1. Replacing(r) /\ stale' = stale /\ pc'[r] # "saveConv" /\ ~ SaveConv(r)
    BY <1>4
    DEF FindSource, CreateSource, RefindSource, SaveSource, FoundSource, Return,
        Goto, TypeOK, Replacing, Locked, LockedPCs, SaveConv
  <2>2. ~ Ready(r)'
    BY <1>4
    DEF FindSource, CreateSource, RefindSource, SaveSource, FoundSource, Return,
        Goto, TypeOK, Ready
  <2> QED
    BY <2>1, <2>2 DEF MapInv
<1>5. CASE CreateConv(r)
  <2>1. Replacing(r) /\ stale' = stale /\ ~ SaveConv(r) /\ ~ Ready(r)'
    BY <1>5
    DEF CreateConv, Return, Goto, TypeOK, Replacing, Locked, LockedPCs, SaveConv, Ready
  <2>2. pc'[r] = "saveConv" => conv'[r] = Len(convs') /\ convs' = Append(convs, t)
    BY <1>5 DEF CreateConv, Return, Goto, TypeOK
  <2>3. /\ Len(Append(convs, t)) = Len(convs) + 1
        /\ Len(convs) \in Nat
    BY <1>0 DEF TypeOK
  <2>4. row[t].conv <= Len(convs)
    BY <1>0 DEF MapInv
  <2>5. pc'[r] = "saveConv" => conv'[r] \in 1 .. Len(convs') /\ conv'[r] > row[t].conv
    BY <1>0, <2>2, <2>3, <2>4
  <2> QED
    BY <2>1, <2>5 DEF MapInv
<1>6. CASE SaveConv(r)
  <2>1. pc'[r] = "commit" /\ stale' = stale
    BY <1>6 DEF SaveConv, Return, Goto, TypeOK
  <2>3. conv[r] # 0
    BY <1>0, <1>6 DEF SaveConv, TypeOK, MapInv
  <2>2. result'[r] = "ready" => row'[t].conv = conv[r] /\ conv'[r] = conv[r]
    BY <1>0, <1>6 DEF SaveConv, Return, Goto, TypeOK
  <2> QED
    BY <2>1, <2>2, <2>3 DEF MapInv, Replacing, Ready
<1>7. CASE Commit(r) \/ Use(r)
  <2>1. /\ ~ SaveConv(r) /\ pc'[r] \notin LockedPCs
        /\ row' = row /\ conv' = conv
    BY <1>7 DEF Commit, Use, Finish, Goto, TypeOK, LockedPCs, SaveConv
  <2>3. stale'[r] \in gone \cup {0}
    BY <1>7 DEF Commit, Use, TypeOK, MapInv
  <2>4. Ready(r)' => Ready(r)
    BY <1>7 DEF Commit, Use, Finish, Goto, TypeOK, Ready
  <2> QED
    BY <2>1, <2>3, <2>4 DEF MapInv, Replacing, Locked, LockedPCs
<1> QED
  BY <1>1, <1>2, <1>3, <1>4, <1>5, <1>6, <1>7 DEF Step

(* A mapping is replaced under the lock only, by the one request that holds *)
(* it, and every other request keeps what it was told.                     *)
LEMMA MapStep ==
  ASSUME TypeOK, LockInv, MapInv, [Next]_vars
  PROVE  MapInv'
<1>1. ASSUME NEW r \in Requests, Step(r) PROVE MapInv'
  <2> DEFINE t == ThreadOf[r]
  <2>0. t \in Threads /\ gone' = gone
    BY <1>1, OwnStep, BootstrapAssumption
  <2>1. \A q \in Requests \ {r} :
          /\ pc'[q] = pc[q] /\ stale'[q] = stale[q]
          /\ conv'[q] = conv[q] /\ result'[q] = result[q]
    BY <1>1, OwnStep DEF TypeOK
  <2>2. SaveConv(r) => /\ row[t].conv \in {0, stale[r]} /\ stale[r] \in gone \cup {0}
                       /\ conv[r] \in 1 .. Len(convs) /\ Locked(r)
    BY DEF SaveConv, MapInv, Replacing, Locked, LockedPCs, Conversations
  <2>3. SaveConv(r) => \A q \in Requests \ {r} : ThreadOf[q] = t => ~ Locked(q)
    BY <2>2 DEF LockInv
  <2>4. \A u \in Threads : row'[u].conv <= Len(convs')
    <3>1. \A u \in Threads : row[u].conv \in Nat /\ row[u].conv <= Len(convs)
      BY DEF MapInv, TypeOK
    <3> QED
      BY <1>1, <2>0, <2>2, <3>1, MappingFrame
  <2>5. \A q \in Requests : stale'[q] \in gone \cup {0}
    BY <1>1, <2>1, OwnMapping DEF MapInv
  <2>6. ASSUME NEW q \in Requests, Replacing(q)'
        PROVE  row'[ThreadOf[q]].conv \in {0, stale'[q]}
    <3>1. CASE q = r
      BY <1>1, <2>0, <2>6, <3>1, OwnMapping, MappingFrame
    <3>2. CASE q # r
      <4>1. Replacing(q) /\ Locked(q) /\ ThreadOf[q] \in Threads
        BY <2>1, <2>6, <3>2, BootstrapAssumption DEF Replacing, Locked
      <4>2. row'[ThreadOf[q]].conv = row[ThreadOf[q]].conv
        BY <1>1, <2>3, <3>2, <4>1, MappingFrame
      <4> QED
        BY <2>1, <3>2, <4>1, <4>2 DEF MapInv
    <3> QED
      BY <3>1, <3>2
  <2>7. ASSUME NEW q \in Requests, pc'[q] = "saveConv"
        PROVE  conv'[q] \in 1 .. Len(convs') /\ conv'[q] > row'[ThreadOf[q]].conv
    <3>1. CASE q = r
      <4>1. ~ SaveConv(r)
        BY <2>7, <3>1 DEF SaveConv, Return, Goto, TypeOK
      <4> QED
        BY <1>1, <2>0, <2>7, <3>1, <4>1, OwnMapping, MappingFrame
    <3>2. CASE q # r
      <4>1. pc[q] = "saveConv" /\ Locked(q) /\ ThreadOf[q] \in Threads
        BY <2>1, <2>7, <3>2, BootstrapAssumption DEF Locked, LockedPCs
      <4>2. row'[ThreadOf[q]].conv = row[ThreadOf[q]].conv
        BY <1>1, <2>3, <3>2, <4>1, MappingFrame
      <4>3. conv[q] \in 1 .. Len(convs) /\ conv[q] > row[ThreadOf[q]].conv
        BY <4>1 DEF MapInv, Conversations
      <4>4. Len(convs) \in Nat /\ Len(convs') \in Nat /\ Len(convs') >= Len(convs)
        BY <1>1, MappingFrame
      <4> QED
        BY <2>1, <3>2, <4>2, <4>3, <4>4
    <3> QED
      BY <3>1, <3>2
  <2>8. ASSUME NEW q \in Requests, Ready(q)'
        PROVE  /\ conv'[q] # 0
               /\ conv'[q] \in gone \/ row'[ThreadOf[q]].conv = conv'[q]
    <3>1. CASE q = r
      BY <1>1, <2>8, <3>1, OwnMapping
    <3>2. CASE q # r
      <4>1. Ready(q) /\ ThreadOf[q] \in Threads
        BY <2>1, <2>8, <3>2, BootstrapAssumption DEF Ready
      <4>2. conv[q] # 0 /\ (conv[q] \in gone \/ row[ThreadOf[q]].conv = conv[q])
        BY <4>1 DEF MapInv
      <4>3. CASE SaveConv(r) /\ ThreadOf[q] = t
        BY <2>1, <2>2, <3>2, <4>2, <4>3
      <4>4. CASE ~ (SaveConv(r) /\ ThreadOf[q] = t)
        <5>1. row'[ThreadOf[q]].conv = row[ThreadOf[q]].conv
          BY <1>1, <4>1, <4>4, MappingFrame
        <5> QED
          BY <2>1, <3>2, <4>2, <5>1
      <4> QED
        BY <4>3, <4>4
    <3> QED
      BY <3>1, <3>2
  <2> QED
    BY <2>0, <2>4, <2>5, <2>6, <2>7, <2>8 DEF MapInv, Conversations
<1>2. CASE Crash
  <2>1. \A q \in Requests : pc'[q] = "crashed" \/ pc'[q] = pc[q]
    BY <1>2 DEF Crash
  <2>2. \A q \in Requests : /\ Replacing(q)' => Replacing(q)
                            /\ Ready(q)' => Ready(q)
    BY <1>2, <2>1 DEF Crash, Replacing, Ready, Locked, LockedPCs
  <2>3. /\ UNCHANGED <<row, convs, gone>>
        /\ \A q \in Requests : \/ pc'[q] = "crashed" /\ stale'[q] = 0
                               \/ stale'[q] = stale[q] /\ conv'[q] = conv[q]
    BY <1>2 DEF Crash, Forgotten
  <2>4. \A q \in Requests : pc'[q] = "saveConv" => pc[q] = "saveConv"
    BY <2>1
  <2>5. \A q \in Requests : pc'[q] = "crashed" => ~ Replacing(q)' /\ ~ Ready(q)'
    BY DEF Replacing, Ready, Locked, LockedPCs
  <2> QED
    BY <2>2, <2>3, <2>4, <2>5 DEF MapInv, Conversations
<1>3. CASE DeleteConversation
  <2>1. gone \subseteq gone' /\ UNCHANGED <<row, convs, pc, stale, conv, result>>
    BY <1>3 DEF DeleteConversation
  <2> QED
    BY <2>1 DEF MapInv, Conversations, Replacing, Ready, Locked
<1>4. CASE UNCHANGED vars
  BY <1>4 DEF vars, MapInv, Conversations, Replacing, Ready, Locked
<1>5. ASSUME NEW t \in Threads, LateInbox(t) \/ LateConv(t) PROVE MapInv'
  <2>1. UNCHANGED <<row, gone, pc, stale, conv, result>>
    BY <1>5 DEF LateInbox, LateConv
  <2>2. convs' = convs \/ convs' = Append(convs, t)
    BY <1>5 DEF LateInbox, LateConv
  <2>3. Len(convs) \in Nat /\ Len(convs') \in Nat /\ Len(convs') >= Len(convs)
    BY <2>2 DEF TypeOK
  <2>4. \A u \in Threads : row[u].conv \in Nat
    BY DEF TypeOK
  <2> QED
    BY <2>1, <2>3, <2>4 DEF MapInv, Conversations, Replacing, Ready, Locked
<1> QED
  BY <1>1, <1>2, <1>3, <1>4, <1>5 DEF Next

\* The inductive invariant.
IInv == TypeOK /\ LockInv /\ MapInv

(* The lock has one holder per thread, and what each request knows of the  *)
(* mapping stays true, in every state.                                     *)
THEOREM MappingInvariant == Spec => []IInv
<1>1. Init => LockInv /\ MapInv
  <2> SUFFICES ASSUME Init PROVE LockInv /\ MapInv
    OBVIOUS
  <2>1. /\ \A r \in Requests : pc[r] = "start" /\ stale[r] = 0
        /\ \A t \in Threads : row[t].conv = 0
        /\ Len(convs) = 0
    BY DEF Init
  <2> QED
    BY <2>1 DEF LockInv, MapInv, Locked, LockedPCs, Replacing, Ready
<1>2. TypeOK /\ LockInv /\ MapInv /\ [Next]_vars => LockInv' /\ MapInv'
  BY LockStep, MapStep
<1> QED
  BY <1>1, <1>2, TypeCorrect, PTL DEF Spec, IInv

(* The requests that end with a live conversation of a thread end with the *)
(* one its row names (bootstrapThreadConversation reads the row again).    *)
THEOREM OneConversationForAll == Spec => []SameConversation
<1>1. IInv => SameConversation
  BY DEF IInv, MapInv, SameConversation, Ready
<1> QED
  BY <1>1, MappingInvariant, PTL

(* A thread keeps its conversation until that is deleted, and then takes a *)
(* younger one: the bootstrap implements ConversationMapping.              *)
THEOREM MappingKept == Spec => ImplementsMapping
<1>1. Init => \A t \in Threads : Mapping(t)!Init
  BY DEF Init, Mapping!Init
<1>2. IInv /\ [Next]_vars =>
        [\A t \in Threads : [Mapping(t)!Next]_<<row[t].conv, gone>>]_vars
  <2> SUFFICES ASSUME IInv, [Next]_vars, NEW u \in Threads
               PROVE  [Mapping(u)!Next]_<<row[u].conv, gone>>
    OBVIOUS
  <2>1. ASSUME NEW r \in Requests, Step(r)
        PROVE  [Mapping(u)!Next]_<<row[u].conv, gone>>
    <3>1. gone' = gone
      BY <2>1, OwnStep DEF IInv
    <3>2. CASE row'[u].conv = row[u].conv
      BY <3>1, <3>2
    <3>3. CASE row'[u].conv # row[u].conv
      <4>1. SaveConv(r) /\ u = ThreadOf[r] /\ row'[u].conv = conv[r]
        BY <2>1, <3>3, MappingFrame DEF IInv
      <4>2. /\ row[u].conv \in {0, stale[r]} /\ stale[r] \in gone \cup {0}
            /\ conv[r] \in Nat /\ conv[r] > row[u].conv
        BY <4>1 DEF IInv, TypeOK, MapInv, SaveConv, Replacing, Locked, LockedPCs
      <4> QED
        BY <3>1, <4>1, <4>2 DEF Mapping!Next, Mapping!Remap
    <3> QED
      BY <3>2, <3>3
  <2>2. CASE Crash \/ (\E t \in Threads : LateInbox(t) \/ LateConv(t)) \/ UNCHANGED vars
    BY <2>2 DEF Crash, LateInbox, LateConv, vars
  <2>3. CASE DeleteConversation
    BY <2>3 DEF DeleteConversation, Mapping!Next, Mapping!Delete
  <2> QED
    BY <2>1, <2>2, <2>3 DEF Next
<1> QED
  BY <1>1, <1>2, MappingInvariant, PTL DEF Spec, ImplementsMapping
-----------------------------------------------------------------------------
(* What is left behind in Chatwoot.                                        *)

(* Of the portal's steps only CreateSource adds an inbox and only           *)
(* SaveSource writes a source id, and a step touches no thread but its own. *)
LEMMA SourceFrame ==
  ASSUME TypeOK, NEW r \in Requests, Step(r)
  PROVE  LET t == ThreadOf[r]
         IN /\ \A u \in Threads \ {t} : row'[u] = row[u] /\ inboxes'[u] = inboxes[u]
            /\ ~ CreateSource(r) => inboxes' = inboxes
            /\ CreateSource(r) => inboxes'[t] \in {inboxes[t], inboxes[t] + 1}
            /\ ~ SaveSource(r) => row'[t].source = row[t].source
            /\ SaveSource(r) => row'[t].source \in {row[t].source, source[r]}
<1> DEFINE t == ThreadOf[r]
<1>1. t \in Threads /\ row[t] \in [exists : BOOLEAN, source : Nat, conv : Nat]
  BY BootstrapAssumption DEF TypeOK
<1>2. /\ ~ CreateSource(r) => inboxes' = inboxes
      /\ CreateSource(r) => inboxes' \in {inboxes, [inboxes EXCEPT ![t] = @ + 1]}
  BY DEF Step, Resolve, InsertThread, UpdateThread, Begin, Lock, FindThread,
         FindSource, CreateSource, RefindSource, SaveSource, CreateConv, SaveConv,
         Use, Commit, chatwoot
<1>3. \A u \in Threads : inboxes'[u] = inboxes[u] \/ u = t
  BY <1>1, <1>2 DEF TypeOK
<1>4. CreateSource(r) => inboxes'[t] \in {inboxes[t], inboxes[t] + 1}
  BY <1>1, <1>2 DEF TypeOK
<1>5. /\ [row[t] EXCEPT !.exists = TRUE].source = row[t].source
      /\ [row[t] EXCEPT !.conv = conv[r]].source = row[t].source
      /\ [row[t] EXCEPT !.source = source[r]].source = source[r]
  BY <1>1
<1>6. CASE SaveSource(r)
  <2>1. \/ row' = row
        \/ row' = [row EXCEPT ![t] = [row[t] EXCEPT !.source = source[r]]]
    BY <1>1, <1>6 DEF SaveSource, TypeOK
  <2>2. /\ \A u \in Threads \ {t} : row'[u] = row[u]
        /\ row'[t].source \in {row[t].source, source[r]}
    BY <1>1, <1>5, <2>1 DEF TypeOK
  <2> QED
    BY <1>2, <1>3, <1>4, <1>6, <2>2
<1>7. CASE ~ SaveSource(r)
  <2>1. \/ row' = row
        \/ row' = [row EXCEPT ![t] = [row[t] EXCEPT !.exists = TRUE]]
        \/ row' = [row EXCEPT ![t] = [row[t] EXCEPT !.conv = conv[r]]]
    BY <1>1, <1>7
    DEF Step, Resolve, InsertThread, UpdateThread, Begin, Lock, Commit, FindThread,
        FindSource, CreateSource, RefindSource, CreateConv, SaveConv, Use, TypeOK
  <2>2. /\ \A u \in Threads \ {t} : row'[u] = row[u]
        /\ row'[t].source = row[t].source
    BY <1>1, <1>5, <2>1 DEF TypeOK
  <2> QED
    BY <1>2, <1>3, <1>4, <1>7, <2>2
<1> QED
  BY <1>6, <1>7

\* What SourceInv says of thread t, and of request r in a state.
KnownInbox(t) ==
  /\ inboxes[t] <= 1 + unheard[t]
  /\ row[t].source <= inboxes[t]
  /\ row[t].conv # 0 => row[t].source # 0

KnowsSource(r) ==
  /\ pc[r] = "createSource" => inboxes[ThreadOf[r]] <= unheard[ThreadOf[r]]
  /\ pc[r] = "saveSource" => source[r] \in 1 .. inboxes[ThreadOf[r]]
  /\ pc[r] \in {"createConv", "saveConv"} => row[ThreadOf[r]].source # 0

(* A step leaves its own thread with one inbox it knows of, at most.       *)
LEMMA OwnSource ==
  ASSUME TypeOK, NEW r \in Requests, Step(r), KnownInbox(ThreadOf[r]), KnowsSource(r)
  PROVE  /\ KnownInbox(ThreadOf[r])'
         /\ KnowsSource(r)'
         /\ Locked(r) \/ /\ inboxes'[ThreadOf[r]] = inboxes[ThreadOf[r]]
                         /\ row'[ThreadOf[r]].source = row[ThreadOf[r]].source
<1> DEFINE t == ThreadOf[r]
<1>0. /\ t \in Threads /\ inboxes[t] \in Nat /\ unheard[t] \in Nat
      /\ inboxes[t] <= 1 + unheard[t] /\ unheard' = unheard
      /\ row[t].source \in Nat /\ row[t].source <= inboxes[t]
  BY SharedTypes, BootstrapAssumption DEF TypeOK, KnownInbox
<1>1. CASE CreateSource(r)
  <2>1. /\ pc[r] = "createSource" /\ inboxes[t] <= unheard[t]
        /\ row'[t] = row[t]
    BY <1>1 DEF CreateSource, KnowsSource
  <2>2. inboxes'[t] \in {inboxes[t], inboxes[t] + 1}
    BY <1>1, <2>1, SourceFrame
  <2>3. /\ pc'[r] \in {"saveSource", "refindSource"}
        /\ pc'[r] = "saveSource" => source'[r] = inboxes'[t] /\ inboxes'[t] = inboxes[t] + 1
    BY <1>0, <1>1, <2>1 DEF CreateSource, Goto, TypeOK
  <2> QED
    BY <1>0, <2>1, <2>2, <2>3 DEF KnownInbox, KnowsSource, Locked, LockedPCs
<1>2. CASE SaveSource(r)
  <2>1. /\ pc[r] = "saveSource" /\ source[r] \in 1 .. inboxes[t]
        /\ inboxes' = inboxes
    BY <1>2 DEF SaveSource, KnowsSource, chatwoot
  <2>2. row'[t].source \in {row[t].source, source[r]}
    BY <1>2, <2>1, SourceFrame
  <2>3. row'[t].conv = row[t].conv
    BY <1>0, <1>2, MappingFrame DEF SaveSource, SaveConv
  <2>4. /\ pc'[r] \in {"createConv", "commit"}
        /\ pc'[r] = "createConv" => row'[t].source = source[r]
    BY <1>0, <1>2, <2>1 DEF SaveSource, Return, Goto, TypeOK
  <2> QED
    BY <1>0, <2>1, <2>2, <2>3, <2>4 DEF KnownInbox, KnowsSource, Locked, LockedPCs
<1>3. CASE SaveConv(r)
  <2>1. pc[r] = "saveConv" /\ row[t].source # 0 /\ pc'[r] = "commit"
    BY <1>3 DEF SaveConv, KnowsSource, Return, Goto, TypeOK
  <2>2. inboxes' = inboxes /\ row'[t].source = row[t].source
    <3>1. ~ CreateSource(r) /\ ~ SaveSource(r)
      BY <2>1 DEF CreateSource, SaveSource
    <3> QED
      BY <3>1, SourceFrame
  <2> QED
    BY <1>0, <2>1, <2>2 DEF KnownInbox, KnowsSource, Locked, LockedPCs
<1>4. CASE ~ (CreateSource(r) \/ SaveSource(r) \/ SaveConv(r))
  <2>1. /\ inboxes' = inboxes
        /\ row'[t].source = row[t].source
        /\ row'[t].conv = row[t].conv
    BY <1>0, <1>4, SourceFrame, MappingFrame
  <2>2. CASE FindSource(r) \/ RefindSource(r)
    <3>1. /\ pc'[r] \in {"saveSource", "createSource", "commit"}
          /\ pc'[r] = "createSource" => inboxes[t] = 0
          /\ pc'[r] = "saveSource" => source'[r] \in 1 .. inboxes[t]
      BY <2>2 DEF FindSource, RefindSource, FoundSource, Return, Goto, TypeOK
    <3> QED
      BY <1>0, <2>1, <3>1 DEF KnownInbox, KnowsSource
  <2>3. CASE CreateConv(r)
    BY <1>0, <2>1, <2>3
    DEF CreateConv, Return, Goto, TypeOK, KnownInbox, KnowsSource
  <2>4. CASE ~ (FindSource(r) \/ RefindSource(r) \/ CreateConv(r))
    <3>1. pc'[r] \notin {"createSource", "saveSource", "createConv", "saveConv"}
      BY <1>4, <2>4
      DEF Step, Resolve, InsertThread, UpdateThread, Resolved, Begin, Lock, Commit,
          FindThread, Use, Return, Finish, Goto, TypeOK
    <3> QED
      BY <1>0, <2>1, <3>1 DEF KnownInbox, KnowsSource
  <2> QED
    BY <2>2, <2>3, <2>4
<1> QED
  BY <1>1, <1>2, <1>3, <1>4

(* Under the lock, a contact gets one inbox beside those that come late.   *)
LEMMA SourceStep ==
  ASSUME TypeOK, LockInv, SourceInv, [Next]_vars
  PROVE  SourceInv'
<1> SUFFICES (\A t \in Threads : KnownInbox(t)') /\ (\A q \in Requests : KnowsSource(q)')
  BY DEF SourceInv, KnownInbox, KnowsSource
<1>0. (\A t \in Threads : KnownInbox(t)) /\ (\A q \in Requests : KnowsSource(q))
  BY DEF SourceInv, KnownInbox, KnowsSource
<1>1. ASSUME NEW r \in Requests, Step(r)
      PROVE  (\A t \in Threads : KnownInbox(t)') /\ (\A q \in Requests : KnowsSource(q)')
  <2>0. unheard' = unheard
    BY <1>1, SharedTypes
  <2>1. /\ KnownInbox(ThreadOf[r])' /\ KnowsSource(r)'
        /\ Locked(r) \/ /\ inboxes'[ThreadOf[r]] = inboxes[ThreadOf[r]]
                        /\ row'[ThreadOf[r]].source = row[ThreadOf[r]].source
    BY <1>0, <1>1, OwnSource, BootstrapAssumption
  <2>2. ASSUME NEW u \in Threads PROVE KnownInbox(u)'
    <3>1. CASE u = ThreadOf[r]
      BY <2>1, <3>1
    <3>2. CASE u # ThreadOf[r]
      <4>1. row'[u] = row[u] /\ inboxes'[u] = inboxes[u]
        BY <1>1, <3>2, SourceFrame
      <4> QED
        BY <1>0, <2>0, <4>1 DEF KnownInbox
    <3> QED
      BY <3>1, <3>2
  <2>3. ASSUME NEW q \in Requests PROVE KnowsSource(q)'
    <3>1. CASE q = r
      BY <2>1, <3>1
    <3>2. CASE q # r
      <4>1. pc'[q] = pc[q] /\ source'[q] = source[q]
        <5>1. /\ pc' = [pc EXCEPT ![r] = pc'[r]]
              /\ source' = [source EXCEPT ![r] = source'[r]]
          BY <1>1, OwnStep
        <5>2. pc \in [Requests -> PCs] /\ source \in [Requests -> Nat]
          BY DEF TypeOK
        <5> QED
          BY <3>2, <5>1, <5>2
      <4>2. CASE ~ Locked(q)
        BY <4>1, <4>2 DEF KnowsSource, Locked, LockedPCs
      <4>3. CASE Locked(q)
        <5>1. /\ inboxes'[ThreadOf[q]] = inboxes[ThreadOf[q]]
              /\ row'[ThreadOf[q]].source = row[ThreadOf[q]].source
          <6>1. CASE ThreadOf[q] = ThreadOf[r]
            BY <2>1, <3>2, <4>3, <6>1 DEF LockInv
          <6>2. CASE ThreadOf[q] # ThreadOf[r]
            BY <1>1, <6>2, SourceFrame, BootstrapAssumption
          <6> QED
            BY <6>1, <6>2
        <5> QED
          BY <1>0, <2>0, <4>1, <5>1 DEF KnowsSource
      <4> QED
        BY <4>2, <4>3
    <3> QED
      BY <3>1, <3>2
  <2> QED
    BY <2>2, <2>3
<1>2. CASE Crash
  <2>1. UNCHANGED <<row, inboxes, unheard>>
    BY <1>2 DEF Crash
  <2>2. \A q \in Requests : \/ pc'[q] = "crashed"
                            \/ pc'[q] = pc[q] /\ source'[q] = source[q]
    BY <1>2 DEF Crash, Forgotten
  <2> QED
    BY <1>0, <2>1, <2>2 DEF KnownInbox, KnowsSource
<1>3. CASE DeleteConversation \/ UNCHANGED vars
  BY <1>0, <1>3 DEF DeleteConversation, late, vars, KnownInbox, KnowsSource
<1>4. ASSUME NEW t \in Threads, LateInbox(t) \/ LateConv(t)
      PROVE  (\A u \in Threads : KnownInbox(u)') /\ (\A q \in Requests : KnowsSource(q)')
  <2>1. UNCHANGED <<row, pc, source>>
    BY <1>4 DEF LateInbox, LateConv
  <2>2. \A u \in Threads : \/ inboxes'[u] = inboxes[u] /\ unheard'[u] = unheard[u]
                           \/ inboxes'[u] = inboxes[u] + 1 /\ unheard'[u] = unheard[u] + 1
    BY <1>4 DEF LateInbox, LateConv, TypeOK
  <2>3. \A u \in Threads : inboxes[u] \in Nat /\ unheard[u] \in Nat /\ row[u].source \in Nat
    BY DEF TypeOK
  <2>4. ASSUME NEW u \in Threads PROVE KnownInbox(u)'
    BY <1>0, <2>1, <2>2, <2>3 DEF KnownInbox
  <2>5. ASSUME NEW q \in Requests PROVE KnowsSource(q)'
    <3>1. ThreadOf[q] \in Threads
      BY BootstrapAssumption
    <3> QED
      BY <1>0, <2>1, <2>2, <2>3, <3>1 DEF KnowsSource
  <2> QED
    BY <2>4, <2>5
<1> QED
  BY <1>1, <1>2, <1>3, <1>4 DEF Next
\* The conversations that a row names, that the lock holders are about to
\* save, and the live ones that nobody has.
Named == {row[t].conv : t \in Threads}
SaveConvs == {r \in Requests : pc[r] = "saveConv"}
Saving == {conv[r] : r \in SaveConvs}
Orphans == Conversations \ (gone \cup Named \cup Saving)

(* One element more.                                                       *)
LEMMA OneMore ==
  ASSUME NEW S, IsFiniteSet(S), NEW x, NEW T, T \subseteq S \cup {x}
  PROVE  /\ Cardinality(S) \in Nat /\ Cardinality(T) \in Nat
         /\ Cardinality(T) <= Cardinality(S) + 1
<1>1. /\ IsFiniteSet(S \cup {x})
      /\ Cardinality(S \cup {x}) \in {Cardinality(S), Cardinality(S) + 1}
  BY FS_AddElement
<1>2. IsFiniteSet(T) /\ Cardinality(T) <= Cardinality(S \cup {x})
  BY <1>1, FS_Subset
<1>3. /\ Cardinality(S) \in Nat /\ Cardinality(T) \in Nat
      /\ Cardinality(S \cup {x}) \in Nat
  BY <1>1, <1>2, FS_CardinalityType
<1> QED
  BY <1>1, <1>2, <1>3

(* The orphans can be counted.                                             *)
LEMMA OrphansCount ==
  ASSUME TypeOK
  PROVE  IsFiniteSet(Orphans) /\ Cardinality(Orphans) \in Nat
<1>1. Len(convs) \in Nat
  BY DEF TypeOK
<1>2. IsFiniteSet(Conversations)
  BY <1>1, FS_Interval DEF Conversations
<1>3. Orphans \in SUBSET Conversations
  BY DEF Orphans
<1> QED
  BY <1>2, <1>3, FS_Subset, FS_CardinalityType

(* The lock holders about to save are at least as many as what they save.  *)
LEMMA SavingCount ==
  /\ IsFiniteSet(Saving)
  /\ Cardinality(Saving) \in Nat /\ Cardinality(SaveConvs) \in Nat
  /\ Cardinality(Saving) <= Cardinality(SaveConvs)
<1> DEFINE f == [r \in SaveConvs |-> conv[r]]
<1>1. IsFiniteSet(SaveConvs) /\ Cardinality(SaveConvs) \in Nat
  BY BootstrapAssumption, FS_Subset, FS_CardinalityType DEF SaveConvs
<1>2. f \in Surjection(SaveConvs, Saving)
  BY DEF Surjection, Saving
<1>3. IsFiniteSet(Saving) /\ Cardinality(Saving) <= Cardinality(SaveConvs)
  BY <1>1, <1>2, FS_Surjection
<1> QED
  BY <1>1, <1>3, FS_CardinalityType

(* Only the two steps that can lose a conversation make an orphan, and one *)
(* at most.                                                                *)
LEMMA OrphansFrame ==
  ASSUME TypeOK, MapInv, NEW r \in Requests, Step(r)
  PROVE  \/ lost' = lost /\ Orphans' \subseteq Orphans
         \/ lost' = lost + 1 /\ \E x : Orphans' \subseteq Orphans \cup {x}
<1> DEFINE t == ThreadOf[r]
<1>0. t \in Threads /\ gone' = gone
  BY OwnStep, BootstrapAssumption
<1>1. \A q \in Requests \ {r} : pc'[q] = pc[q] /\ conv'[q] = conv[q]
  BY OwnStep DEF TypeOK
<1>2. CASE CreateConv(r)
  <2>1. /\ row' = row /\ pc[r] # "saveConv"
        /\ lost' = lost
        /\ \/ convs' = convs
           \/ /\ convs' = Append(convs, t)
              /\ pc'[r] = "saveConv" /\ conv'[r] = Len(convs')
    BY <1>2 DEF CreateConv, Return, Goto, TypeOK
  <2>2. /\ Len(Append(convs, t)) = Len(convs) + 1
        /\ Len(convs) \in Nat
    BY <1>0 DEF TypeOK
  <2>3. \A q \in SaveConvs : q \in SaveConvs' /\ conv'[q] = conv[q]
    BY <1>1, <2>1 DEF SaveConvs
  <2>4. Saving \subseteq Saving' /\ Named' = Named
    BY <2>1, <2>3 DEF Saving, Named
  <2>5. CASE convs' = convs
    BY <1>0, <2>1, <2>4, <2>5 DEF Orphans, Conversations
  <2>6. CASE convs' = Append(convs, t)
    <3>1. Conversations' = Conversations \cup {Len(convs) + 1}
      BY <2>2, <2>6 DEF Conversations
    <3>2. Orphans' \subseteq Orphans \cup {Len(convs) + 1}
      BY <1>0, <2>4, <3>1 DEF Orphans
    <3>3. pc'[r] = "saveConv" /\ conv'[r] = Len(convs')
      <4>1. convs' # convs
        BY <2>2, <2>6
      <4> QED
        BY <2>1, <4>1
    <3>4. Len(convs) + 1 \in Saving'
      BY <2>2, <2>6, <3>3 DEF Saving, SaveConvs
    <3>5. Orphans' \subseteq Orphans
      BY <3>2, <3>4 DEF Orphans
    <3> QED
      BY <2>1, <3>5
  <2> QED
    BY <2>1, <2>5, <2>6
<1>3. CASE SaveConv(r)
  <2>1. /\ pc[r] = "saveConv" /\ convs' = convs
        /\ \/ lost' = lost /\ row' = [row EXCEPT ![t].conv = conv[r]]
           \/ lost' = lost + 1 /\ row' = row
    BY <1>3 DEF SaveConv, Return
  <2>2. \A q \in SaveConvs \ {r} : q \in SaveConvs'
    BY <1>1 DEF SaveConvs
  <2>3. Saving \subseteq Saving' \cup {conv[r]}
    BY <1>1, <2>1, <2>2 DEF Saving, SaveConvs
  <2>4. CASE lost' = lost + 1 /\ row' = row
    <3>1. Named' = Named /\ Conversations' = Conversations
      BY <2>1, <2>4 DEF Named, Conversations
    <3>2. Orphans' \subseteq Orphans \cup {conv[r]}
      BY <1>0, <2>3, <3>1 DEF Orphans
    <3> QED
      BY <2>4, <3>2
  <2>5. CASE lost' = lost /\ row' = [row EXCEPT ![t].conv = conv[r]]
    <3>1. row[t].conv \in {0} \cup gone
      BY <2>1 DEF MapInv, Replacing, Locked, LockedPCs
    <3>2. /\ row'[t].conv = conv[r]
          /\ \A u \in Threads \ {t} : row'[u] = row[u]
      BY <1>0, <2>5 DEF TypeOK
    <3>3. conv[r] \in Named'
      BY <1>0, <3>2 DEF Named
    <3>4. Named \subseteq Named' \cup {0} \cup gone
      BY <3>1, <3>2 DEF Named
    <3>5. Conversations' = Conversations /\ 0 \notin Conversations
      BY <2>1 DEF Conversations
    <3>6. Orphans' \subseteq Orphans
      BY <1>0, <2>3, <3>3, <3>4, <3>5 DEF Orphans
    <3> QED
      BY <2>5, <3>6
  <2> QED
    BY <2>1, <2>4, <2>5
<1>4. CASE ~ (CreateConv(r) \/ SaveConv(r))
  <2>1. lost' = lost /\ convs' = convs
    BY <1>4
    DEF Step, Resolve, InsertThread, UpdateThread, Begin, Lock, Commit, FindThread,
        FindSource, CreateSource, RefindSource, SaveSource, Use, chatwoot
  <2>2. pc[r] # "saveConv"
    BY <1>4
    DEF Step, Resolve, InsertThread, UpdateThread, Begin, Lock, Commit, FindThread,
        FindSource, CreateSource, RefindSource, SaveSource, Use
  <2>3. \A q \in SaveConvs : q \in SaveConvs' /\ conv'[q] = conv[q]
    BY <1>1, <2>2 DEF SaveConvs
  <2>4. Saving \subseteq Saving'
    BY <2>3 DEF Saving
  <2>5. Named' = Named
    BY <1>4, MappingFrame DEF Named
  <2> QED
    BY <1>0, <2>1, <2>4, <2>5 DEF Orphans, Conversations
<1> QED
  BY <1>2, <1>3, <1>4

(* There are never more orphans than failures that lost a conversation.    *)
LEMMA OrphansStep ==
  ASSUME TypeOK, TypeOK', MapInv, [Next]_vars, Cardinality(Orphans) <= lost
  PROVE  Cardinality(Orphans') <= lost'
<1>0. /\ IsFiniteSet(Orphans) /\ Cardinality(Orphans) \in Nat /\ lost \in Nat
      /\ lost' \in Nat /\ Cardinality(Orphans') \in Nat
  <2>1. IsFiniteSet(Orphans') /\ Cardinality(Orphans') \in Nat
    <3>1. Len(convs') \in Nat
      BY DEF TypeOK
    <3>2. IsFiniteSet(Conversations')
      BY <3>1, FS_Interval DEF Conversations
    <3>3. Orphans' \in SUBSET Conversations'
      BY DEF Orphans
    <3> QED
      BY <3>2, <3>3, FS_Subset, FS_CardinalityType
  <2> QED
    BY <2>1, OrphansCount DEF TypeOK
<1>1. ASSUME Orphans' \subseteq Orphans, lost' = lost
      PROVE  Cardinality(Orphans') <= lost'
  BY <1>0, <1>1, FS_Subset
<1>2. ASSUME NEW r \in Requests, Step(r) PROVE Cardinality(Orphans') <= lost'
  <2>1. ASSUME NEW x, Orphans' \subseteq Orphans \cup {x}, lost' = lost + 1
        PROVE  Cardinality(Orphans') <= lost'
    <3>1. Cardinality(Orphans') <= Cardinality(Orphans) + 1
      BY <1>0, <2>1, OneMore
    <3> QED
      BY <1>0, <2>1, <3>1
  <2> QED
    BY <1>1, <1>2, <2>1, OrphansFrame
<1>3. CASE Crash
  <2>1. /\ UNCHANGED <<row, convs, gone>>
        /\ lost' = lost + Cardinality(SaveConvs)
    BY <1>3 DEF Crash, SaveConvs
  <2>2. Orphans' \subseteq Orphans \cup Saving
    BY <2>1 DEF Orphans, Conversations, Named
  <2>3. /\ IsFiniteSet(Orphans \cup Saving)
        /\ Cardinality(Orphans \cup Saving) =
             Cardinality(Orphans) + Cardinality(Saving) - Cardinality(Orphans \cap Saving)
    BY <1>0, SavingCount, FS_Union
  <2>4. Cardinality(Orphans \cap Saving) \in Nat
    BY <1>0, FS_Intersection, FS_CardinalityType
  <2>5. Cardinality(Orphans') <= Cardinality(Orphans \cup Saving)
    BY <2>2, <2>3, FS_Subset
  <2> QED
    BY <1>0, <2>1, <2>3, <2>4, <2>5, SavingCount
<1>4. CASE DeleteConversation
  BY <1>1, <1>4
  DEF DeleteConversation, Orphans, Conversations, Named, Saving, SaveConvs
<1>5. CASE UNCHANGED vars
  BY <1>1, <1>5
  DEF vars, Orphans, Conversations, Named, Saving, SaveConvs
<1>6. ASSUME NEW t \in Threads, LateInbox(t) PROVE Cardinality(Orphans') <= lost'
  BY <1>1, <1>6
  DEF LateInbox, Orphans, Conversations, Named, Saving, SaveConvs
<1>7. ASSUME NEW t \in Threads, LateConv(t) PROVE Cardinality(Orphans') <= lost'
  <2>1. UNCHANGED <<row, gone, pc, conv>> /\ lost' = lost + 1 /\ convs' = Append(convs, t)
    BY <1>7 DEF LateConv
  <2>2. Len(convs') = Len(convs) + 1 /\ Len(convs) \in Nat
    BY <2>1 DEF TypeOK
  <2>3. Conversations' = Conversations \cup {Len(convs) + 1}
    BY <2>2 DEF Conversations
  <2>4. Orphans' \subseteq Orphans \cup {Len(convs) + 1}
    BY <2>1, <2>3 DEF Orphans, Named, Saving, SaveConvs
  <2>5. Cardinality(Orphans') <= Cardinality(Orphans) + 1
    BY <1>0, <2>4, OneMore
  <2> QED
    BY <1>0, <2>1, <2>5
<1> QED
  BY <1>2, <1>3, <1>4, <1>5, <1>6, <1>7 DEF Next

(* Nothing is left behind in Chatwoot without a failure that lost it: no   *)
(* conversation, and no portal inbox of a contact beside the one that the  *)
(* portal has created and heard of.                                        *)
THEOREM NothingLeftBehind == Spec => []OrphansAccounted
<1> DEFINE Counted == Cardinality(Orphans) <= lost
<1>1. Init => SourceInv /\ Counted
  <2> SUFFICES ASSUME Init PROVE SourceInv /\ Counted
    OBVIOUS
  <2>1. SourceInv
    BY BootstrapAssumption DEF Init, SourceInv
  <2>2. Orphans = {} /\ lost = 0
    BY DEF Init, Orphans, Conversations
  <2> QED
    BY <2>1, <2>2, FS_EmptySet
<1>2. IInv /\ IInv' /\ SourceInv /\ Counted /\ [Next]_vars => SourceInv' /\ Counted'
  BY SourceStep, OrphansStep DEF IInv
<1>3. SourceInv /\ Counted => OrphansAccounted
  BY DEF SourceInv, OrphansAccounted, Orphans, Named, Saving, SaveConvs
<1> QED
  BY <1>1, <1>2, <1>3, MappingInvariant, PTL DEF Spec

-----------------------------------------------------------------------------
(* TelegramBridge, for any updates, requests, set-ups and bounds: while    *)
(* nothing unclear has happened to an update, at most one request works on *)
(* it, that request holds its row, and a post is followed by the mark or   *)
(* by nothing.                                                             *)


\* request h has acquired the row of update u
Busy(h, u) == handler[h].pc \in Working /\ handler[h].update = {u}

Bound == \A h \in Handlers : handler[h].pc # "idle" => \E u \in Updates : handler[h].update = {u}

Handled(u) == posted[u] > 0 \/ kind[u] = "unsupported"

\* a mark as processed stands for a post, and a 200 for a mark or a post
Told(u) ==
    /\ delivery[u].status = "processed" => Handled(u)
    /\ \A h \in Handlers : handler[h].update = {u} /\ handler[h].pc \in {"mark", "markAfter"}
                               => Handled(u)
    /\ u \notin waiting => Handled(u) \/ u \in ignored

Once(u) ==
    /\ \A h \in Handlers : Busy(h, u) =>
           delivery[u].status = "processing" /\ delivery[u].attempt = handler[h].attempt
    /\ \A h, k \in Handlers : Busy(h, u) /\ Busy(k, u) => h = k
    /\ posted[u] = 0 \/ posted[u] = 1
    /\ posted[u] = 1 => \/ delivery[u].status = "processed"
                        \/ \E h \in Handlers : Busy(h, u) /\ handler[h].pc = "markAfter"

BridgeInv ==
    /\ BridgeTypeOK
    /\ Bound
    /\ \A u \in Updates : Told(u)
    /\ \A u \in Updates \ unclear : Once(u)

LEMMA UpdateOf ==
    ASSUME NEW h, NEW u, handler[h].update = {u}
    PROVE  Update(h) = u
  BY DEF Update

LEMMA InitInv == BridgeInit => BridgeInv
  <1> SUFFICES ASSUME BridgeInit PROVE BridgeInv
    OBVIOUS
  <1>1. BridgeTypeOK
    BY BridgeBounds DEF BridgeInit, BridgeTypeOK, Kinds, Statuses, NoDelivery, Gone, Working
  <1>2. \A h \in Handlers : handler[h].pc = "idle"
    BY DEF BridgeInit, Gone
  <1>3. \A u \in Updates : delivery[u].status = "none" /\ posted[u] = 0 /\ u \in waiting
    BY DEF BridgeInit, NoDelivery
  <1> QED
    BY <1>1, <1>2, <1>3 DEF BridgeInv, Bound, Told, Once, Busy, Working

-----------------------------------------------------------------------------
(* Types.                                                                  *)

HandlerType ==
    [pc : {"idle", "config", "insert", "select", "update", "reselect"} \cup Working,
     update : SUBSET Updates, at : Nat, attempt : Nat]

LEMMA GoTyped ==
    ASSUME BridgeTypeOK, NEW h \in Handlers, NEW at \in Working \cup {"select", "update", "reselect"},
           Go(h, at)
    PROVE  handler' \in [Handlers -> HandlerType]
  BY DEF BridgeTypeOK, Go, HandlerType

LEMMA AnswerTyped ==
    ASSUME BridgeTypeOK, NEW h \in Handlers, NEW ok, Answer(h, ok)
    PROVE  /\ handler' \in [Handlers -> HandlerType]
           /\ waiting' \subseteq Updates
           /\ faults' \in 0 .. MaxFaults
  BY BridgeBounds DEF BridgeTypeOK, Answer, Gone, HandlerType, Fault

LEMMA MarkedTyped ==
    ASSUME BridgeTypeOK, Bound, NEW h \in Handlers, handler[h].pc # "idle", NEW s \in Statuses
    PROVE  Marked(h, s) \in [Updates -> [status : Statuses, attempt : Nat, since : Nat]]
  <1>1. PICK u \in Updates : handler[h].update = {u}
    BY DEF Bound
  <1>2. Update(h) = u
    BY <1>1, UpdateOf
  <1>3. handler[h].at \in Nat
    BY DEF BridgeTypeOK
  <1>4. delivery \in [Updates -> [status : Statuses, attempt : Nat, since : Nat]]
    BY DEF BridgeTypeOK
  <1>5. Marked(h, s) = delivery \/ Marked(h, s) = [delivery EXCEPT ![u].status = s,
                                                                  ![u].since = handler[h].at]
    BY <1>2 DEF Marked
  <1>6. CASE Marked(h, s) = delivery
    BY <1>6, <1>4
  <1>7. CASE Marked(h, s) = [delivery EXCEPT ![u].status = s, ![u].since = handler[h].at]
    BY <1>7, <1>4, <1>3
  <1> QED
    BY <1>5, <1>6, <1>7

LEMMA AcquireTyped ==
    ASSUME BridgeTypeOK, Bound, NEW h \in Handlers, handler[h].pc # "idle", NEW n \in Nat,
           Acquire(h, n)
    PROVE  /\ delivery' \in [Updates -> [status : Statuses, attempt : Nat, since : Nat]]
           /\ handler' \in [Handlers -> HandlerType]
  <1>1. PICK u \in Updates : handler[h].update = {u}
    BY DEF Bound
  <1>2. Update(h) = u
    BY <1>1, UpdateOf
  <1>3. First(u) \in Working
    BY DEF First, Working
  <1>4. handler[h].at \in Nat
    BY DEF BridgeTypeOK
  <1>5. delivery' \in [Updates -> [status : Statuses, attempt : Nat, since : Nat]]
    BY <1>2, <1>4 DEF Acquire, BridgeTypeOK, Statuses
  <1>6. handler \in [Handlers -> HandlerType]
    BY DEF BridgeTypeOK, HandlerType
  <1>7. handler' = [handler EXCEPT ![h].pc = First(u), ![h].attempt = n]
    BY <1>2 DEF Acquire
  <1>8. handler' \in [Handlers -> HandlerType]
    BY <1>3, <1>6, <1>7 DEF HandlerType
  <1> QED
    BY <1>5, <1>8

LEMMA FaultTyped ==
    ASSUME BridgeTypeOK, Fault
    PROVE  faults' \in 0 .. MaxFaults
  BY BridgeBounds DEF BridgeTypeOK, Fault

-----------------------------------------------------------------------------
(* One request at one update: the others keep what they have.              *)

\* a step of request h at update u leaves every other request and update alone
Local(h, u) ==
    /\ handler[h].update = {u}
    /\ \A k \in Handlers : k # h => handler'[k] = handler[k]
    /\ handler'[h].update = {u} \/ (handler'[h].update = {} /\ handler'[h].pc = "idle")
    /\ kind' = kind
    /\ \A v \in Updates : v # u =>
          /\ delivery'[v] = delivery[v]
          /\ posted'[v] = posted[v]
          /\ v \in waiting' <=> v \in waiting
          /\ v \in ignored => v \in ignored'
          /\ v \in unclear => v \in unclear'

LEMMA Elsewhere ==
    ASSUME BridgeInv, NEW h \in Handlers, NEW u \in Updates, Local(h, u),
           BridgeTypeOK', Told(u)', u \notin unclear' => Once(u)'
    PROVE  BridgeInv'
  <1>1. Bound'
    <2> SUFFICES ASSUME NEW k \in Handlers, handler'[k].pc # "idle"
                 PROVE  \E v \in Updates : handler'[k].update = {v}
      BY DEF Bound
    <2> QED
      BY DEF BridgeInv, Bound, Local
  <1>2. ASSUME NEW v \in Updates PROVE Told(v)'
    <2>1. CASE v = u
      BY <2>1
    <2>2. CASE v # u
      <3>1. ASSUME NEW k \in Handlers, handler'[k].update = {v}
            PROVE  handler'[k] = handler[k]
        BY <3>1, <2>2 DEF Local
      <3> QED
        BY <3>1, <2>2 DEF Local, BridgeInv, Told, Handled
    <2> QED
      BY <2>1, <2>2
  <1>3. ASSUME NEW v \in Updates, v \notin unclear' PROVE Once(v)'
    <2>1. CASE v = u
      BY <2>1, <1>3
    <2>2. CASE v # u
      <3>1. \A k \in Handlers : Busy(k, v)' <=> Busy(k, v)
        BY <2>2 DEF Local, Busy
      <3>2. \A k \in Handlers : Busy(k, v) => handler'[k] = handler[k]
        BY <2>2 DEF Local, Busy
      <3>3. Once(v) /\ delivery'[v] = delivery[v] /\ posted'[v] = posted[v]
        BY <1>3, <2>2 DEF BridgeInv, Local
      <3> QED
        BY <3>1, <3>2, <3>3 DEF Once
    <2> QED
      BY <2>1, <2>2
  <1> QED
    BY <1>1, <1>2, <1>3 DEF BridgeInv

LEMMA HandlersBusy ==
    ASSUME BridgeInv, NEW h \in Handlers, handler[h].pc # "idle"
    PROVE  \E u \in Updates : handler[h].update = {u} /\ Update(h) = u
  BY UpdateOf DEF BridgeInv, Bound

\* a step between two calls: the request moves on, the rows stay
LEMMA MoveInv ==
    ASSUME BridgeInv, NEW h \in Handlers,
           NEW at \in {"select", "update", "reselect", "look", "link", "tell", "fail"},
           Go(h, at), BridgeTypeOK',
           handler[h].pc \notin {"idle", "markAfter"},
           handler[h].pc \in Working <=> at \in Working,
           UNCHANGED <<delivery, posted, waiting, kind, ignored, unclear>>
    PROVE  BridgeInv'
  <1>1. PICK u \in Updates : handler[h].update = {u}
    BY HandlersBusy
  <1>2. handler' = [handler EXCEPT ![h].pc = at] /\ handler \in [Handlers -> HandlerType]
    BY DEF Go, BridgeInv, BridgeTypeOK, HandlerType
  <1>3. /\ \A k \in Handlers : k # h => handler'[k] = handler[k]
        /\ handler'[h].update = {u} /\ handler'[h].pc = at
        /\ handler'[h].attempt = handler[h].attempt
    BY <1>1, <1>2 DEF HandlerType
  <1>4. Local(h, u)
    BY <1>1, <1>3 DEF Local
  <1>5. Told(u)'
    BY <1>3 DEF BridgeInv, Told, Handled
  <1>6. ASSUME u \notin unclear' PROVE Once(u)'
    <2>1. Once(u)
      BY <1>6 DEF BridgeInv
    <2>2. \A k \in Handlers : Busy(k, u)' <=> Busy(k, u)
      BY <1>1, <1>3 DEF Busy
    <2>3. \A k \in Handlers : handler'[k].attempt = handler[k].attempt
                              /\ (handler[k].pc = "markAfter" => handler'[k].pc = "markAfter")
      BY <1>3
    <2> QED
      BY <2>1, <2>2, <2>3 DEF Once
  <1> QED
    BY <1>4, <1>5, <1>6, Elsewhere

\* a request ends without a mark
LEMMA LeaveInv ==
    ASSUME BridgeInv, NEW h \in Handlers, NEW u \in Updates, handler[h].update = {u},
           handler' = [handler EXCEPT ![h] = Gone], BridgeTypeOK',
           UNCHANGED <<delivery, posted, kind>>,
           waiting' = waiting \/ (waiting' = waiting \ {u} /\ (Handled(u) \/ u \in ignored')),
           ignored \subseteq ignored', unclear \subseteq unclear',
           handler[h].pc = "markAfter" => u \in unclear',
           unclear' \subseteq unclear \cup {u}
    PROVE  BridgeInv'
  <1>1. handler \in [Handlers -> HandlerType]
    BY DEF BridgeInv, BridgeTypeOK, HandlerType
  <1>2. /\ \A k \in Handlers : k # h => handler'[k] = handler[k]
        /\ handler'[h].update = {} /\ handler'[h].pc = "idle"
    BY <1>1 DEF Gone
  <1>3. Local(h, u)
    BY <1>2 DEF Local
  <1>4. Told(u)'
    BY <1>2 DEF BridgeInv, Told, Handled
  <1>5. ASSUME u \notin unclear' PROVE Once(u)'
    <2>1. Once(u) /\ handler[h].pc # "markAfter"
      BY <1>5 DEF BridgeInv
    <2>2. \A k \in Handlers : Busy(k, u)' <=> Busy(k, u) /\ k # h
      BY <1>2 DEF Busy, Working
    <2>3. \A k \in Handlers : k # h => handler'[k] = handler[k]
      BY <1>2
    <2> QED
      BY <2>1, <2>2, <2>3 DEF Once
  <1> QED
    BY <1>3, <1>4, <1>5, Elsewhere

\* a request takes the row: nobody else works on an update that is clear
LEMMA AcquireInv ==
    ASSUME BridgeInv, NEW h \in Handlers, NEW u \in Updates, NEW n \in Nat,
           handler[h].update = {u}, handler[h].pc \in {"insert", "update"}, Acquire(h, n),
           delivery[u].status \in {"none", "failed"} \/ u \in unclear',
           UNCHANGED <<posted, kind, waiting, ignored>>,
           unclear' = unclear \/ unclear' = unclear \cup {u}, BridgeTypeOK'
    PROVE  BridgeInv'
  <1>1. Update(h) = u
    BY UpdateOf
  <1>2. /\ handler \in [Handlers -> HandlerType]
        /\ delivery \in [Updates -> [status : Statuses, attempt : Nat, since : Nat]]
    BY DEF BridgeInv, BridgeTypeOK, HandlerType
  <1>3. /\ \A k \in Handlers : k # h => handler'[k] = handler[k]
        /\ handler'[h].update = {u} /\ handler'[h].pc = First(u)
        /\ handler'[h].attempt = n
    BY <1>1, <1>2 DEF Acquire, HandlerType
  <1>4. /\ delivery'[u].status = "processing" /\ delivery'[u].attempt = n
        /\ \A v \in Updates : v # u => delivery'[v] = delivery[v]
    BY <1>1, <1>2 DEF Acquire
  <1>5. /\ First(u) \in Working /\ First(u) # "markAfter"
        /\ First(u) = "mark" => kind[u] = "unsupported"
    BY DEF First, Working
  <1>6. Local(h, u)
    BY <1>3, <1>4 DEF Local
  <1>7. Told(u)'
    BY <1>3, <1>4, <1>5 DEF BridgeInv, Told, Handled
  <1>8. ASSUME u \notin unclear' PROVE Once(u)'
    <2>1. Once(u) /\ delivery[u].status \in {"none", "failed"}
      BY <1>8 DEF BridgeInv
    <2>2. \A k \in Handlers : ~Busy(k, u)
      BY <2>1 DEF Once
    <2>3. posted[u] = 0
      BY <2>1, <2>2 DEF Once
    <2>4. \A k \in Handlers : Busy(k, u)' <=> k = h
      BY <1>3, <1>5, <2>2 DEF Busy
    <2> QED
      BY <1>3, <1>4, <2>3, <2>4 DEF Once
  <1> QED
    BY <1>6, <1>7, <1>8, Elsewhere

\* a request that holds the row marks it and ends; one that does not leaves it alone
LEMMA MarkInv ==
    ASSUME BridgeInv, NEW h \in Handlers, NEW u \in Updates, handler[h].update = {u},
           handler' = [handler EXCEPT ![h] = Gone], BridgeTypeOK',
           NEW s \in {"processed", "failed"}, delivery' = Marked(h, s),
           handler[h].pc \in Working,
           s = "processed" => Handled(u),
           s = "failed" => handler[h].pc = "fail",
           UNCHANGED <<posted, kind, ignored, unclear>>,
           waiting' = waiting \/ (waiting' = waiting \ {u} /\ Handled(u))
    PROVE  BridgeInv'
  <1>1. Update(h) = u
    BY UpdateOf
  <1>2. /\ handler \in [Handlers -> HandlerType]
        /\ delivery \in [Updates -> [status : Statuses, attempt : Nat, since : Nat]]
    BY DEF BridgeInv, BridgeTypeOK, HandlerType
  <1>3. /\ \A k \in Handlers : k # h => handler'[k] = handler[k]
        /\ handler'[h].update = {} /\ handler'[h].pc = "idle"
    BY <1>2 DEF Gone
  <1>4. \A v \in Updates : v # u => delivery'[v] = delivery[v]
    BY <1>1, <1>2 DEF Marked
  <1>5. IF Holds(h) THEN delivery'[u].status = s ELSE delivery'[u] = delivery[u]
    BY <1>1, <1>2 DEF Marked
  <1>6. Local(h, u)
    BY <1>3, <1>4 DEF Local
  <1>7. Told(u)'
    BY <1>3, <1>5 DEF BridgeInv, Told, Handled
  <1>8. ASSUME u \notin unclear' PROVE Once(u)'
    <2>1. Once(u) /\ Busy(h, u)
      BY <1>8 DEF BridgeInv, Busy
    <2>2. Holds(h)
      BY <2>1, <1>1 DEF Once, Holds, Row
    <2>3. \A k \in Handlers : ~Busy(k, u)'
      BY <1>3, <2>1 DEF Busy, Once, Working
    <2>4. s = "failed" => posted[u] = 0
      BY <2>1, <2>2, <1>1 DEF Once, Holds, Row, Busy
    <2> QED
      BY <2>1, <2>2, <2>3, <2>4, <1>5 DEF Once
  <1> QED
    BY <1>6, <1>7, <1>8, Elsewhere

-----------------------------------------------------------------------------
(* The actions.                                                            *)

\* a set-up, the clock: nothing the requests and the rows are made of
LEMMA AsideInv ==
    ASSUME BridgeInv, BridgeTypeOK',
           UNCHANGED <<delivery, handler, waiting, ignored, posted, unclear, kind>>
    PROVE  BridgeInv'
  BY DEF BridgeInv, Bound, Told, Once, Busy, Handled

LEMMA SetupsInv ==
    ASSUME BridgeInv, NEW s \in Setups,
           FindConfig(s) \/ InsertConfig(s) \/ SetWebhook(s) \/ Activate(s)
    PROVE  BridgeInv'
  <1>1. BridgeTypeOK
    BY DEF BridgeInv
  <1>2. CASE FindConfig(s)
    BY <1>1, <1>2, AsideInv DEF FindConfig, BridgeTypeOK, store, world
  <1>3. CASE InsertConfig(s)
    BY <1>1, <1>3, AsideInv DEF InsertConfig, BridgeTypeOK, store, world
  <1>4. CASE SetWebhook(s)
    <2>1. faults' \in 0 .. MaxFaults
      BY <1>1, <1>4, FaultTyped DEF SetWebhook, BridgeTypeOK
    <2> QED
      BY <1>1, <1>4, <2>1, AsideInv DEF SetWebhook, BridgeTypeOK, store, world
  <1>5. CASE Activate(s)
    BY <1>1, <1>5, AsideInv DEF Activate, BridgeTypeOK, store, world
  <1> QED
    BY <1>2, <1>3, <1>4, <1>5

LEMMA PassInv == ASSUME BridgeInv, Pass PROVE BridgeInv'
  <1>1. BridgeTypeOK'
    BY BridgeBounds DEF BridgeInv, BridgeTypeOK, Pass, admin, store
  <1> QED
    BY <1>1, AsideInv DEF Pass, store

LEMMA DeliverInv ==
    ASSUME BridgeInv, NEW h \in Handlers, NEW u \in Updates, Deliver(h, u)
    PROVE  BridgeInv'
  <1>1. BridgeTypeOK /\ BridgeTypeOK'
    BY DEF BridgeInv, BridgeTypeOK, Deliver, Gone, admin, store, world
  <1>2. handler \in [Handlers -> HandlerType]
    BY <1>1 DEF BridgeTypeOK, HandlerType
  <1>3. /\ \A k \in Handlers : k # h => handler'[k] = handler[k]
        /\ handler'[h].update = {u} /\ handler'[h].pc = "config" /\ handler[h].pc = "idle"
    BY <1>2 DEF Deliver, Gone, At
  <1>4. \A k \in Handlers, v \in Updates : Busy(k, v)' <=> Busy(k, v)
    BY <1>3 DEF Busy, Working
  <1>5. \A k \in Handlers, v \in Updates : Busy(k, v) => handler'[k] = handler[k]
    BY <1>3 DEF Busy, Working
  <1>6. UNCHANGED <<delivery, ignored, posted, unclear, waiting, kind>>
    BY DEF Deliver, store, world
  <1>7. Bound'
    BY <1>3 DEF BridgeInv, Bound
  <1>8. \A v \in Updates : Told(v)'
    BY <1>3, <1>6 DEF BridgeInv, Told, Handled
  <1>9. \A v \in Updates \ unclear' : Once(v)'
    <2> SUFFICES ASSUME NEW v \in Updates \ unclear' PROVE Once(v)'
      OBVIOUS
    <2>1. Once(v)
      BY <1>6 DEF BridgeInv
    <2> QED
      BY <2>1, <1>4, <1>5, <1>6 DEF Once
  <1> QED
    BY <1>1, <1>7, <1>8, <1>9 DEF BridgeInv

LEMMA ReadConfigInv ==
    ASSUME BridgeInv, NEW h \in Handlers, ReadConfig(h) PROVE BridgeInv'
  <1>1. PICK u \in Updates : handler[h].update = {u}
    BY HandlersBusy DEF ReadConfig, At
  <1>2. BridgeTypeOK
    BY DEF BridgeInv
  <1>3. CASE bridge = "active"
    <2>1. handler' = [handler EXCEPT ![h].pc = "insert", ![h].at = clock]
      BY <1>3 DEF ReadConfig
    <2>2. handler \in [Handlers -> HandlerType] /\ clock \in Nat /\ handler[h].pc = "config"
      BY <1>2, BridgeBounds DEF ReadConfig, At, BridgeTypeOK, HandlerType
    <2>3. handler' \in [Handlers -> HandlerType]
      BY <2>1, <2>2 DEF HandlerType
    <2>4. BridgeTypeOK'
      BY <1>2, <1>3, <2>3 DEF ReadConfig, BridgeTypeOK, admin, world, HandlerType
    <2>5. /\ \A k \in Handlers : k # h => handler'[k] = handler[k]
          /\ handler'[h].update = {u} /\ handler'[h].pc = "insert"
      BY <1>1, <2>1, <2>2 DEF HandlerType
    <2>6. UNCHANGED <<delivery, ignored, posted, unclear, waiting, kind>>
      BY <1>3 DEF ReadConfig, world
    <2>7. Local(h, u)
      BY <1>1, <2>5, <2>6 DEF Local
    <2>8. Told(u)'
      BY <2>5, <2>6 DEF BridgeInv, Told, Handled
    <2>9. ASSUME u \notin unclear' PROVE Once(u)'
      <3>1. Once(u)
        BY <2>6, <2>9 DEF BridgeInv
      <3>2. \A k \in Handlers : Busy(k, u)' <=> Busy(k, u)
        BY <2>2, <2>5 DEF Busy, Working
      <3>3. \A k \in Handlers : Busy(k, u) => handler'[k] = handler[k]
        BY <2>2, <2>5 DEF Busy, Working
      <3> QED
        BY <3>1, <3>2, <3>3, <2>6 DEF Once
    <2> QED
      BY <2>4, <2>7, <2>8, <2>9, Elsewhere
  <1>4. CASE bridge # "active"
    <2>1. Answer(h, TRUE) /\ ignored' = ignored \cup {u}
      BY <1>1, <1>4 DEF ReadConfig
    <2>2. BridgeTypeOK'
      BY <1>2, <2>1, AnswerTyped DEF ReadConfig, BridgeTypeOK, admin, world, HandlerType
    <2> QED
      BY <1>1, <2>1, <2>2, LeaveInv DEF ReadConfig, Answer, At, world
  <1> QED
    BY <1>3, <1>4

LEMMA InsertDeliveryInv ==
    ASSUME BridgeInv, NEW h \in Handlers, InsertDelivery(h) PROVE BridgeInv'
  <1>1. PICK u \in Updates : handler[h].update = {u} /\ Update(h) = u
    BY HandlersBusy DEF InsertDelivery, At
  <1>2. BridgeTypeOK /\ handler[h].pc = "insert"
    BY DEF BridgeInv, InsertDelivery, At
  <1>3. CASE Row(h).status = "none"
    <2>1. Acquire(h, 1) /\ delivery[u].status = "none"
      BY <1>1, <1>3 DEF InsertDelivery, Row
    <2>2. BridgeTypeOK'
      BY <1>2, <2>1, AcquireTyped DEF BridgeInv, InsertDelivery, BridgeTypeOK, admin, world, HandlerType
    <2> QED
      BY <1>1, <1>2, <2>1, <2>2, AcquireInv DEF InsertDelivery, world
  <1>4. CASE Row(h).status # "none"
    <2>1. Go(h, "select") /\ UNCHANGED delivery
      BY <1>4 DEF InsertDelivery
    <2>2. BridgeTypeOK'
      BY <1>2, <2>1, GoTyped DEF InsertDelivery, BridgeTypeOK, admin, world, HandlerType
    <2> QED
      BY <1>2, <2>1, <2>2, MoveInv DEF InsertDelivery, world, Working
  <1> QED
    BY <1>3, <1>4

LEMMA SelectDeliveryInv ==
    ASSUME BridgeInv, NEW h \in Handlers, SelectDelivery(h) PROVE BridgeInv'
  <1>1. PICK u \in Updates : handler[h].update = {u} /\ Update(h) = u
    BY HandlersBusy DEF SelectDelivery, At
  <1>2. BridgeTypeOK /\ handler[h].pc = "select"
    BY DEF BridgeInv, SelectDelivery, At
  <1>3. CASE Row(h).status = "processed"
    <2>1. Answer(h, TRUE) /\ Handled(u)
      BY <1>1, <1>3 DEF SelectDelivery, Row, BridgeInv, Told
    <2>2. BridgeTypeOK'
      BY <1>2, <2>1, AnswerTyped DEF SelectDelivery, BridgeTypeOK, admin, store, world, HandlerType
    <2> QED
      BY <1>1, <1>2, <2>1, <2>2, LeaveInv DEF SelectDelivery, Answer, store, world
  <1>4. CASE Row(h).status # "processed"
    <2>1. Go(h, "update") /\ UNCHANGED <<waiting, faults>>
      BY <1>4 DEF SelectDelivery
    <2>2. BridgeTypeOK'
      BY <1>2, <2>1, GoTyped DEF SelectDelivery, BridgeTypeOK, admin, store, world, HandlerType
    <2> QED
      BY <1>2, <2>1, <2>2, MoveInv DEF SelectDelivery, store, world, Working
  <1> QED
    BY <1>3, <1>4

LEMMA ReacquireDeliveryInv ==
    ASSUME BridgeInv, NEW h \in Handlers, ReacquireDelivery(h) PROVE BridgeInv'
  <1>1. PICK u \in Updates : handler[h].update = {u} /\ Update(h) = u
    BY HandlersBusy DEF ReacquireDelivery, At
  <1>2. BridgeTypeOK /\ handler[h].pc = "update"
    BY DEF BridgeInv, ReacquireDelivery, At
  <1>3. CASE Row(h).status = "failed" \/ Overdue(h)
    <2>1. Acquire(h, Row(h).attempt + 1) /\ Row(h).attempt + 1 \in Nat
      BY <1>1, <1>2, <1>3 DEF ReacquireDelivery, Row, BridgeTypeOK
    <2>2. /\ delivery[u].status \in {"none", "failed"} \/ u \in unclear'
          /\ unclear' = unclear \/ unclear' = unclear \cup {u}
      BY <1>1, <1>3 DEF ReacquireDelivery, Row, Overdue
    <2>3. BridgeTypeOK'
      BY <1>2, <2>1, <2>2, AcquireTyped
      DEF BridgeInv, ReacquireDelivery, BridgeTypeOK, admin, world, HandlerType
    <2> QED
      BY <1>1, <1>2, <2>1, <2>2, <2>3, AcquireInv DEF ReacquireDelivery, world
  <1>4. CASE ~(Row(h).status = "failed" \/ Overdue(h))
    <2>1. Go(h, "reselect") /\ UNCHANGED <<delivery, unclear>>
      BY <1>4 DEF ReacquireDelivery
    <2>2. BridgeTypeOK'
      BY <1>2, <2>1, GoTyped DEF ReacquireDelivery, BridgeTypeOK, admin, world, HandlerType
    <2> QED
      BY <1>2, <2>1, <2>2, MoveInv DEF ReacquireDelivery, world, Working
  <1> QED
    BY <1>3, <1>4

LEMMA ReselectDeliveryInv ==
    ASSUME BridgeInv, NEW h \in Handlers, ReselectDelivery(h) PROVE BridgeInv'
  <1>1. PICK u \in Updates : handler[h].update = {u} /\ Update(h) = u
    BY HandlersBusy DEF ReselectDelivery, At
  <1>2. BridgeTypeOK /\ handler[h].pc = "reselect"
    BY DEF BridgeInv, ReselectDelivery, At
  <1>3. BridgeTypeOK'
    BY <1>2, AnswerTyped DEF ReselectDelivery, BridgeTypeOK, admin, store, world, HandlerType
  <1>4. /\ handler' = [handler EXCEPT ![h] = Gone]
        /\ waiting' = waiting \/ (waiting' = waiting \ {u} /\ delivery[u].status = "processed")
    BY <1>1 DEF ReselectDelivery, Answer, Row
  <1>5. delivery[u].status = "processed" => Handled(u)
    BY DEF BridgeInv, Told
  <1> QED
    BY <1>1, <1>2, <1>3, <1>4, <1>5, LeaveInv DEF ReselectDelivery, store, world

LEMMA CallsInv ==
    ASSUME BridgeInv, NEW h \in Handlers, FindInbox(h) \/ LookPhone(h) \/ LinkContact(h)
    PROVE  BridgeInv'
  <1>1. BridgeTypeOK
    BY DEF BridgeInv
  <1>2. CASE FindInbox(h)
    <2>1. PICK at \in {"look", "tell", "fail"} : Go(h, at)
      BY <1>2 DEF FindInbox
    <2>2. BridgeTypeOK'
      BY <1>1, <1>2, <2>1, GoTyped, FaultTyped
      DEF FindInbox, BridgeTypeOK, admin, store, world, HandlerType, Working
    <2> QED
      BY <1>2, <2>1, <2>2, MoveInv DEF FindInbox, At, store, world, Working
  <1>3. CASE LookPhone(h)
    <2>1. PICK at \in {"link", "tell"} : Go(h, at)
      BY <1>3 DEF LookPhone
    <2>2. BridgeTypeOK'
      BY <1>1, <1>3, <2>1, GoTyped DEF LookPhone, BridgeTypeOK, admin, store, world, HandlerType, Working
    <2> QED
      BY <1>3, <2>1, <2>2, MoveInv DEF LookPhone, At, store, world, Working
  <1>4. CASE LinkContact(h)
    <2>1. PICK at \in {"fail", "tell"} : Go(h, at)
      BY <1>4 DEF LinkContact
    <2>2. linked' \in BOOLEAN /\ faults' \in 0 .. MaxFaults
      BY <1>1, <1>4, FaultTyped DEF LinkContact, BridgeTypeOK
    <2>3. BridgeTypeOK'
      BY <1>1, <1>4, <2>1, <2>2, GoTyped
      DEF LinkContact, BridgeTypeOK, admin, store, world, HandlerType, Working
    <2> QED
      BY <1>4, <2>1, <2>3, MoveInv DEF LinkContact, At, store, world, Working
  <1> QED
    BY <1>2, <1>3, <1>4

\* the one post of an update that is clear: its request holds the row and has not posted
LEMMA TellInv ==
    ASSUME BridgeInv, NEW h \in Handlers, Tell(h) PROVE BridgeInv'
  <1>1. PICK u \in Updates : handler[h].update = {u} /\ Update(h) = u
    BY HandlersBusy DEF Tell, At
  <1>2. BridgeTypeOK /\ handler[h].pc = "tell" /\ handler \in [Handlers -> HandlerType]
    BY DEF BridgeInv, BridgeTypeOK, HandlerType, Tell, At
  <1>3. CASE UNCHANGED <<posted, unclear>> /\ Go(h, "fail") /\ Fault
    <2>1. BridgeTypeOK'
      BY <1>2, <1>3, GoTyped, FaultTyped
      DEF Tell, BridgeTypeOK, admin, world, HandlerType, Working
    <2> QED
      BY <1>2, <1>3, <2>1, MoveInv DEF Tell, world, Working
  <1>4. ASSUME NEW at \in {"markAfter", "fail"}, Go(h, at),
               posted' = [posted EXCEPT ![u] = @ + 1],
               at = "markAfter" => unclear' = unclear /\ faults' = faults,
               at = "fail" => unclear' = unclear \cup {u} /\ Fault
        PROVE  BridgeInv'
    <2>1. posted' \in [Updates -> Nat] /\ posted'[u] = posted[u] + 1 /\ posted[u] \in Nat
      BY <1>2, <1>4 DEF BridgeTypeOK
    <2>2. faults' \in 0 .. MaxFaults /\ unclear' \subseteq Updates
      BY <1>2, <1>4, FaultTyped DEF BridgeTypeOK
    <2>3. handler' \in [Handlers -> HandlerType]
      BY <1>2, <1>4, GoTyped DEF Working
    <2>4. BridgeTypeOK'
      BY <1>2, <2>1, <2>2, <2>3 DEF Tell, BridgeTypeOK, admin, world, HandlerType
    <2>5. /\ \A k \in Handlers : k # h => handler'[k] = handler[k]
          /\ handler'[h].update = {u} /\ handler'[h].pc = at
          /\ handler'[h].attempt = handler[h].attempt
      BY <1>1, <1>2, <1>4 DEF Go, HandlerType
    <2>6. \A v \in Updates : v # u => posted'[v] = posted[v]
      BY <1>2, <1>4 DEF BridgeTypeOK
    <2>7. UNCHANGED <<delivery, ignored, waiting, kind>> /\ unclear \subseteq unclear'
      BY <1>4 DEF Tell, world
    <2>8. Local(h, u)
      BY <1>1, <2>5, <2>6, <2>7 DEF Local
    <2>9. Told(u)'
      BY <2>1 DEF Told, Handled
    <2>10. ASSUME u \notin unclear' PROVE Once(u)'
      <3>1. Once(u) /\ at = "markAfter" /\ Busy(h, u)
        BY <1>1, <1>2, <1>4, <2>10 DEF BridgeInv, Busy, Working
      <3>2. posted[u] = 0
        <4>1. \A k \in Handlers : Busy(k, u) => k = h
          BY <3>1 DEF Once
        <4> QED
          BY <3>1, <4>1, <1>2 DEF Once
      <3>3. \A k \in Handlers : Busy(k, u)' <=> Busy(k, u)
        BY <1>1, <1>2, <2>5, <3>1 DEF Busy, Working
      <3>4. \A k \in Handlers : handler'[k].attempt = handler[k].attempt
        BY <2>5
      <3> QED
        BY <3>1, <3>2, <3>3, <3>4, <2>1, <2>5, <2>7 DEF Once
    <2> QED
      BY <2>4, <2>8, <2>9, <2>10, Elsewhere
  <1> QED
    BY <1>1, <1>3, <1>4 DEF Tell

LEMMA MarksInv ==
    ASSUME BridgeInv, NEW h \in Handlers, MarkAfter(h) \/ MarkUnsupported(h) \/ MarkFailed(h)
    PROVE  BridgeInv'
  <1>1. PICK u \in Updates : handler[h].update = {u} /\ Update(h) = u
    BY HandlersBusy DEF MarkAfter, MarkUnsupported, MarkFailed, At
  <1>2. BridgeTypeOK /\ Bound
    BY DEF BridgeInv
  <1>3. handler[h].pc \in {"markAfter", "mark", "fail"}
    BY DEF MarkAfter, MarkUnsupported, MarkFailed, At
  <1>4. handler[h].pc \in {"markAfter", "mark"} => Handled(u)
    BY <1>1 DEF BridgeInv, Told
  <1>5. ASSUME handler' = [handler EXCEPT ![h] = Gone]
        PROVE  handler' \in [Handlers -> HandlerType]
    BY <1>2, <1>5 DEF BridgeTypeOK, HandlerType, Gone
  <1>6. CASE MarkAfter(h)
    <2>1. CASE delivery' = Marked(h, "processed") /\ Answer(h, TRUE) /\ UNCHANGED unclear
      <3>1. BridgeTypeOK'
        BY <1>2, <1>3, <1>6, <2>1, AnswerTyped, MarkedTyped
        DEF MarkAfter, BridgeTypeOK, admin, world, HandlerType, Statuses
      <3> QED
        BY <1>1, <1>4, <1>6, <2>1, <3>1, MarkInv DEF MarkAfter, Answer, At, world, Working
    <2>2. CASE /\ Fault
               /\ handler' = [handler EXCEPT ![h] = Gone]
               /\ waiting' = waiting \ {u}
               /\ unclear' = unclear \cup {u}
               /\ UNCHANGED delivery
      <3>1. BridgeTypeOK'
        BY <1>2, <1>5, <1>6, <2>2, FaultTyped
        DEF MarkAfter, BridgeTypeOK, admin, world, HandlerType
      <3> QED
        BY <1>1, <1>4, <1>6, <2>2, <3>1, LeaveInv DEF MarkAfter, At, world
    <2> QED
      BY <1>1, <1>6, <2>1, <2>2 DEF MarkAfter
  <1>7. CASE MarkUnsupported(h)
    <2>1. CASE delivery' = Marked(h, "processed") /\ Answer(h, TRUE)
      <3>1. BridgeTypeOK'
        BY <1>2, <1>3, <1>7, <2>1, AnswerTyped, MarkedTyped
        DEF MarkUnsupported, BridgeTypeOK, admin, world, HandlerType, Statuses
      <3> QED
        BY <1>1, <1>4, <1>7, <2>1, <3>1, MarkInv DEF MarkUnsupported, Answer, At, world, Working
    <2>2. CASE Fault /\ Go(h, "fail") /\ UNCHANGED <<delivery, waiting>>
      <3>1. BridgeTypeOK'
        BY <1>2, <1>7, <2>2, GoTyped, FaultTyped
        DEF MarkUnsupported, BridgeTypeOK, admin, world, HandlerType, Working
      <3> QED
        BY <1>7, <2>2, <3>1, MoveInv DEF MarkUnsupported, At, world, Working
    <2> QED
      BY <1>7, <2>1, <2>2 DEF MarkUnsupported
  <1>8. CASE MarkFailed(h)
    <2>1. CASE delivery' = Marked(h, "failed") /\ UNCHANGED faults
      <3>1. BridgeTypeOK'
        BY <1>2, <1>3, <1>5, <1>8, <2>1, MarkedTyped
        DEF MarkFailed, BridgeTypeOK, admin, world, HandlerType, Statuses
      <3> QED
        BY <1>1, <1>8, <2>1, <3>1, MarkInv DEF MarkFailed, At, world, Working
    <2>2. CASE Fault /\ UNCHANGED delivery
      <3>1. BridgeTypeOK'
        BY <1>2, <1>5, <1>8, <2>2, FaultTyped
        DEF MarkFailed, BridgeTypeOK, admin, world, HandlerType
      <3> QED
        BY <1>1, <1>8, <2>2, <3>1, LeaveInv DEF MarkFailed, At, world
    <2> QED
      BY <1>8, <2>1, <2>2 DEF MarkFailed
  <1> QED
    BY <1>6, <1>7, <1>8

LEMMA StopInv ==
    ASSUME BridgeInv, NEW h \in Handlers, Stop(h) PROVE BridgeInv'
  <1>1. PICK u \in Updates : handler[h].update = {u}
    BY HandlersBusy DEF Stop
  <1>2. BridgeTypeOK'
    BY <1>1, FaultTyped
    DEF BridgeInv, Stop, BridgeTypeOK, admin, world, Gone
  <1>3. /\ unclear' = IF handler[h].pc = "markAfter" THEN unclear \cup {u} ELSE unclear
    BY <1>1 DEF Stop, At
  <1> QED
    BY <1>1, <1>2, <1>3, LeaveInv DEF Stop, world

-----------------------------------------------------------------------------
LEMMA NextInv == BridgeInv /\ [BridgeNext]_bridgeVars => BridgeInv'
  <1> SUFFICES ASSUME BridgeInv, [BridgeNext]_bridgeVars PROVE BridgeInv'
    OBVIOUS
  <1>1. CASE \E s \in Setups : FindConfig(s) \/ InsertConfig(s) \/ SetWebhook(s) \/ Activate(s)
    BY <1>1, SetupsInv
  <1>2. CASE \E h \in Handlers : Stop(h)
    BY <1>2, StopInv
  <1>3. CASE \E h \in Handlers, u \in Updates : Deliver(h, u)
    BY <1>3, DeliverInv
  <1>4. ASSUME NEW h \in Handlers, HandlerStep(h) PROVE BridgeInv'
    BY <1>4, ReadConfigInv, InsertDeliveryInv, SelectDeliveryInv, ReacquireDeliveryInv,
       ReselectDeliveryInv, CallsInv, TellInv, MarksInv DEF HandlerStep
  <1>5. CASE Pass
    BY <1>5, PassInv
  <1>6. CASE UNCHANGED bridgeVars
    <2>1. BridgeTypeOK'
      BY <1>6 DEF bridgeVars, BridgeInv, BridgeTypeOK
    <2> QED
      BY <1>6, <2>1, AsideInv DEF bridgeVars
  <1> QED
    BY <1>1, <1>2, <1>3, <1>4, <1>5, <1>6 DEF BridgeNext

\* Every variable of the bridge keeps its type, whatever the requests, set-ups and failures
\* of handleTelegramUpdate and setupTelegramBridge.
THEOREM BridgeTypeCorrect == BridgeSpec => []BridgeTypeOK
  <1>1. BridgeInv => BridgeTypeOK
    BY DEF BridgeInv
  <1> QED
    BY <1>1, InitInv, NextInv, PTL DEF BridgeSpec

\* An update that Telegram has seen answered with 200 was passed on or its sender was answered,
\* or it is one the bridge does not handle, or the configuration was not active: the row that
\* acquireDelivery finds processed was marked by a request that had posted.
THEOREM AcknowledgedHandled == BridgeSpec => []AcknowledgedIsHandled
  <1>1. BridgeInv => AcknowledgedIsHandled
    BY DEF BridgeInv, Told, Handled, AcknowledgedIsHandled
  <1> QED
    BY <1>1, InitInv, NextInv, PTL DEF BridgeSpec

\* An update of which no attempt was cut off around its post, and none was taken over after
\* ten minutes, is posted at most once: the insert, the conditional update and the attempt
\* number of telegram_bridge_deliveries leave it to one request at a time.
THEOREM RepeatsAccounted == BridgeSpec => []RepeatsExplained
  <1>1. BridgeInv => RepeatsExplained
    BY DEF BridgeInv, Once, RepeatsExplained
  <1> QED
    BY <1>1, InitInv, NextInv, PTL DEF BridgeSpec
=============================================================================
