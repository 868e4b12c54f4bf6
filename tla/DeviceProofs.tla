---------------------------- MODULE DeviceProofs ----------------------------
(* What the device keeps for its user.  Outbox: it keeps its types, no     *)
(* drain, cut-off or removal loses a text the backend has not stored, and  *)
(* under Web Locks no drain brings one back.  ClientSession: who has       *)
(* signed out stays out.                                                   *)
EXTENDS Outbox, ClientSession, NaturalFacts, TLAPS

Safe == TypeOK /\ BusyInv

(* A drain that has records left is at one of them.                        *)
LEMMA KeyInTodo ==
  ASSUME TypeOK, NEW d \in Drains, todo[d] # {}
  PROVE  Key(d) \in todo[d] /\ Key(d) \in Keys
<1>1. todo[d] \subseteq Nat /\ todo[d] \subseteq Keys
  BY OutboxAssumption DEF TypeOK, Keys
<1>2. \E k \in todo[d] : \A j \in todo[d] : k <= j
  BY <1>1, SmallestNat
<1> QED
  BY <1>1, <1>2 DEF Key

(* What the pieces of a drain's step do to pc, todo and want.              *)
LEMMA GotoTypes ==
  ASSUME TypeOK, NEW d \in Drains, NEW to \in PCs, Goto(d, to)
  PROVE  /\ pc' \in [Drains -> PCs] /\ pc'[d] = to
         /\ \A e \in Drains \ {d} : pc'[e] = pc[e]
  BY DEF TypeOK, Goto

LEMMA BeginWriteTypes ==
  ASSUME TypeOK, NEW d \in Drains, NEW w \in Wants, BeginWrite(d, w)
  PROVE  /\ pc' \in [Drains -> PCs] /\ pc'[d] \in {"check", "put"}
         /\ want' \in [Drains -> Wants]
         /\ \A e \in Drains \ {d} : pc'[e] = pc[e]
<1>1. pc' \in [Drains -> PCs] /\ pc'[d] \in {"check", "put"}
      /\ \A e \in Drains \ {d} : pc'[e] = pc[e]
  BY DEF BeginWrite, Goto, TypeOK, PCs
<1>2. want' \in [Drains -> Wants]
  BY DEF BeginWrite, TypeOK
<1> QED
  BY <1>1, <1>2

LEMMA FinishTypes ==
  ASSUME TypeOK, NEW d \in Drains, Finish(d)
  PROVE  /\ pc' \in [Drains -> PCs] /\ pc'[d] = "release"
         /\ todo' \in [Drains -> SUBSET Keys] /\ todo'[d] = {}
         /\ want' \in [Drains -> Wants]
         /\ \A e \in Drains \ {d} : pc'[e] = pc[e] /\ todo'[e] = todo[e]
<1>1. pc' \in [Drains -> PCs] /\ pc'[d] = "release"
      /\ \A e \in Drains \ {d} : pc'[e] = pc[e]
  BY DEF Finish, Goto, TypeOK, PCs
<1>2. /\ todo' \in [Drains -> SUBSET Keys] /\ todo'[d] = {}
      /\ \A e \in Drains \ {d} : todo'[e] = todo[e]
  BY DEF Finish, TypeOK
<1>3. want' \in [Drains -> Wants]
  BY DEF Finish, TypeOK, Wants
<1> QED
  BY <1>1, <1>2, <1>3

(* After a record the drain is done, or at another record it has listed.   *)
LEMMA NextRecordTypes ==
  ASSUME TypeOK, NEW d \in Drains, todo[d] # {}, NextRecord(d)
  PROVE  /\ pc' \in [Drains -> PCs] /\ pc'[d] \in {"release", "check", "put"}
         /\ todo' \in [Drains -> SUBSET Keys]
         /\ want' \in [Drains -> Wants]
         /\ pc'[d] = "release" <=> todo'[d] = {}
         /\ todo'[d] = todo[d] \ {Key(d)}
         /\ \A e \in Drains \ {d} : pc'[e] = pc[e] /\ todo'[e] = todo[e]
<1>1. CASE todo[d] = {Key(d)} /\ Finish(d)
  BY <1>1, FinishTypes
<1>2. CASE /\ todo[d] # {Key(d)}
           /\ todo' = [todo EXCEPT ![d] = @ \ {Key(d)}]
           /\ BeginWrite(d, "sending")
  <2>1. "sending" \in Wants
    BY DEF Wants
  <2>2. /\ pc' \in [Drains -> PCs] /\ pc'[d] \in {"check", "put"}
        /\ want' \in [Drains -> Wants]
        /\ \A e \in Drains \ {d} : pc'[e] = pc[e]
    BY <1>2, <2>1, BeginWriteTypes
  <2>3. Key(d) \in todo[d]
    BY KeyInTodo
  <2>4. /\ todo' \in [Drains -> SUBSET Keys]
        /\ todo'[d] = todo[d] \ {Key(d)}
        /\ \A e \in Drains \ {d} : todo'[e] = todo[e]
    BY <1>2 DEF TypeOK
  <2>5. todo'[d] # {}
    BY <1>2, <2>3, <2>4
  <2> QED
    BY <2>2, <2>4, <2>5
<1> QED
  BY <1>1, <1>2 DEF NextRecord

LEMMA WroteTypes ==
  ASSUME TypeOK, NEW d \in Drains, todo[d] # {}, Wrote(d)
  PROVE  /\ pc' \in [Drains -> PCs]
         /\ pc'[d] \in {"send", "release", "check", "put"}
         /\ todo' \in [Drains -> SUBSET Keys]
         /\ want' \in [Drains -> Wants]
         /\ pc'[d] = "release" <=> todo'[d] = {}
         /\ todo'[d] \subseteq todo[d]
         /\ want[d] \in {"failed", "denied"} => todo'[d] = todo[d] \ {Key(d)}
         /\ \A e \in Drains \ {d} : pc'[e] = pc[e] /\ todo'[e] = todo[e]
<1>1. CASE want[d] = "sending"
  <2>1. Goto(d, "send") /\ todo' = todo /\ want' = want
    BY <1>1 DEF Wrote
  <2>2. "send" \in PCs
    BY DEF PCs
  <2>3. /\ pc' \in [Drains -> PCs] /\ pc'[d] = "send"
        /\ \A e \in Drains \ {d} : pc'[e] = pc[e]
    BY <2>1, <2>2, GotoTypes
  <2> QED
    BY <1>1, <2>1, <2>3 DEF TypeOK
<1>2. CASE want[d] = "auth"
  BY <1>2, FinishTypes DEF Wrote
<1>3. CASE want[d] \notin {"sending", "auth"}
  <2>1. NextRecord(d)
    BY <1>3 DEF Wrote
  <2>2. Key(d) \in todo[d]
    BY KeyInTodo
  <2> QED
    BY <2>1, NextRecordTypes
<1> QED
  BY <1>1, <1>2, <1>3

LEMMA SafeInit == Init => Safe
<1> SUFFICES ASSUME Init PROVE Safe
  OBVIOUS
<1>1. Idle \in Doings /\ "absent" \in Statuses
  BY DEF Idle, Doings, Statuses
<1>2. /\ box \in [Keys -> Statuses]
      /\ ui \in [Tabs -> Doings]
  BY <1>1 DEF Init
<1>3. /\ pc \in [Drains -> PCs]
      /\ todo \in [Drains -> SUBSET Keys]
      /\ want \in [Drains -> Wants]
  BY DEF Init, PCs, Wants
<1>4. /\ composed \in 0 .. MaxMessages
      /\ retries \in 0 .. MaxRetries
      /\ faults \in 0 .. MaxFaults
      /\ removals \in 0 .. MaxRemovals
  BY OutboxAssumption DEF Init
<1>5. /\ locks \in BOOLEAN /\ owner \in Drains \cup {None} /\ fresh \in BOOLEAN
      /\ removal \in Removals /\ stored \subseteq Keys /\ kept \subseteq Keys
  BY DEF Init, Removals
<1>6. BusyInv
  BY DEF Init, BusyInv, AtRecord
<1> QED
  BY <1>2, <1>3, <1>4, <1>5, <1>6 DEF Safe, TypeOK

(* The steps of the user keep the types.                                   *)
LEMMA UserStep ==
  ASSUME Safe, NEW t \in Tabs, User(t)
  PROVE  Safe'
<1>1. /\ pc' = pc /\ todo' = todo /\ want' = want /\ UNCHANGED <<lock, device>>
      /\ stored' = stored /\ faults' = faults
  BY DEF User, Compose, Retry, CheckUser, PutUser, lock, device
<1>2. composed' \in 0 .. MaxMessages /\ retries' \in 0 .. MaxRetries
  BY OutboxAssumption DEF User, Compose, Retry, CheckUser, PutUser, Safe, TypeOK
<1>3. Idle \in Doings
  BY DEF Idle, Doings
<1>4. ui' \in [Tabs -> Doings]
  <2>1. CASE Compose(t)
    <3>1. composed + 1 \in Keys
      BY <2>1, OutboxAssumption DEF Compose, Safe, TypeOK, Keys
    <3>2. [at |-> "check", key |-> composed + 1] \in Doings
      BY <3>1 DEF Doings
    <3> QED
      BY <2>1, <3>2 DEF Compose, Safe, TypeOK
  <2>2. CASE Retry(t)
    <3>1. \A k \in Keys : [at |-> "check", key |-> k] \in Doings
      BY DEF Doings
    <3> QED
      BY <2>2, <3>1 DEF Retry, Safe, TypeOK
  <2>3. CASE CheckUser(t)
    <3>1. ui[t] \in Doings
      BY DEF Safe, TypeOK
    <3>2. ui[t] # Idle => [ui[t] EXCEPT !.at = "put"] \in Doings
      BY <3>1 DEF Doings
    <3>3. ui[t] # Idle
      BY <2>3 DEF CheckUser, Idle
    <3> QED
      BY <2>3, <1>3, <3>2, <3>3 DEF CheckUser, Safe, TypeOK
  <2>4. CASE PutUser(t)
    BY <2>4, <1>3 DEF PutUser, Safe, TypeOK
  <2> QED
    BY <2>1, <2>2, <2>3, <2>4 DEF User
<1>5. box' \in [Keys -> Statuses] /\ kept' \subseteq Keys
  <2>1. CASE PutUser(t)
    <3>1. "queued" \in Statuses
      BY DEF Statuses, Active, Due
    <3>2. ui[t] \in Doings /\ ui[t].at = "put"
      BY <2>1 DEF PutUser, Safe, TypeOK
    <3>4. ui[t].key \in Keys
      BY <3>2 DEF Doings, Idle
    <3>3. box' \in [Keys -> Statuses]
      BY <2>1, <3>1 DEF PutUser, Safe, TypeOK
    <3> QED
      BY <2>1, <3>4, <3>3 DEF PutUser, Safe, TypeOK
  <2>2. CASE ~ PutUser(t)
    BY <2>2 DEF User, Compose, Retry, CheckUser, Safe, TypeOK
  <2> QED
    BY <2>1, <2>2
<1> QED
  BY <1>1, <1>2, <1>4, <1>5 DEF Safe, TypeOK, BusyInv, lock, device

(* A move to a point where the drain is at no record.                      *)
LEMMA IdleMove ==
  ASSUME Safe, NEW d \in Drains,
         NEW to \in PCs \ AtRecord, pc[d] \notin AtRecord,
         Goto(d, to), todo' = todo, want' = want
  PROVE  /\ pc' \in [Drains -> PCs] /\ todo' \in [Drains -> SUBSET Keys]
         /\ want' \in [Drains -> Wants] /\ BusyInv'
<1>1. /\ pc' \in [Drains -> PCs] /\ pc'[d] = to
      /\ \A e \in Drains \ {d} : pc'[e] = pc[e]
  BY GotoTypes DEF Safe
<1>2. BusyInv'
  BY <1>1 DEF Safe, BusyInv, AtRecord
<1> QED
  BY <1>1, <1>2 DEF Safe, TypeOK

(* A drain takes or leaves the lock, or starts.                            *)
LEMMA LockStep ==
  ASSUME Safe, NEW d \in Drains,
         Start(d) \/ Acquire(d) \/ Ask(d) \/ Lease(d) \/ Release(d)
  PROVE  Safe'
<1>1. /\ \E to \in PCs \ AtRecord : Goto(d, to)
      /\ todo' = todo /\ want' = want /\ pc[d] \notin AtRecord
  BY DEF Start, Acquire, Ask, Lease, Release, PCs, AtRecord
<1>2. /\ pc' \in [Drains -> PCs] /\ todo' \in [Drains -> SUBSET Keys]
      /\ want' \in [Drains -> Wants] /\ BusyInv'
  BY <1>1, IdleMove
<1>3. owner' \in Drains \cup {None} /\ fresh' \in BOOLEAN /\ locks' = locks
  <2>1. CASE Start(d) \/ Ask(d)
    BY <2>1 DEF Start, Ask, lock, Safe, TypeOK
  <2>2. CASE Acquire(d)
    BY <2>2 DEF Acquire, Safe, TypeOK
  <2>3. CASE Lease(d)
    BY <2>3 DEF Lease, Safe, TypeOK
  <2>4. CASE Release(d)
    <3>1. owner' \in Drains \cup {None} /\ locks' = locks
      BY <2>4 DEF Release, Safe, TypeOK
    <3>2. fresh' \in BOOLEAN
      BY <2>4 DEF Release
    <3> QED
      BY <3>1, <3>2
  <2> QED
    BY <2>1, <2>2, <2>3, <2>4
<1>4. UNCHANGED <<box, user, device, stored, kept, faults>>
  BY DEF Start, Acquire, Ask, Lease, Release
<1> QED
  BY <1>2, <1>3, <1>4 DEF Safe, TypeOK, user, device

(* A drain lists, writes, sends or deletes.                                *)
LEMMA RecordStep ==
  ASSUME Safe, NEW d \in Drains,
         \/ List(d) \/ Check(d) \/ Put(d) \/ Store(d) \/ Accepted(d) \/ Refused(d)
         \/ Delete(d)
  PROVE  Safe'
<1>1. UNCHANGED <<user, lock, device, kept, faults>>
  BY DEF List, Check, Put, Store, Accepted, Refused, Delete
<1>2. pc[d] \in {"check", "put", "send", "delete"} => todo[d] # {} /\ Key(d) \in Keys
  BY KeyInTodo DEF Safe, BusyInv, AtRecord
<1>3. /\ pc' \in [Drains -> PCs] /\ todo' \in [Drains -> SUBSET Keys]
      /\ want' \in [Drains -> Wants] /\ BusyInv'
  <2>1. CASE List(d)
    <3>1. CASE Finish(d)
      BY <3>1, FinishTypes DEF Safe, BusyInv, AtRecord
    <3>2. CASE /\ DueNow # {}
               /\ todo' = [todo EXCEPT ![d] = DueNow]
               /\ BeginWrite(d, "sending")
      <4>1. /\ pc' \in [Drains -> PCs] /\ want' \in [Drains -> Wants]
            /\ pc'[d] \in {"check", "put"}
            /\ \A e \in Drains \ {d} : pc'[e] = pc[e]
        BY <3>2, BeginWriteTypes DEF Safe, Wants
      <4>2. DueNow \subseteq Keys
        BY DEF DueNow
      <4>3. /\ todo' \in [Drains -> SUBSET Keys] /\ todo'[d] = DueNow
            /\ \A e \in Drains \ {d} : todo'[e] = todo[e]
        BY <3>2, <4>2 DEF Safe, TypeOK
      <4> QED
        BY <3>2, <4>1, <4>3 DEF Safe, BusyInv, AtRecord
    <3> QED
      BY <2>1, <3>1, <3>2 DEF List
  <2>2. CASE Wrote(d) /\ todo[d] # {}
    BY <2>2, WroteTypes DEF Safe, BusyInv, AtRecord
  <2>3. CASE NextRecord(d) /\ todo[d] # {}
    BY <2>3, NextRecordTypes DEF Safe, BusyInv, AtRecord
  <2>4. CASE /\ todo' = todo /\ todo[d] # {}
             /\ \/ want' = want /\ \E to \in AtRecord : Goto(d, to)
                \/ \E w \in Wants : BeginWrite(d, w)
    <3>0. AtRecord \subseteq PCs
      BY DEF AtRecord, PCs
    <3>1. /\ pc' \in [Drains -> PCs] /\ want' \in [Drains -> Wants]
          /\ pc'[d] \in AtRecord
          /\ \A e \in Drains \ {d} : pc'[e] = pc[e]
      BY <2>4, <3>0, GotoTypes, BeginWriteTypes DEF Safe, TypeOK, AtRecord
    <3> QED
      BY <2>4, <3>1 DEF Safe, TypeOK, BusyInv, AtRecord
  <2>5. CASE Store(d)
    BY <2>5 DEF Store, Safe, TypeOK, BusyInv, AtRecord
  <2>6. CASE Check(d)
    BY <1>2, <2>2, <2>4, <2>6 DEF Check, AtRecord
  <2>7. CASE Put(d)
    BY <1>2, <2>2, <2>7 DEF Put
  <2>8. CASE Accepted(d)
    BY <1>2, <2>4, <2>8 DEF Accepted, AtRecord
  <2>9. CASE Refused(d)
    BY <1>2, <2>4, <2>9 DEF Refused, Wants
  <2>10. CASE Delete(d)
    BY <1>2, <2>3, <2>10 DEF Delete
  <2> QED
    BY <2>1, <2>5, <2>6, <2>7, <2>8, <2>9, <2>10
<1>4. box' \in [Keys -> Statuses]
  <2>1. \A w \in Wants : StatusOf(w) \in Statuses
    BY DEF Wants, StatusOf, Statuses, Active, Due
  <2>2. want[d] \in Wants /\ "absent" \in Statuses
    BY DEF Safe, TypeOK, Statuses
  <2>3. \/ \E x \in Statuses : box' = [box EXCEPT ![Key(d)] = x]
        \/ box' = box
    BY <2>1, <2>2 DEF List, Check, Put, Store, Accepted, Refused, Delete
  <2> QED
    BY <2>3 DEF Safe, TypeOK
<1>5. stored' \subseteq Keys
  BY <1>2 DEF List, Check, Put, Store, Accepted, Refused, Delete, Safe, TypeOK
<1> QED
  BY <1>1, <1>3, <1>4, <1>5 DEF Safe, TypeOK, user, lock, device

(* A statement of a drain fails, or the drain is cut off.                  *)
LEMMA FaultStep ==
  ASSUME Safe, NEW d \in Drains, Fail(d) \/ Close(d)
  PROVE  Safe'
<1>1. UNCHANGED <<box, user, locks, fresh, device, stored, kept>>
  BY DEF Fail, Close, lock
<1>2. faults' \in 0 .. MaxFaults /\ owner' \in Drains \cup {None}
  BY OutboxAssumption DEF Fail, Close, lock, Safe, TypeOK
<1>3. pc[d] \in {"check", "put", "delete"} => todo[d] # {}
  BY DEF Safe, BusyInv, AtRecord
<1>4. /\ pc' \in [Drains -> PCs] /\ todo' \in [Drains -> SUBSET Keys]
      /\ want' \in [Drains -> Wants] /\ BusyInv'
  <2>1. CASE Finish(d)
    BY <2>1, FinishTypes DEF Safe, BusyInv, AtRecord
  <2>2. CASE NextRecord(d) /\ todo[d] # {}
    BY <2>2, NextRecordTypes DEF Safe, BusyInv, AtRecord
  <2>3. CASE BeginWrite(d, "later") /\ todo' = todo /\ todo[d] # {}
    <3>1. /\ pc' \in [Drains -> PCs] /\ want' \in [Drains -> Wants]
          /\ pc'[d] \in {"check", "put"}
          /\ \A e \in Drains \ {d} : pc'[e] = pc[e]
      BY <2>3, BeginWriteTypes DEF Safe, Wants
    <3> QED
      BY <2>3, <3>1 DEF Safe, TypeOK, BusyInv, AtRecord
  <2>4. CASE /\ pc[d] \notin AtRecord
             /\ Goto(d, "idle") /\ todo' = todo /\ want' = want
    BY <2>4, IdleMove DEF PCs, AtRecord
  <2>5. CASE Close(d)
    <3>1. /\ pc' \in [Drains -> PCs] /\ pc'[d] = "idle"
          /\ \A e \in Drains \ {d} : pc'[e] = pc[e]
      BY <2>5, GotoTypes DEF Close, Safe, PCs
    <3>2. /\ todo' \in [Drains -> SUBSET Keys] /\ todo'[d] = {}
          /\ \A e \in Drains \ {d} : todo'[e] = todo[e]
      BY <2>5 DEF Close, Safe, TypeOK
    <3>3. want' \in [Drains -> Wants]
      BY <2>5 DEF Close, Safe, TypeOK, Wants
    <3> QED
      BY <3>1, <3>2, <3>3 DEF Safe, BusyInv, AtRecord
  <2> QED
    BY <1>3, <2>1, <2>2, <2>3, <2>4, <2>5 DEF Fail, AtRecord
<1> QED
  BY <1>1, <1>2, <1>4 DEF Safe, TypeOK, user, device

(* Time passes, and the device's data is removed.                          *)
LEMMA WorldStep ==
  ASSUME Safe,
         \/ \E k \in Keys : ElapseRecord(k)
         \/ ElapseLease \/ Block \/ Wipe \/ Complete \/ SignIn
  PROVE  Safe'
<1>1. UNCHANGED <<composed, ui, retries, locks, pc, todo, want, stored, faults>>
  BY DEF ElapseRecord, ElapseLease, Block, Wipe, Complete, SignIn, user, lock
<1>2. box' \in [Keys -> Statuses] /\ kept' \subseteq Keys
  <2>1. {"absent", "queued", "expired"} \subseteq Statuses
    BY DEF Statuses, Active, Due
  <2>2. ASSUME NEW k \in Keys, ElapseRecord(k) PROVE box' \in [Keys -> Statuses]
    BY <2>1, <2>2 DEF ElapseRecord, Safe, TypeOK
  <2>3. CASE Wipe \/ Complete
    BY <2>1, <2>3 DEF Wipe, Complete, Clear
  <2>4. CASE ElapseLease \/ Block \/ SignIn
    BY <2>4 DEF ElapseLease, Block, SignIn, Safe, TypeOK
  <2>5. ASSUME NEW k \in Keys, ElapseRecord(k) PROVE kept' \subseteq Keys
    BY <2>5 DEF ElapseRecord, Safe, TypeOK
  <2> QED
    BY <2>2, <2>3, <2>4, <2>5
<1>3. /\ owner' \in Drains \cup {None} /\ fresh' \in BOOLEAN
      /\ removal' \in Removals /\ removals' \in 0 .. MaxRemovals
  <2>1. CASE Block
    BY <2>1, OutboxAssumption DEF Block, lock, Removals, Safe, TypeOK
  <2>2. CASE \/ \E k \in Keys : ElapseRecord(k)
             \/ ElapseLease \/ SignIn
    BY <2>2 DEF ElapseRecord, ElapseLease, SignIn, lock, device, Removals, Safe, TypeOK
  <2>3. CASE Wipe \/ Complete
    BY <2>3 DEF Wipe, Complete, Clear, Removals, Safe, TypeOK
  <2> QED
    BY <2>1, <2>2, <2>3
<1> QED
  BY <1>1, <1>2, <1>3 DEF Safe, TypeOK, BusyInv, AtRecord

LEMMA SafeStep ==
  ASSUME Safe, [Next]_vars
  PROVE  Safe'
<1>1. CASE UNCHANGED vars
  BY <1>1 DEF vars, user, lock, device, Safe, TypeOK, BusyInv, AtRecord
<1> QED
  BY <1>1, UserStep, LockStep, RecordStep, FaultStep, WorldStep DEF Next, Work

(* Every variable of the outbox keeps its type, whatever the pages,        *)
(* workers, tabs and bounds (offlineOutboxStore.ts, outboxDrain.ts).       *)
THEOREM TypeCorrect == Spec => []TypeOK
<1>1. Spec => []Safe
  BY SafeInit, SafeStep, PTL DEF Spec
<1> QED
  BY <1>1, PTL DEF Safe

-----------------------------------------------------------------------------
(* What a step of a drain does to the others, and how it gets anywhere.    *)

Drain(d) == Start(d) \/ Work(d) \/ Fail(d) \/ Close(d)

Outside == {"idle", "lock"}

LEMMA DrainMoves ==
  ASSUME Safe, NEW d \in Drains, Drain(d)
  PROVE  /\ \A e \in Drains \ {d} : pc'[e] = pc[e] /\ todo'[e] = todo[e]
         /\ pc'[d] = "delete" => Accepted(d)
         /\ pc'[d] \in Outside \/ pc[d] \notin Outside \/ Acquire(d) \/ ~ locks
<1>1. pc[d] \in AtRecord => todo[d] # {}
  BY DEF Safe, BusyInv
<1>2. CASE Finish(d) /\ pc[d] \notin Outside
  BY <1>2, FinishTypes DEF Safe
<1>3. CASE NextRecord(d) /\ todo[d] # {} /\ pc[d] \notin Outside
  BY <1>3, NextRecordTypes DEF Safe
<1>4. CASE Wrote(d) /\ todo[d] # {} /\ pc[d] \notin Outside
  BY <1>4, WroteTypes DEF Safe
<1>5. CASE /\ \/ todo' = todo
              \/ todo' = [todo EXCEPT ![d] = DueNow]
           /\ \E w \in Wants : BeginWrite(d, w)
           /\ pc[d] \notin Outside
  <2>1. pc'[d] \in {"check", "put"} /\ \A e \in Drains \ {d} : pc'[e] = pc[e]
    BY <1>5, BeginWriteTypes DEF Safe
  <2>2. \A e \in Drains \ {d} : todo'[e] = todo[e]
    BY <1>5 DEF Safe, TypeOK
  <2> QED
    BY <1>5, <2>1, <2>2
<1>6. ASSUME NEW to \in PCs, Goto(d, to),
             \/ todo' = todo
             \/ todo' = [todo EXCEPT ![d] = {}]
      PROVE  /\ pc'[d] = to
             /\ \A e \in Drains \ {d} : pc'[e] = pc[e] /\ todo'[e] = todo[e]
  <2>1. pc'[d] = to /\ \A e \in Drains \ {d} : pc'[e] = pc[e]
    BY <1>6, GotoTypes DEF Safe
  <2>2. \A e \in Drains \ {d} : todo'[e] = todo[e]
    BY <1>6 DEF Safe, TypeOK
  <2> QED
    BY <2>1, <2>2
<1>7. CASE Start(d) \/ Close(d)
  <2>1. \E to \in PCs : /\ Goto(d, to) /\ to \in Outside
                        /\ \/ todo' = todo
                           \/ todo' = [todo EXCEPT ![d] = {}]
    BY <1>7 DEF Start, Close, PCs, Outside
  <2> QED
    BY <1>6, <2>1 DEF Outside
<1>8. CASE Acquire(d) \/ Ask(d)
  <2>1. /\ \E to \in PCs : Goto(d, to) /\ to # "delete"
        /\ todo' = todo /\ (Acquire(d) \/ ~ locks)
    BY <1>8 DEF Acquire, Ask, PCs
  <2> QED
    BY <1>6, <2>1
<1>9. CASE Lease(d) \/ Release(d)
  <2>1. /\ \E to \in PCs : Goto(d, to) /\ to # "delete"
        /\ todo' = todo /\ pc[d] \notin Outside
    BY <1>9 DEF Lease, Release, PCs, Outside
  <2> QED
    BY <1>6, <2>1
<1>10. CASE List(d)
  BY <1>2, <1>5, <1>10 DEF List, Wants, Outside
<1>11. CASE Check(d)
  <2>1. todo[d] # {} /\ pc[d] \notin Outside
    BY <1>1, <1>11 DEF Check, AtRecord, Outside
  <2>2. CASE Wrote(d)
    BY <1>4, <2>1, <2>2
  <2>3. CASE Goto(d, "put") /\ todo' = todo
    BY <1>6, <2>1, <2>3 DEF PCs
  <2> QED
    BY <1>11, <2>2, <2>3 DEF Check
<1>12. CASE Put(d)
  BY <1>1, <1>4, <1>12 DEF Put, AtRecord, Outside
<1>13. CASE Store(d)
  BY <1>13 DEF Store, Outside
<1>14. CASE Accepted(d)
  BY <1>6, <1>14 DEF Accepted, PCs, Outside
<1>15. CASE Refused(d)
  BY <1>5, <1>15 DEF Refused, Wants, Outside
<1>16. CASE Delete(d)
  BY <1>1, <1>3, <1>16 DEF Delete, AtRecord, Outside
<1>17. CASE Fail(d)
  <2>1. CASE pc[d] = "delete" /\ NextRecord(d)
    BY <1>1, <1>3, <2>1 DEF AtRecord, Outside
  <2>2. CASE /\ pc[d] \in {"check", "put"}
             /\ BeginWrite(d, "later") /\ todo' = todo
    BY <1>5, <2>2 DEF Wants, Outside
  <2>3. CASE pc[d] \in {"check", "put", "list"} /\ Finish(d)
    BY <1>2, <2>3 DEF Outside
  <2>4. CASE Goto(d, "idle") /\ todo' = todo
    BY <1>6, <2>4 DEF PCs, Outside
  <2> QED
    BY <1>17, <2>1, <2>2, <2>3, <2>4 DEF Fail
<1> QED
  BY <1>7, <1>8, <1>9, <1>10, <1>11, <1>12, <1>13, <1>14, <1>15, <1>16, <1>17
     DEF Drain, Work

(* Everything else leaves the drains where they are.                       *)
World == \/ \E t \in Tabs : User(t)
         \/ \E k \in Keys : ElapseRecord(k)
         \/ ElapseLease \/ Block \/ Wipe \/ Complete \/ SignIn

LEMMA WorldMoves ==
  ASSUME World
  PROVE  pc' = pc /\ todo' = todo /\ stored' = stored /\ locks' = locks
  BY DEF World, User, Compose, Retry, CheckUser, PutUser, ElapseRecord, ElapseLease,
         Block, Wipe, Complete, SignIn, lock

LEMMA DrainFixes ==
  ASSUME NEW d \in Drains, Drain(d)
  PROVE  /\ stored \subseteq stored' /\ kept' = kept /\ locks' = locks
         /\ removal' = removal /\ removals' = removals /\ ui' = ui
<1>1. /\ kept' = kept /\ locks' = locks
      /\ removal' = removal /\ removals' = removals /\ ui' = ui
  BY DEF Drain, Work, Start, Acquire, Ask, Lease, List, Check, Put, Store, Accepted,
         Refused, Delete, Release, Fail, Close, lock, device, user
<1>2. stored \subseteq stored'
  BY DEF Drain, Work, Start, Acquire, Ask, Lease, List, Check, Put, Store, Accepted,
         Refused, Delete, Release, Fail, Close
<1> QED
  BY <1>1, <1>2

LEMMA NextCases ==
  ASSUME [Next]_vars
  PROVE  (\E d \in Drains : Drain(d)) \/ World \/ UNCHANGED vars
  BY DEF Next, Drain, World

-----------------------------------------------------------------------------
(* A drain deletes only a record the backend has a message for.            *)
LEMMA DrainInvStep ==
  ASSUME Safe, DrainInv, [Next]_vars
  PROVE  DrainInv'
<1>1. ASSUME NEW e \in Drains, stored \subseteq stored', todo'[e] = todo[e],
             Key(e) \in stored
      PROVE  Key(e)' \in stored'
  BY <1>1 DEF Key
<1>2. ASSUME NEW d \in Drains, Drain(d) PROVE DrainInv'
  <2>1. ASSUME NEW e \in Drains, pc'[e] = "delete" PROVE Key(e)' \in stored'
    <3>1. stored \subseteq stored'
      BY <1>2, DrainFixes
    <3>2. CASE e # d
      BY <1>1, <1>2, <2>1, <3>1, <3>2, DrainMoves DEF DrainInv
    <3>3. CASE e = d
      <4>1. Accepted(d)
        BY <1>2, <2>1, <3>3, DrainMoves
      <4>2. todo' = todo /\ Key(d) \in stored
        BY <4>1 DEF Accepted
      <4> QED
        BY <1>1, <3>1, <3>3, <4>2
    <3> QED
      BY <3>2, <3>3
  <2> QED
    BY <2>1 DEF DrainInv
<1>3. CASE World \/ UNCHANGED vars
  <2>1. pc' = pc /\ todo' = todo /\ stored' = stored
    BY <1>3, WorldMoves DEF vars
  <2> QED
    BY <1>1, <2>1 DEF DrainInv
<1> QED
  BY <1>2, <1>3, NextCases

(* A record leaves the outbox by a deletion or with all the others.        *)
LEMMA NoMessageLostStep ==
  ASSUME Safe, DrainInv, NoMessageLost, [Next]_vars
  PROVE  NoMessageLost'
<1>1. ASSUME NEW d \in Drains, Drain(d) PROVE NoMessageLost'
  <2>1. stored \subseteq stored' /\ kept' = kept
    BY <1>1, DrainFixes
  <2>2. CASE Delete(d)
    <3>1. box' = [box EXCEPT ![Key(d)] = "absent"] /\ Key(d) \in stored
      BY <2>2 DEF Delete, DrainInv
    <3> QED
      BY <2>1, <3>1 DEF NoMessageLost, Safe, TypeOK
  <2>3. CASE Put(d)
    <3>1. want[d] \in Wants /\ \A w \in Wants : StatusOf(w) # "absent"
      BY DEF Safe, TypeOK, Wants, StatusOf
    <3>2. box' = [box EXCEPT ![Key(d)] = StatusOf(want[d])]
      BY <2>3 DEF Put
    <3> QED
      BY <2>1, <3>1, <3>2 DEF NoMessageLost, Safe, TypeOK
  <2>4. CASE ~ Delete(d) /\ ~ Put(d)
    <3>1. box' = box
      BY <1>1, <2>4 DEF Drain, Work, Start, Acquire, Ask, Lease, List, Check, Store,
                        Accepted, Refused, Release, Fail, Close
    <3> QED
      BY <2>1, <3>1 DEF NoMessageLost
  <2> QED
    BY <2>2, <2>3, <2>4
<1>2. CASE World
  <2>1. stored' = stored
    BY <1>2, WorldMoves
  <2>2. CASE Wipe \/ Complete
    BY <2>2 DEF Wipe, Complete, Clear, NoMessageLost
  <2>3. ASSUME NEW t \in Tabs, PutUser(t) PROVE NoMessageLost'
    <3>1. \/ /\ box' = [box EXCEPT ![ui[t].key] = "queued"]
             /\ kept' = kept \cup {ui[t].key}
          \/ box' = box /\ kept' = kept
      BY <2>3 DEF PutUser
    <3>2. box \in [Keys -> Statuses] /\ kept \subseteq Keys
      BY DEF Safe, TypeOK
    <3>3. ASSUME NEW k \in kept', box'[k] = "absent" PROVE k \in kept /\ box[k] = "absent"
      <4>1. ui[t].key \in Keys
        <5>1. ui[t] \in Doings /\ ui[t].at = "put"
          BY <2>3 DEF PutUser, Safe, TypeOK
        <5> QED
          BY <5>1 DEF Doings, Idle
      <4> QED
        BY <3>1, <3>2, <3>3, <4>1
    <3> QED
      BY <2>1, <3>3 DEF NoMessageLost
  <2>4. ASSUME NEW k \in Keys, ElapseRecord(k) PROVE NoMessageLost'
    <3>1. /\ box' = [box EXCEPT ![k] = IF @ = "later" THEN "queued" ELSE "expired"]
          /\ kept' = kept
      BY <2>4 DEF ElapseRecord
    <3> QED
      BY <2>1, <3>1 DEF NoMessageLost, Safe, TypeOK
  <2>5. CASE box' = box /\ kept' = kept
    BY <2>1, <2>5 DEF NoMessageLost
  <2> QED
    BY <1>2, <2>2, <2>3, <2>4, <2>5
       DEF World, User, Compose, Retry, CheckUser, ElapseLease, Block, SignIn
<1>3. CASE UNCHANGED vars
  BY <1>3 DEF vars, NoMessageLost
<1> QED
  BY <1>1, <1>2, <1>3, NextCases

(* A text the device has kept leaves the outbox only when the backend has  *)
(* stored the message or the user removed the data, however many pages and *)
(* workers drain, and however they are cut off, fail or lose the lease.    *)
THEOREM TextIsKept == Spec => []NoMessageLost
<1> DEFINE Inv == Safe /\ DrainInv /\ NoMessageLost
<1>1. Init => Inv
  BY SafeInit DEF Init, DrainInv, NoMessageLost
<1>2. Inv /\ [Next]_vars => Inv'
  BY SafeStep, DrainInvStep, NoMessageLostStep
<1> QED
  BY <1>1, <1>2, PTL DEF Spec

-----------------------------------------------------------------------------
(* Under Web Locks nobody but the holder is past the lock.                 *)
LEMMA HolderInvStep ==
  ASSUME Safe, HolderInv, [Next]_vars
  PROVE  HolderInv'
<1>1. ASSUME NEW d \in Drains, Drain(d), locks' PROVE HolderInv'
  <2>1. locks
    BY <1>1, DrainFixes
  <2>2. CASE Acquire(d)
    <3>1. owner = None /\ owner' = d
      BY <2>2 DEF Acquire
    <3>2. \A e \in Drains : pc[e] \in Outside
      BY <2>1, <3>1, OutboxAssumption DEF HolderInv, Outside
    <3> QED
      BY <1>1, <3>1, <3>2, DrainMoves DEF HolderInv, Outside
  <2>3. CASE Lease(d)
    <3>1. owner = d
      BY <2>1, <2>3 DEF Lease, HolderInv
    <3>2. owner' = d
      BY <2>3, <3>1 DEF Lease
    <3> QED
      BY <1>1, <2>1, <3>1, <3>2, DrainMoves DEF HolderInv, Outside
  <2>4. CASE Release(d) \/ Close(d)
    <3>1. owner' = (IF owner = d THEN None ELSE owner) /\ pc'[d] = "idle"
      BY <2>1, <2>4 DEF Release, Close, Goto, Safe, TypeOK
    <3>2. \A e \in Drains \ {d} : pc'[e] = pc[e]
      BY <1>1, DrainMoves
    <3>3. ASSUME NEW e \in Drains, pc'[e] \notin {"idle", "lock"} PROVE owner' = e
      BY <2>1, <3>1, <3>2, <3>3 DEF HolderInv
    <3> QED
      BY <3>3 DEF HolderInv
  <2>5. CASE ~ (Acquire(d) \/ Lease(d) \/ Release(d) \/ Close(d))
    <3>1. owner' = owner
      BY <1>1, <2>5 DEF Drain, Work, Start, Ask, List, Check, Put, Store, Accepted,
                        Refused, Delete, Fail, lock
    <3>2. \A e \in Drains : pc'[e] \notin Outside => pc[e] \notin Outside
      BY <1>1, <2>1, <2>5, DrainMoves
    <3> QED
      BY <2>1, <3>1, <3>2 DEF HolderInv, Outside
  <2> QED
    BY <2>2, <2>3, <2>4, <2>5
<1>2. CASE World
  <2>1. pc' = pc /\ locks' = locks
    BY <1>2, WorldMoves
  <2>2. locks => owner' = owner
    BY <1>2 DEF World, User, Compose, Retry, CheckUser, PutUser, ElapseRecord,
                ElapseLease, Block, Wipe, Complete, Clear, SignIn, lock
  <2> QED
    BY <2>1, <2>2 DEF HolderInv
<1>3. CASE UNCHANGED vars
  BY <1>3 DEF vars, lock, HolderInv
<1> QED
  <2>1. CASE ~ locks'
    BY <2>1 DEF HolderInv
  <2> QED
    BY <1>1, <1>2, <1>3, <2>1, NextCases

(* The data is as it was until it is removed.                              *)
LEMMA RemovalInvStep ==
  ASSUME Safe, RemovalInv, [Next]_vars
  PROVE  RemovalInv'
<1>1. CASE \E d \in Drains : Drain(d)
  BY <1>1, DrainFixes DEF RemovalInv
<1>2. CASE World
  <2>1. CASE Block
    BY <2>1 DEF Block, RemovalInv, Safe, TypeOK
  <2>2. CASE Wipe \/ Complete \/ SignIn
    BY <2>2 DEF Wipe, Complete, SignIn, Blocked, RemovalInv
  <2>3. CASE removal' = removal /\ removals' = removals
    BY <2>3 DEF RemovalInv
  <2> QED
    BY <1>2, <2>1, <2>2, <2>3
       DEF World, User, Compose, Retry, CheckUser, PutUser, ElapseRecord,
           ElapseLease, device
<1>3. CASE UNCHANGED vars
  BY <1>3 DEF vars, device, RemovalInv
<1> QED
  BY <1>1, <1>2, <1>3, NextCases

(* What a write to a record changes, and that it is of a listed record.    *)
LEMMA DrainWrites ==
  ASSUME Safe, NEW d \in Drains, Drain(d)
  PROVE  \/ /\ Key(d) \in todo[d] /\ todo[d] # {} /\ pc[d] \in {"put", "delete"}
            /\ \A k \in Keys \ {Key(d)} : box'[k] = box[k]
            /\ todo'[d] \subseteq todo[d]
            /\ box'[Key(d)] \in Active \/ Key(d) \notin todo'[d]
         \/ box' = box /\ todo'[d] \subseteq todo[d] \cup DueNow
<1>1. pc[d] \in AtRecord => todo[d] # {} /\ Key(d) \in todo[d] /\ Key(d) \in Keys
  BY KeyInTodo DEF Safe, BusyInv
<1>2. CASE Put(d)
  <2>1. box' = [box EXCEPT ![Key(d)] = StatusOf(want[d])] /\ Wrote(d) /\ pc[d] = "put"
    BY <1>2 DEF Put
  <2>2. todo[d] # {} /\ Key(d) \in todo[d] /\ Key(d) \in Keys
    BY <1>1, <2>1 DEF AtRecord
  <2>3. /\ todo'[d] \subseteq todo[d]
        /\ want[d] \in {"failed", "denied"} => todo'[d] = todo[d] \ {Key(d)}
    BY <2>1, <2>2, WroteTypes DEF Safe
  <2>4. want[d] \notin {"failed", "denied"} => StatusOf(want[d]) \in Active
    BY DEF Safe, TypeOK, Wants, StatusOf, Active, Due
  <2>5. /\ box'[Key(d)] = StatusOf(want[d])
        /\ \A k \in Keys \ {Key(d)} : box'[k] = box[k]
    BY <2>1, <2>2 DEF Safe, TypeOK
  <2> QED
    BY <2>1, <2>2, <2>3, <2>4, <2>5
<1>3. CASE Delete(d)
  <2>1. /\ box' = [box EXCEPT ![Key(d)] = "absent"]
        /\ NextRecord(d) /\ pc[d] = "delete"
    BY <1>3 DEF Delete
  <2>2. todo[d] # {} /\ Key(d) \in todo[d] /\ Key(d) \in Keys
    BY <1>1, <2>1 DEF AtRecord
  <2>3. todo'[d] = todo[d] \ {Key(d)}
    BY <2>1, <2>2, NextRecordTypes DEF Safe
  <2>4. \A k \in Keys \ {Key(d)} : box'[k] = box[k]
    BY <2>1, <2>2 DEF Safe, TypeOK
  <2> QED
    BY <2>1, <2>2, <2>3, <2>4
<1>4. CASE ~ Put(d) /\ ~ Delete(d)
  <2>1. box' = box
    BY <1>4 DEF Drain, Work, Start, Acquire, Ask, Lease, List, Check, Store,
                Accepted, Refused, Release, Fail, Close
  <2>2. todo'[d] \subseteq todo[d] \cup DueNow
    <3>1. CASE Finish(d)
      BY <3>1, FinishTypes DEF Safe
    <3>2. CASE NextRecord(d) /\ todo[d] # {}
      BY <3>2, NextRecordTypes DEF Safe
    <3>3. CASE Wrote(d) /\ todo[d] # {}
      BY <3>3, WroteTypes DEF Safe
    <3>4. CASE \/ todo' = todo
               \/ todo' = [todo EXCEPT ![d] = {}]
               \/ todo' = [todo EXCEPT ![d] = DueNow]
      BY <3>4 DEF Safe, TypeOK
    <3>5. CASE Fail(d)
      BY <1>1, <3>1, <3>2, <3>4, <3>5 DEF Fail, AtRecord
    <3>6. CASE List(d)
      BY <3>1, <3>4, <3>6 DEF List
    <3>7. CASE Check(d)
      BY <1>1, <3>3, <3>4, <3>7 DEF Check, AtRecord
    <3>8. CASE ~ (Fail(d) \/ List(d) \/ Check(d))
      BY <1>4, <3>4, <3>8 DEF Drain, Work, Start, Acquire, Ask, Lease, Store, Accepted,
                              Refused, Release, Close
    <3> QED
      BY <3>5, <3>6, <3>7, <3>8
  <2> QED
    BY <2>1, <2>2
<1> QED
  BY <1>2, <1>3, <1>4

(* What the holder of the Web Lock has listed waits until it is done.      *)
LEMMA ListedInvStep ==
  ASSUME Safe, HolderInv, ListedInv, RemovalInv, [Next]_vars
  PROVE  ListedInv'
<1> SUFFICES ASSUME locks', removals' = 0, NEW e \in Drains, NEW k \in todo'[e]
             PROVE  box'[k] \in Active
  BY DEF ListedInv
<1>1. ASSUME NEW d \in Drains, Drain(d) PROVE box'[k] \in Active
  <2>1. locks /\ removals = 0
    BY <1>1, DrainFixes
  <2>2. \A x \in DueNow : x \in Keys /\ box[x] \in Active
    BY DEF DueNow, Active
  <2>3. e # d => todo'[e] = todo[e]
    BY <1>1, DrainMoves
  <2>4. \A x \in todo[e] : x \in Keys /\ box[x] \in Active
    BY <2>1 DEF ListedInv, Safe, TypeOK
  <2>5. ASSUME e # d, pc[d] \in {"put", "delete"} PROVE FALSE
    <3>1. todo[e] # {}
      BY <2>3, <2>5
    <3>2. pc[e] \in AtRecord
      BY <3>1 DEF Safe, BusyInv
    <3>3. owner = e /\ owner = d
      BY <2>1, <2>5, <3>2 DEF HolderInv, AtRecord
    <3> QED
      BY <2>5, <3>3
  <2>6. CASE box' = box /\ todo'[d] \subseteq todo[d] \cup DueNow
    BY <2>2, <2>3, <2>4, <2>6
  <2>7. CASE /\ pc[d] \in {"put", "delete"}
             /\ \A x \in Keys \ {Key(d)} : box'[x] = box[x]
             /\ todo'[d] \subseteq todo[d]
             /\ box'[Key(d)] \in Active \/ Key(d) \notin todo'[d]
    <3>1. e = d
      BY <2>5, <2>7
    <3>2. k \in Keys /\ box[k] \in Active
      BY <2>4, <2>7, <3>1
    <3> QED
      BY <2>7, <3>1, <3>2
  <2> QED
    BY <1>1, <2>6, <2>7, DrainWrites
<1>2. CASE World
  <2>1. todo' = todo /\ locks
    BY <1>2, WorldMoves
  <2>2. box \in [Keys -> Statuses] /\ k \in Keys
    BY <2>1 DEF Safe, TypeOK
  <2>3. removals = 0
    <3>1. ~ Block
      <4>1. removals \in 0 .. MaxRemovals
        BY DEF Safe, TypeOK
      <4> QED
        BY <4>1, OutboxAssumption DEF Block
    <3> QED
      BY <1>2, <3>1 DEF World, User, Compose, Retry, CheckUser, PutUser, ElapseRecord,
                        ElapseLease, Wipe, Complete, SignIn, device
  <2>4. box[k] \in Active /\ removal = "no"
    BY <2>1, <2>3 DEF ListedInv, RemovalInv
  <2>5. ASSUME NEW t \in Tabs, PutUser(t) PROVE box'[k] \in Active
    BY <2>2, <2>4, <2>5 DEF PutUser, Active, Due
  <2>6. ASSUME NEW j \in Keys, ElapseRecord(j) PROVE box'[k] \in Active
    BY <2>2, <2>4, <2>6 DEF ElapseRecord, Active, Due
  <2>7. CASE box' = box
    BY <2>4, <2>7
  <2> QED
    BY <1>2, <2>4, <2>5, <2>6, <2>7
       DEF World, User, Compose, Retry, CheckUser, ElapseLease, Block, Wipe, Complete,
           SignIn, Blocked
<1>3. CASE UNCHANGED vars
  BY <1>3 DEF vars, lock, device, ListedInv
<1> QED
  BY <1>1, <1>2, <1>3, NextCases

(* The step the property is about.                                         *)
LEMMA BackStep ==
  ASSUME Safe, HolderInv, ListedInv, RemovalInv, [Next]_vars,
         NEW k \in Keys, locks, removals = 0, box[k] \notin Active, box'[k] \in Active
  PROVE  \E t \in Tabs : ui[t] = [at |-> "put", key |-> k] /\ ui'[t] = Idle
<1>1. ASSUME NEW d \in Drains, Drain(d) PROVE FALSE
  <2>1. \A x \in todo[d] : box[x] \in Active
    BY DEF ListedInv
  <2> QED
    BY <1>1, <2>1, DrainWrites
<1>2. CASE World
  <2>1. removal = "no" /\ box \in [Keys -> Statuses]
    BY DEF RemovalInv, Safe, TypeOK
  <2>2. PICK t \in Tabs : PutUser(t)
    <3>1. ASSUME NEW j \in Keys, ElapseRecord(j) PROVE FALSE
      BY <2>1, <3>1 DEF ElapseRecord, Active, Due
    <3>2. box' # box
      OBVIOUS
    <3> QED
      BY <1>2, <2>1, <3>1, <3>2
         DEF World, User, Compose, Retry, CheckUser, ElapseLease, Block, Wipe, Complete,
             SignIn, Blocked
  <2>3. ui[t] \in Doings /\ ui[t].at = "put" /\ ui \in [Tabs -> Doings]
    BY <2>2 DEF PutUser, Safe, TypeOK
  <2>4. box' = [box EXCEPT ![ui[t].key] = "queued"] /\ ui' = [ui EXCEPT ![t] = Idle]
    BY <2>2 DEF PutUser
  <2>5. ui[t].key = k
    BY <2>1, <2>4
  <2>6. ui[t] = [at |-> "put", key |-> k]
    BY <2>3, <2>5 DEF Doings, Idle
  <2>7. ui'[t] = Idle
    BY <2>3, <2>4
  <2> QED
    BY <2>6, <2>7
<1>3. CASE UNCHANGED vars
  BY <1>3 DEF vars
<1> QED
  BY <1>1, <1>2, <1>3, NextCases

(* Under Web Locks, until the data is removed, no drain brings back what   *)
(* was sent or has failed: the holder of the lock alone writes records,    *)
(* and only those it has listed and not finished, which are all waiting.   *)
THEOREM NoneBroughtBack == Spec => OnlyUserBringsBack
<1> DEFINE Inv == Safe /\ HolderInv /\ ListedInv /\ RemovalInv
<1>1. Init => Inv
  BY SafeInit DEF Init, HolderInv, ListedInv, RemovalInv
<1>2. Inv /\ [Next]_vars => Inv'
  BY SafeStep, HolderInvStep, ListedInvStep, RemovalInvStep
<1>3. Inv /\ [Next]_vars =>
        [\A k \in Keys :
           locks /\ removals = 0 /\ box[k] \notin Active /\ box'[k] \in Active
           => \E t \in Tabs : ui[t] = [at |-> "put", key |-> k] /\ ui'[t] = Idle]_vars
  BY BackStep
<1> QED
  BY <1>1, <1>2, <1>3, PTL DEF Spec, OnlyUserBringsBack

-----------------------------------------------------------------------------
(* ClientSession.  Somebody is away who has signed out, or removed the     *)
(* device's data, and has met no check on the way.  The server may still   *)
(* have the session of who is away, as a removal cannot end it: then the   *)
(* mark of the device is all that keeps the user out, and SessionInv says  *)
(* that nothing which could delete it, or show the user, is under way.     *)
Away == gone \ excused

(* The server still has u's session, or the latest check knows it does:    *)
(* the mark of the device must not be lost.                                *)
Owes(u) ==
  /\ u \in Away
  /\ \/ session = u
     \/ \E a \in Attempts :
           Current(a) /\ check[a].online = "answered" /\ check[a].answer = u

Saving == {"save", "snapshot", "mirror"}
Settling == Saving \cup {"identity", "reject", "unblock", "rejected",
                         "clear", "unmark", "left", "saved"}
Onlines == Settling \cup {"done", "asked", "answered", "leave", "stuck"}

Answers == Opt \cup {"failed", "error"}
Readings == {Waiting} \cup [who : Opt, scope : Opt]
CheckStates ==
  [online : Onlines, answer : Answers, target : Opt, pending : Opt,
   reading : {"done", "read", "observe"}, scope : Opt, found : Readings,
   only : BOOLEAN, allow : BOOLEAN]
StoreStates ==
  [identity : Opt, snapshots : SUBSET Users, signout : Opt, startup : Opt]
PageStates ==
  [status : {"closed", "checking", "authenticated", "error",
             "unauthenticated", "session_check_required"},
   user : Opt, source : {"none", "cached", "online"}, scope : Opt]
ExitStates ==
  [pc : {"idle", "logout", "mark", "markOut", "clear", "clearOut"},
   user : Opt, scope : Opt, crossed : BOOLEAN]

SessionTyped ==
  /\ session \in Opt /\ store \in StoreStates /\ page \in PageStates
  /\ mount \in Opt /\ attempt \in 0 .. MaxAttempts
  /\ timer \in 0 .. MaxAttempts /\ check \in [Attempts -> CheckStates]
  /\ queue \in Seq(Attempts) /\ exit \in ExitStates /\ entering \in Opt
  /\ gone \in SUBSET Users

DeviceInv == \A u \in Users :
  /\ u \in Away => store.startup # u /\ u \notin store.snapshots
  /\ Owes(u) => store.signout = u /\ store.startup = NoUser

PageInv ==
  /\ page.status = "authenticated" => page.user \in Users /\ page.user \notin Away
  /\ \A u \in Users :
        Owes(u) => page.status # "authenticated" /\ page.scope \in {u, NoUser}

(* What a request may be about to do.                                      *)
RequestOK(a) ==
  /\ check[a].online \in Saving \cup {"saved"} =>
       check[a].answer \in Users /\ check[a].answer \notin Away
  /\ check[a].online \in Saving => check[a].target = check[a].answer
  /\ \A u \in Users : Owes(u) =>
       /\ check[a].online \notin Settling
       /\ check[a].online \in {"leave", "stuck"} => check[a].target = u
       /\ Current(a) /\ check[a].online = "answered" /\ check[a].answer \in Opt
            => check[a].answer = u

(* What a reading may have found, or be about to find.                     *)
ReadingOK(a) ==
  /\ check[a].reading = "read" => check[a].scope = NoUser
  /\ check[a].reading = "observe" =>
       check[a].scope \notin Away /\ \A u \in Users : ~Owes(u)
  /\ Current(a) /\ page.status = "checking" /\ check[a].found # Waiting =>
       /\ check[a].found.who \notin Away
       /\ \A u \in Users : Owes(u) =>
            check[a].found.who = NoUser /\ check[a].found.scope \in {u, NoUser}

ChecksInv == \A a \in Attempts : RequestOK(a) /\ ReadingOK(a)

ExitInv ==
  /\ exit.pc # "idle" =>
       /\ exit.user \in Users
       /\ \A u \in Users : Owes(u) => exit.scope = u
       /\ ~exit.crossed => ~Busy
  /\ exit.pc \in {"mark", "clear"} => exit.scope = exit.user
  /\ exit.pc = "clear" /\ ~exit.crossed => store.signout = exit.scope
  /\ exit.pc \in {"markOut", "clearOut"} => session = NoUser

EntryInv == entering # NoUser =>
  entering \notin gone /\ session \in {entering, NoUser} /\ exit.pc = "idle"

SessionInv ==
  SessionTyped /\ DeviceInv /\ PageInv /\ ChecksInv /\ ExitInv /\ EntryInv

LEMMA SessionInitInv == SessionInit => SessionInv
<1> SUFFICES ASSUME SessionInit PROVE SessionInv
  OBVIOUS
<1>1. Blank \in CheckStates
  BY DEF Blank, CheckStates, Onlines, Answers, Readings, Opt
<1>2. NoExit \in ExitStates
  BY DEF NoExit, ExitStates, Opt
<1>3. page \in PageStates /\ page.status = "closed"
  BY DEF SessionInit, Page, PageStates, Opt
<1>4. store \in StoreStates
  BY DEF SessionInit, StoreStates, Opt
<1>5. SessionTyped
  BY <1>1, <1>2, <1>3, <1>4, SessionAssumption DEF SessionInit, SessionTyped, Opt
<1>6. \A a \in Attempts : check[a].online = "done" /\ check[a].reading = "done"
                          /\ ~Current(a)
  BY SessionAssumption DEF SessionInit, Blank, Current, Attempts
<1>7. \A u \in Users : u \notin Away /\ ~Owes(u)
  BY DEF SessionInit, Away, Owes
<1>8. exit.pc = "idle" /\ entering = NoUser
  BY DEF SessionInit, NoExit
<1>9. ChecksInv
  BY <1>6, <1>7 DEF ChecksInv, RequestOK, ReadingOK, Saving, Settling
<1> QED
  BY <1>3, <1>5, <1>7, <1>8, <1>9 DEF SessionInv, DeviceInv, PageInv, ExitInv, EntryInv

-----------------------------------------------------------------------------
(* A step that lets nobody else be away, and owes nobody else.             *)
Calm == Away' \subseteq Away /\ \A u \in Users : Owes(u)' => Owes(u)

(* Who is owed a step that signs nobody away: the session can only end, or *)
(* pass to a user who is here, and an answer is the session's.             *)
LEMMA CalmStep ==
  ASSUME Away' \subseteq Away,
         session' # session => session' \notin Users \/ session' \notin gone',
         \A a \in Attempts : attempt' = a /\ check'[a].online = "answered"
           => \/ attempt = a /\ check[a].online = "answered"
                 /\ check'[a].answer = check[a].answer
              \/ check'[a].answer \in {session, "failed", "error"}
  PROVE  Calm
<1> SUFFICES ASSUME NEW u \in Users, Owes(u)' PROVE Owes(u)
  BY DEF Calm
<1>1. u \in Away' /\ u \in Away /\ u \in gone'
  BY DEF Owes, Away
<1>2. CASE session' = u
  BY <1>1, <1>2 DEF Owes
<1>3. CASE session' # u
  <2>1. PICK a \in Attempts :
          attempt' = a /\ check'[a].online = "answered" /\ check'[a].answer = u
    BY <1>3 DEF Owes, Current
  <2>2. u \notin {"failed", "error"}
    BY SessionAssumption
  <2> QED
    BY <1>1, <2>1, <2>2 DEF Owes, Current
<1> QED
  BY <1>2, <1>3

LEMMA RequestStays ==
  ASSUME Calm, NEW a \in Attempts, RequestOK(a), attempt' = a => attempt = a,
         check'[a].online = check[a].online, check'[a].answer = check[a].answer,
         check'[a].target = check[a].target
  PROVE  RequestOK(a)'
  BY DEF RequestOK, Calm, Current

LEMMA ReadingStays ==
  ASSUME Calm, NEW a \in Attempts, ReadingOK(a), check[a] \in CheckStates,
         attempt' = a /\ page'.status = "checking"
           => attempt = a /\ page.status = "checking",
         check'[a].reading = check[a].reading, check'[a].scope = check[a].scope,
         check'[a].found = check[a].found
  PROVE  ReadingOK(a)'
<1>1. check[a].scope \in Opt /\ check[a].found \in Readings
  BY DEF CheckStates
<1>2. Waiting # check[a].found => check[a].found.who \in Opt
  BY <1>1 DEF Readings
<1> QED
  BY <1>1, <1>2 DEF ReadingOK, Calm, Current

LEMMA CheckSet ==
  ASSUME check \in [Attempts -> CheckStates], NEW a \in Attempts,
         NEW r \in CheckStates, check' = [check EXCEPT ![a] = r]
  PROVE  /\ check' \in [Attempts -> CheckStates] /\ check'[a] = r
         /\ \A b \in Attempts \ {a} : check'[b] = check[b]
  OBVIOUS

LEMMA DeviceStays ==
  ASSUME Calm, DeviceInv, store' = store
  PROVE  DeviceInv'
  BY DEF DeviceInv, Calm

LEMMA PageStays ==
  ASSUME Calm, PageInv, page' = page
  PROVE  PageInv'
  BY DEF PageInv, Calm

(* An exit goes on beside a step that begins nothing, and writes no mark   *)
(* unless a check is under way, which the exit has met.                    *)
LEMMA ExitStays ==
  ASSUME Calm, ExitInv, exit' = exit, Busy' => Busy, session' \in {session, NoUser},
         store'.signout = store.signout \/ Busy
  PROVE  ExitInv'
  BY DEF ExitInv, Calm

LEMMA EntryStays ==
  ASSUME EntryInv, entering' = entering, gone' = gone, exit' = exit,
         session' \in {session, NoUser}
  PROVE  EntryInv'
  BY DEF EntryInv

(* One attempt's step that leaves the attempts and the page's status.      *)
LEMMA ChecksStay ==
  ASSUME Calm, SessionTyped, ChecksInv, NEW a \in Attempts, attempt' = attempt,
         page'.status = page.status \/ page'.status # "checking",
         \A b \in Attempts \ {a} : check'[b] = check[b],
         RequestOK(a)', ReadingOK(a)'
  PROVE  ChecksInv'
<1> SUFFICES ASSUME NEW b \in Attempts PROVE RequestOK(b)' /\ ReadingOK(b)'
  BY DEF ChecksInv
<1>1. CASE b = a
  BY <1>1
<1>2. CASE b # a
  <2>1. check'[b] = check[b] /\ check[b] \in CheckStates
    BY <1>2 DEF SessionTyped
  <2>2. RequestOK(b) /\ ReadingOK(b)
    BY DEF ChecksInv
  <2>3. RequestOK(b)'
    BY <2>1, <2>2, RequestStays
  <2>4. ReadingOK(b)'
    BY <2>1, <2>2, ReadingStays
  <2> QED
    BY <2>3, <2>4
<1> QED
  BY <1>1, <1>2

(* What every step of a reading has in common.                             *)
LEMMA ReadingStep ==
  ASSUME SessionInv, NEW a \in Attempts, NEW r \in CheckStates,
         check[a].reading # "done", check' = [check EXCEPT ![a] = r],
         r.online = check[a].online, r.answer = check[a].answer,
         r.target = check[a].target,
         page' = page, attempt' = attempt, session' = session,
         UNCHANGED <<gone, excused, exit, entering, timer, queue, mount>>,
         store' \in StoreStates, store'.signout = store.signout,
         Calm => DeviceInv', Calm => ReadingOK(a)'
  PROVE  SessionInv'
<1>1. /\ check' \in [Attempts -> CheckStates] /\ check'[a] = r
      /\ \A b \in Attempts \ {a} : check'[b] = check[b]
  BY CheckSet DEF SessionInv, SessionTyped
<1>2. \A b \in Attempts : check'[b].online = check[b].online
                          /\ check'[b].answer = check[b].answer
  BY <1>1
<1>3. Calm
  <2>1. Away' \subseteq Away
    BY DEF Away
  <2> QED
    BY <1>2, <2>1, CalmStep
<1>4. SessionTyped'
  BY <1>1 DEF SessionInv, SessionTyped
<1>5. RequestOK(a)'
  BY <1>1, <1>3, RequestStays DEF SessionInv, ChecksInv
<1>6. ChecksInv'
  BY <1>1, <1>3, <1>5, ChecksStay DEF SessionInv
<1>7. Busy
  BY DEF Busy
<1>8. ExitInv' /\ EntryInv'
  BY <1>3, <1>7, ExitStays, EntryStays DEF SessionInv
<1>9. PageInv'
  BY <1>3, PageStays DEF SessionInv
<1> QED
  BY <1>3, <1>4, <1>6, <1>8, <1>9 DEF SessionInv

LEMMA FoundInv ==
  ASSUME SessionInv, NEW a \in Attempts, check[a].reading # "done",
         NEW w \in Opt, NEW s \in Opt, check' = Found(a, w, s),
         w \notin Away,
         \A u \in Users : Owes(u) => w = NoUser /\ s \in {u, NoUser},
         page' = page, attempt' = attempt, session' = session,
         UNCHANGED <<gone, excused, exit, entering, timer, queue, mount>>,
         store' \in StoreStates, store'.signout = store.signout,
         Calm => DeviceInv'
  PROVE  SessionInv'
<1> DEFINE c == check[a]
           f == IF c.found = Waiting THEN [who |-> w, scope |-> s] ELSE c.found
           r == [c EXCEPT !.reading = "done", !.scope = NoUser, !.found = f]
<1>1. c \in CheckStates
  BY DEF SessionInv, SessionTyped
<1>2. f \in Readings
  BY <1>1 DEF CheckStates, Readings
<1>3. r \in CheckStates
  BY <1>1, <1>2 DEF CheckStates, Opt
<1>4. /\ r.online = c.online /\ r.answer = c.answer /\ r.target = c.target
      /\ r.reading = "done" /\ r.found = f
  BY <1>1 DEF CheckStates
<1>5. check' = [check EXCEPT ![a] = r]
  BY DEF Found
<1>6. check'[a] = r
  BY <1>3, <1>5, CheckSet DEF SessionInv, SessionTyped
<1>7. ReadingOK(a)
  BY DEF SessionInv, ChecksInv
<1>8. ASSUME Calm PROVE ReadingOK(a)'
  <2>1. CASE c.found = Waiting
    <3>1. f.who = w /\ f.scope = s
      BY <2>1
    <3> QED
      BY <1>4, <1>6, <1>8, <3>1 DEF ReadingOK, Calm
  <2>2. CASE c.found # Waiting
    <3>1. f = c.found
      BY <2>2
    <3> QED
      BY <1>4, <1>6, <1>7, <1>8, <2>2, <3>1 DEF ReadingOK, Calm, Current
  <2> QED
    BY <2>1, <2>2
<1> HIDE DEF r, f
<1> QED
  BY <1>3, <1>4, <1>5, <1>8, ReadingStep

LEMMA ReadStoreInv ==
  ASSUME SessionInv, NEW a \in Attempts, ReadStore(a)
  PROVE  SessionInv'
<1> DEFINE v == store.identity
<1>0. /\ check[a].reading = "read" /\ check[a] \in CheckStates
      /\ page' = page /\ attempt' = attempt /\ session' = session /\ store' = store
      /\ UNCHANGED <<gone, excused, exit, entering, timer, queue, mount>>
  BY DEF ReadStore, tab, history, SessionInv, SessionTyped
<1>1. store \in StoreStates /\ v \in Opt /\ store.signout \in Opt
  BY DEF SessionInv, SessionTyped, StoreStates
<1>2. Calm => DeviceInv'
  BY <1>0, DeviceStays DEF SessionInv
<1>3. \A u \in Users : Owes(u) => store.signout = u
  BY DEF SessionInv, DeviceInv
<1>4. NoUser \in Opt /\ NoUser \notin Away /\ NoUser \notin Users
  BY SessionAssumption DEF Away, SessionInv, SessionTyped, Opt
<1>5. CASE store.signout # NoUser
  <2>1. check' = Found(a, NoUser, store.signout)
    BY <1>5 DEF ReadStore
  <2> QED
    BY <1>0, <1>1, <1>2, <1>3, <1>4, <2>1, FoundInv
<1>6. CASE store.signout = NoUser
  <2>1. \A u \in Users : ~Owes(u)
    BY <1>3, <1>4, <1>6
  <2>2. CASE check' = Found(a, NoUser, v)
    BY <1>0, <1>1, <1>2, <1>4, <2>1, <2>2, FoundInv
  <2>3. CASE v \in store.snapshots /\ check' = Found(a, v, v)
    <3>1. v \in Users /\ v \notin Away
      BY <1>1, <2>3 DEF SessionInv, DeviceInv, StoreStates
    <3> QED
      BY <1>0, <1>1, <1>2, <2>1, <2>3, <3>1, FoundInv
  <2>4. CASE /\ v \in store.snapshots
             /\ check' = [check EXCEPT ![a].reading = "observe", ![a].scope = v]
    <3> DEFINE r == [check[a] EXCEPT !.reading = "observe", !.scope = v]
    <3>1. v \in Users /\ v \notin Away
      BY <1>1, <2>4 DEF SessionInv, DeviceInv, StoreStates
    <3>2. r \in CheckStates
      BY <1>0, <1>1 DEF CheckStates
    <3>3. /\ r.online = check[a].online /\ r.answer = check[a].answer
          /\ r.target = check[a].target /\ r.found = check[a].found
          /\ r.reading = "observe" /\ r.scope = v
      BY <1>0 DEF CheckStates
    <3>4. check' = [check EXCEPT ![a] = r]
      BY <2>4
    <3>5. check'[a] = r
      BY <3>2, <3>4, CheckSet DEF SessionInv, SessionTyped
    <3>6. ReadingOK(a)
      BY DEF SessionInv, ChecksInv
    <3>7. Calm => ReadingOK(a)'
      <4> SUFFICES ASSUME Calm PROVE ReadingOK(a)'
        OBVIOUS
      <4>1. v \notin Away' /\ \A u \in Users : ~Owes(u)'
        BY <2>1, <3>1 DEF Calm
      <4>2. check'[a].found # Waiting => check'[a].found.who \notin Away'
               \/ ~(Current(a) /\ page.status = "checking")
        BY <3>3, <3>5, <3>6 DEF ReadingOK, Calm
      <4> QED
        BY <1>0, <3>3, <3>5, <4>1, <4>2 DEF ReadingOK, Current
    <3> HIDE DEF r
    <3> QED
      BY <1>0, <1>1, <1>2, <3>2, <3>3, <3>4, <3>7, ReadingStep
  <2> QED
    BY <1>6, <2>2, <2>3, <2>4 DEF ReadStore
<1> QED
  BY <1>5, <1>6

LEMMA NobodyFacts ==
  ASSUME SessionInv
  PROVE  /\ NoUser \in Opt /\ NoUser \notin Users /\ NoUser \notin Away
         /\ Away \subseteq Users
  BY SessionAssumption DEF Away, SessionInv, SessionTyped, Opt

LEMMA ObserveClockInv ==
  ASSUME SessionInv, NEW a \in Attempts, ObserveClock(a)
  PROVE  SessionInv'
<1> DEFINE v == check[a].scope
<1>1. /\ check[a].reading = "observe" /\ check[a] \in CheckStates
      /\ page' = page /\ attempt' = attempt /\ session' = session
      /\ UNCHANGED <<gone, excused, exit, entering, timer, queue, mount>>
  BY DEF ObserveClock, tab, history, SessionInv, SessionTyped
<1>2. v \in Opt /\ v \notin Away /\ \A u \in Users : ~Owes(u)
  BY <1>1 DEF SessionInv, ChecksInv, ReadingOK, CheckStates
<1>3. store \in StoreStates
  BY DEF SessionInv, SessionTyped
<1>4. store' = store \/ (v \in store.snapshots /\ store' = [store EXCEPT !.startup = v])
  BY DEF ObserveClock
<1>5. /\ store' \in StoreStates /\ store'.signout = store.signout
      /\ store'.snapshots = store.snapshots
      /\ store'.startup = store.startup \/ store'.startup = v
  BY <1>2, <1>3, <1>4 DEF StoreStates
<1>6. Calm => DeviceInv'
  BY <1>2, <1>5 DEF SessionInv, DeviceInv, Calm
<1>7. PICK w \in {v, NoUser} : check' = Found(a, w, v)
  BY DEF ObserveClock
<1>8. w \in Opt /\ w \notin Away
  BY <1>2, <1>7, NobodyFacts
<1> QED
  BY <1>1, <1>2, <1>5, <1>6, <1>7, <1>8, FoundInv

LEMMA ReadFailsInv ==
  ASSUME SessionInv, NEW a \in Attempts, ReadFails(a)
  PROVE  SessionInv'
<1> DEFINE v == check[a].scope
<1>1. /\ check[a].reading # "done" /\ check[a] \in CheckStates
      /\ page' = page /\ attempt' = attempt /\ session' = session /\ store' = store
      /\ UNCHANGED <<gone, excused, exit, entering, timer, queue, mount>>
      /\ check' = Found(a, NoUser, v)
  BY DEF ReadFails, tab, SessionInv, SessionTyped
<1>2. v \in Opt /\ check[a].reading \in {"read", "observe"}
  BY <1>1 DEF CheckStates
<1>3. \A u \in Users : Owes(u) => v \in {u, NoUser}
  BY <1>2 DEF SessionInv, ChecksInv, ReadingOK
<1>4. Calm => DeviceInv'
  BY <1>1, DeviceStays DEF SessionInv
<1>5. store' \in StoreStates /\ store'.signout = store.signout
  BY <1>1 DEF SessionInv, SessionTyped
<1> QED
  BY <1>1, <1>2, <1>3, <1>4, <1>5, NobodyFacts, FoundInv

LEMMA ReadDeadlineInv ==
  ASSUME SessionInv, NEW a \in Attempts, ReadDeadline(a)
  PROVE  SessionInv'
<1> DEFINE r == [check[a] EXCEPT !.found = Nobody]
<1>1. /\ check[a].reading # "done" /\ check[a] \in CheckStates
      /\ page' = page /\ attempt' = attempt /\ session' = session /\ store' = store
      /\ UNCHANGED <<gone, excused, exit, entering, timer, queue, mount>>
      /\ check' = [check EXCEPT ![a] = r]
  BY DEF ReadDeadline, tab, history, SessionInv, SessionTyped
<1>2. Nobody \in Readings /\ Nobody.who = NoUser /\ Nobody.scope = NoUser
  BY DEF Nobody, Readings, Opt
<1>3. r \in CheckStates
  BY <1>1, <1>2 DEF CheckStates
<1>4. /\ r.online = check[a].online /\ r.answer = check[a].answer
      /\ r.target = check[a].target /\ r.found = Nobody
      /\ r.reading = check[a].reading /\ r.scope = check[a].scope
  BY <1>1 DEF CheckStates
<1>5. check'[a] = r
  BY <1>1, <1>3, CheckSet DEF SessionInv, SessionTyped
<1>6. ReadingOK(a) /\ NoUser \notin Away /\ check[a].scope \in Opt
  BY <1>1, NobodyFacts DEF SessionInv, ChecksInv, CheckStates
<1>7. Calm => ReadingOK(a)'
  BY <1>2, <1>4, <1>5, <1>6 DEF ReadingOK, Calm
<1>8. Calm => DeviceInv'
  BY <1>1, DeviceStays DEF SessionInv
<1>9. store' \in StoreStates /\ store'.signout = store.signout
  BY <1>1 DEF SessionInv, SessionTyped
<1> HIDE DEF r
<1> QED
  BY <1>1, <1>3, <1>4, <1>7, <1>8, <1>9, ReadingStep

-----------------------------------------------------------------------------
(* A check stops waiting for its reading, or is let use what it has found. *)
LEMMA NoReadingFacts ==
  ASSUME NEW c \in CheckStates
  PROVE  /\ NoReading(c) \in CheckStates /\ NoReading(c).online = c.online
         /\ NoReading(c).answer = c.answer /\ NoReading(c).target = c.target
         /\ NoReading(c).reading = c.reading /\ NoReading(c).scope = c.scope
         /\ NoReading(c).found = Nobody
<1>1. Nobody \in Readings
  BY DEF Nobody, Readings, Opt
<1> QED
  BY <1>1 DEF NoReading, CheckStates

LEMMA NobodyHarmless ==
  ASSUME SessionInv, Calm, NEW a \in Attempts, check'[a].found = Nobody,
         check'[a].reading = check[a].reading, check'[a].scope = check[a].scope
  PROVE  ReadingOK(a)'
<1>1. Nobody.who = NoUser /\ Nobody.scope = NoUser
  BY DEF Nobody
<1>2. NoUser \notin Away'
  BY NobodyFacts DEF Calm
<1>3. ReadingOK(a)
  BY DEF SessionInv, ChecksInv
<1> QED
  BY <1>1, <1>2, <1>3 DEF ReadingOK, Calm

(* A step of an attempt that only concerns the page and what it may show.  *)
LEMMA PageStep ==
  ASSUME SessionInv, NEW a \in Attempts, NEW r \in CheckStates,
         check' = [check EXCEPT ![a] = r],
         r.online = check[a].online, r.answer = check[a].answer,
         r.target = check[a].target, r.reading = check[a].reading,
         attempt' = attempt, session' = session, store' = store,
         UNCHANGED <<gone, excused, exit, entering, queue, mount>>,
         timer' \in 0 .. MaxAttempts, page' \in PageStates,
         page'.status = page.status \/ page'.status # "checking",
         Calm => PageInv', Calm => ReadingOK(a)'
  PROVE  SessionInv'
<1>1. /\ check' \in [Attempts -> CheckStates] /\ check'[a] = r
      /\ \A b \in Attempts \ {a} : check'[b] = check[b]
  BY CheckSet DEF SessionInv, SessionTyped
<1>2. \A b \in Attempts : /\ check'[b].online = check[b].online
                          /\ check'[b].answer = check[b].answer
                          /\ check'[b].reading = check[b].reading
  BY <1>1
<1>3. Calm
  <2>1. Away' \subseteq Away
    BY DEF Away
  <2> QED
    BY <1>2, <2>1, CalmStep
<1>4. SessionTyped'
  BY <1>1 DEF SessionInv, SessionTyped
<1>5. RequestOK(a)'
  BY <1>1, <1>3, RequestStays DEF SessionInv, ChecksInv
<1>6. ChecksInv'
  BY <1>1, <1>3, <1>5, ChecksStay DEF SessionInv
<1>7. Busy' => Busy
  BY <1>2 DEF Busy
<1>8. ExitInv' /\ EntryInv'
  BY <1>3, <1>7, ExitStays, EntryStays DEF SessionInv
<1>9. DeviceInv'
  BY <1>3, DeviceStays DEF SessionInv
<1> QED
  BY <1>3, <1>4, <1>6, <1>8, <1>9 DEF SessionInv

LEMMA OpenCachedInv ==
  ASSUME SessionInv, NEW a \in Attempts, OpenCached(a)
  PROVE  SessionInv'
<1> DEFINE c == check[a]
           f == c.found
<1>1. PICK flag \in {"only", "allow"} : UseCached(a, flag)
  BY DEF OpenCached
<1>2. c \in CheckStates /\ f # Waiting /\ f \in Readings /\ f.who \in Opt /\ f.scope \in Opt
  <2>1. c \in CheckStates /\ f # Waiting
    BY <1>1 DEF UseCached, SessionInv, SessionTyped
  <2>2. f \in Readings
    BY <2>1 DEF CheckStates
  <2> QED
    BY <2>1, <2>2 DEF Readings
<1>3. /\ attempt' = attempt /\ session' = session /\ store' = store
      /\ UNCHANGED <<gone, excused, exit, entering, queue, mount>>
  BY <1>1 DEF UseCached, tab, history
<1>4. ReadingOK(a) /\ page \in PageStates /\ timer \in 0 .. MaxAttempts
  BY DEF SessionInv, ChecksInv, SessionTyped
<1>5. 0 \in 0 .. MaxAttempts
  BY SessionAssumption
<1>6. CASE Current(a) /\ page.status = "checking" /\ (f.who # NoUser \/ flag = "allow")
  <2>1. check' = [check EXCEPT ![a] = NoReading(c)] /\ timer' = 0
    BY <1>1, <1>6 DEF UseCached
  <2>2. /\ f.who \notin Away
        /\ \A u \in Users : Owes(u) => f.who = NoUser /\ f.scope \in {u, NoUser}
    BY <1>2, <1>4, <1>6 DEF ReadingOK
  <2>3. CASE f.who # NoUser
    <3>1. page' = Page("authenticated", f.who, "cached", f.who)
      BY <1>1, <1>6, <2>3 DEF UseCached
    <3>2. /\ page' \in PageStates /\ page'.status = "authenticated"
          /\ page'.user = f.who /\ f.who \in Users
      BY <1>2, <2>3, <3>1 DEF Page, PageStates, Opt
    <3>3. Calm => PageInv'
      BY <2>2, <2>3, <3>2 DEF PageInv, Calm
    <3>4. check'[a] = NoReading(c)
      BY <1>2, <2>1, NoReadingFacts, CheckSet DEF SessionInv, SessionTyped
    <3>5. Calm => ReadingOK(a)'
      BY <1>2, <3>4, NoReadingFacts, NobodyHarmless
    <3> QED
      BY <1>2, <1>3, <1>5, <2>1, <3>2, <3>3, <3>5, NoReadingFacts, PageStep
  <2>4. CASE f.who = NoUser
    <3>1. page' = Page("session_check_required", NoUser, "none", f.scope)
      BY <1>1, <1>6, <2>4 DEF UseCached
    <3>2. /\ page' \in PageStates /\ page'.status = "session_check_required"
          /\ page'.scope = f.scope
      BY <1>2, <3>1 DEF Page, PageStates, Opt
    <3>3. Calm => PageInv'
      BY <2>2, <3>2 DEF PageInv, Calm
    <3>4. check'[a] = NoReading(c)
      BY <1>2, <2>1, NoReadingFacts, CheckSet DEF SessionInv, SessionTyped
    <3>5. Calm => ReadingOK(a)'
      BY <1>2, <3>4, NoReadingFacts, NobodyHarmless
    <3> QED
      BY <1>2, <1>3, <1>5, <2>1, <3>2, <3>3, <3>5, NoReadingFacts, PageStep
  <2> QED
    BY <2>3, <2>4
<1>7. CASE ~(Current(a) /\ page.status = "checking" /\ (f.who # NoUser \/ flag = "allow"))
  <2> DEFINE r == [c EXCEPT ![flag] = FALSE]
  <2>1. check' = [check EXCEPT ![a] = r] /\ page' = page /\ timer' = timer
    BY <1>1, <1>7 DEF UseCached
  <2>2. /\ r \in CheckStates /\ r.online = c.online /\ r.answer = c.answer
        /\ r.target = c.target /\ r.reading = c.reading /\ r.scope = c.scope
        /\ r.found = c.found
    <3>1. CASE flag = "only"
      BY <1>2, <3>1 DEF CheckStates
    <3>2. CASE flag = "allow"
      BY <1>2, <3>2 DEF CheckStates
    <3> QED
      BY <3>1, <3>2
  <2>3. check'[a] = r
    BY <2>1, <2>2, CheckSet DEF SessionInv, SessionTyped
  <2>4. Calm => ReadingOK(a)'
    BY <1>2, <1>3, <1>4, <2>1, <2>2, <2>3, ReadingStays
  <2>5. Calm => PageInv'
    BY <2>1, PageStays DEF SessionInv
  <2> HIDE DEF r
  <2> QED
    BY <1>3, <1>4, <2>1, <2>2, <2>4, <2>5, PageStep
<1> QED
  BY <1>6, <1>7

LEMMA DeadlineInv ==
  ASSUME SessionInv, Deadline
  PROVE  SessionInv'
<1> DEFINE c == check[timer]
           more == c.allow \/ (Current(timer) /\ page.status = "checking")
           r == [c EXCEPT !.allow = more]
<1>1. timer \in Attempts /\ c \in CheckStates /\ page \in PageStates
  <2>1. timer \in 0 .. MaxAttempts /\ timer # 0
    BY DEF Deadline, SessionInv, SessionTyped
  <2>2. timer \in Attempts
    BY <2>1, SessionAssumption DEF Attempts
  <2> QED
    BY <2>2 DEF SessionInv, SessionTyped
<1>2. /\ check' = [check EXCEPT ![timer] = r] /\ timer' = 0
      /\ attempt' = attempt /\ session' = session /\ store' = store /\ page' = page
      /\ UNCHANGED <<gone, excused, exit, entering, queue, mount>>
  BY DEF Deadline, tab, history
<1>3. more \in BOOLEAN
  BY <1>1 DEF CheckStates
<1>4. /\ r \in CheckStates /\ r.online = c.online /\ r.answer = c.answer
      /\ r.target = c.target /\ r.reading = c.reading /\ r.scope = c.scope
      /\ r.found = c.found
  BY <1>1, <1>3 DEF CheckStates
<1>5. check'[timer] = r
  BY <1>1, <1>2, <1>4, CheckSet DEF SessionInv, SessionTyped
<1> HIDE DEF r, more
<1>6. \A a \in Attempts : a = timer => (Calm => ReadingOK(a)')
  BY <1>1, <1>2, <1>4, <1>5, ReadingStays DEF SessionInv, ChecksInv
<1>7. Calm => PageInv'
  BY <1>2, PageStays DEF SessionInv
<1>8. 0 \in 0 .. MaxAttempts
  BY SessionAssumption
<1>9. \A a \in Attempts : a = timer => SessionInv'
  BY <1>1, <1>2, <1>4, <1>6, <1>7, <1>8, PageStep
<1> QED
  BY <1>1, <1>9

-----------------------------------------------------------------------------
(* A step of an attempt's request: it is under way, and the session lasts  *)
(* or ends.                                                                *)
LEMMA RequestStep ==
  ASSUME SessionInv, NEW a \in Attempts, NEW r \in CheckStates,
         check' = [check EXCEPT ![a] = r], check[a].online # "done",
         r.online = "answered" => r.answer \in {session, "failed", "error"},
         r.reading = check[a].reading, r.scope = check[a].scope,
         r.found \in {check[a].found, Nobody},
         attempt' = attempt, session' \in {session, NoUser},
         UNCHANGED <<gone, excused, exit, entering, mount>>,
         queue' \in Seq(Attempts), timer' \in 0 .. MaxAttempts,
         store' \in StoreStates, page' \in PageStates,
         page'.status = page.status \/ page'.status # "checking",
         Calm => DeviceInv', Calm => PageInv', Calm => RequestOK(a)'
  PROVE  SessionInv'
<1>1. /\ check' \in [Attempts -> CheckStates] /\ check'[a] = r
      /\ \A b \in Attempts \ {a} : check'[b] = check[b]
  BY CheckSet DEF SessionInv, SessionTyped
<1>2. Calm
  <2>1. Away' \subseteq Away
    BY DEF Away
  <2>2. session' # session => session' \notin Users
    BY SessionAssumption
  <2> QED
    BY <1>1, <2>1, <2>2, CalmStep
<1>3. SessionTyped'
  BY <1>1, NobodyFacts DEF SessionInv, SessionTyped
<1>4. ReadingOK(a)'
  <2>1. CASE r.found = check[a].found
    BY <1>1, <1>2, <2>1, ReadingStays DEF SessionInv, ChecksInv, SessionTyped
  <2>2. CASE r.found = Nobody
    BY <1>1, <1>2, <2>2, NobodyHarmless
  <2> QED
    BY <2>1, <2>2
<1>5. ChecksInv'
  BY <1>1, <1>2, <1>4, ChecksStay DEF SessionInv
<1>6. Busy
  BY DEF Busy
<1>7. ExitInv' /\ EntryInv'
  BY <1>2, <1>6, ExitStays, EntryStays DEF SessionInv
<1> QED
  BY <1>2, <1>3, <1>5, <1>7 DEF SessionInv

(* The same where page, store and session are left as they are.            *)
LEMMA AnswerStep ==
  ASSUME SessionInv, NEW a \in Attempts, NEW r \in CheckStates,
         check' = [check EXCEPT ![a] = r], check[a].online # "done",
         r.online = "answered" => r.answer \in {session, "failed", "error"},
         r.reading = check[a].reading, r.scope = check[a].scope,
         r.found = check[a].found,
         attempt' = attempt, session' = session, store' = store, page' = page,
         UNCHANGED <<gone, excused, exit, entering, mount, timer>>,
         queue' \in Seq(Attempts), Calm => RequestOK(a)'
  PROVE  SessionInv'
<1>1. Calm => DeviceInv' /\ PageInv'
  BY DeviceStays, PageStays DEF SessionInv
<1>2. /\ timer' \in 0 .. MaxAttempts /\ store' \in StoreStates
      /\ page' \in PageStates
  BY DEF SessionInv, SessionTyped
<1> QED
  BY <1>1, <1>2, RequestStep

LEMMA ServeInv ==
  ASSUME SessionInv, NEW a \in Attempts, Serve(a)
  PROVE  SessionInv'
<1>1. PICK w \in {session, "failed", "error"} :
        check' = [check EXCEPT ![a].online = "answered", ![a].answer = w]
  BY DEF Serve
<1> DEFINE r == [check[a] EXCEPT !.online = "answered", !.answer = w]
<1>2. /\ check[a] \in CheckStates /\ check[a].online = "asked"
      /\ attempt' = attempt /\ session' = session /\ store' = store /\ page' = page
      /\ UNCHANGED <<gone, excused, exit, entering, mount, timer, queue>>
  BY DEF Serve, tab, SessionInv, SessionTyped
<1>3. w \in Answers /\ queue \in Seq(Attempts)
  BY DEF Answers, SessionInv, SessionTyped
<1>4. /\ r \in CheckStates /\ r.online = "answered" /\ r.answer = w
      /\ r.reading = check[a].reading /\ r.scope = check[a].scope
      /\ r.found = check[a].found
  BY <1>2, <1>3 DEF CheckStates, Onlines
<1>5. check' = [check EXCEPT ![a] = r]
  BY <1>1
<1>6. check'[a] = r
  BY <1>4, <1>5, CheckSet DEF SessionInv, SessionTyped
<1>7. \A u \in Users : Owes(u)' /\ Current(a)' => u = session \/ u = w
  BY <1>2, <1>4, <1>6 DEF Owes, Current
<1>8. w \in Opt => w = session
  BY SessionAssumption DEF Opt
<1>9. RequestOK(a)'
  <2>1. "answered" \notin Settling \cup Saving \cup {"saved", "leave", "stuck"}
    BY DEF Settling, Saving
  <2> QED
    BY <1>4, <1>6, <1>7, <1>8, <2>1 DEF RequestOK
<1> HIDE DEF r
<1> QED
  BY <1>1, <1>2, <1>3, <1>4, <1>5, <1>9, AnswerStep

LEMMA EndedFacts ==
  ASSUME NEW c \in CheckStates
  PROVE  /\ Ended(c) \in CheckStates /\ Ended(c).online = "done"
         /\ Ended(c).reading = c.reading /\ Ended(c).scope = c.scope
         /\ Ended(c).found = c.found /\ Ended(c).allow = c.allow
  BY DEF Ended, CheckStates, Onlines, Answers, Opt

LEMMA DoneHarmless ==
  ASSUME NEW a \in Attempts, check'[a].online = "done"
  PROVE  RequestOK(a)'
  BY DEF RequestOK, Saving, Settling

LEMMA AnswerEndsInv ==
  ASSUME SessionInv, NEW a \in Attempts, check[a].online = "answered",
         AnswerLate(a) \/ AnswerFailed(a) \/ AnswerError(a),
         UNCHANGED <<session, store, exit, entering, tab, history>>
  PROVE  SessionInv'
<1> DEFINE c == check[a]
<1>1. /\ c \in CheckStates /\ page \in PageStates /\ queue' = queue
      /\ attempt' = attempt /\ session' = session /\ store' = store
      /\ UNCHANGED <<gone, excused, exit, entering, mount>>
  BY DEF AnswerLate, AnswerFailed, AnswerError, tab, history, SessionInv, SessionTyped
<1>2. queue' \in Seq(Attempts)
  BY <1>1 DEF SessionInv, SessionTyped
<1>3. CASE AnswerLate(a)
  <2> DEFINE r == Ended(c)
  <2>1. check' = [check EXCEPT ![a] = r] /\ page' = page /\ timer' = timer
    BY <1>3 DEF AnswerLate
  <2>2. /\ r \in CheckStates /\ r.online = "done" /\ r.reading = c.reading
        /\ r.scope = c.scope /\ r.found = c.found
    BY <1>1, EndedFacts
  <2>3. check'[a] = r
    BY <2>1, <2>2, CheckSet DEF SessionInv, SessionTyped
  <2> HIDE DEF r
  <2>4. RequestOK(a)'
    BY <2>2, <2>3, DoneHarmless
  <2> QED
    BY <1>1, <1>2, <2>1, <2>2, <2>4, AnswerStep
<1>4. CASE AnswerFailed(a)
  <2> DEFINE e == Ended(c)
             more == c.allow \/ page.status = "checking"
             r == [e EXCEPT !.allow = more]
  <2>0. page' = page /\ timer' = timer
    BY <1>4 DEF AnswerFailed
  <2>1. check' = [check EXCEPT ![a] = r]
    BY <1>4 DEF AnswerFailed
  <2>2. more \in BOOLEAN /\ e \in CheckStates
    BY <1>1, EndedFacts DEF CheckStates
  <2>3. /\ e.online = "done" /\ e.reading = c.reading /\ e.scope = c.scope
        /\ e.found = c.found
    BY <1>1, EndedFacts
  <2> HIDE DEF e, more
  <2>4. /\ r \in CheckStates /\ r.online = e.online /\ r.reading = e.reading
        /\ r.scope = e.scope /\ r.found = e.found
    BY <2>2 DEF CheckStates
  <2>5. check'[a] = r
    BY <2>1, <2>4, CheckSet DEF SessionInv, SessionTyped
  <2> HIDE DEF r
  <2>6. RequestOK(a)'
    BY <2>3, <2>4, <2>5, DoneHarmless
  <2> QED
    BY <1>1, <1>2, <2>0, <2>1, <2>3, <2>4, <2>6, AnswerStep
<1>5. CASE AnswerError(a)
  <2> DEFINE r == NoReading(Ended(c))
  <2>1. /\ check' = [check EXCEPT ![a] = r] /\ timer' = 0
        /\ page' = Page("error", NoUser, "none", page.scope)
    BY <1>5 DEF AnswerError
  <2>2. /\ r \in CheckStates /\ r.online = "done" /\ r.reading = c.reading
        /\ r.scope = c.scope /\ r.found = Nobody
    BY <1>1, EndedFacts, NoReadingFacts
  <2>3. check'[a] = r
    BY <2>1, <2>2, CheckSet DEF SessionInv, SessionTyped
  <2> HIDE DEF r
  <2>4. RequestOK(a)'
    BY <2>2, <2>3, DoneHarmless
  <2>5. page' \in PageStates /\ page'.status = "error" /\ page'.scope = page.scope
    BY <1>1, <2>1 DEF Page, PageStates, Opt
  <2>6. Calm => PageInv'
    BY <2>5 DEF SessionInv, PageInv, Calm
  <2>7. Calm => DeviceInv'
    BY <1>1, DeviceStays DEF SessionInv
  <2>8. 0 \in 0 .. MaxAttempts /\ store' \in StoreStates
    BY <1>1, SessionAssumption DEF SessionInv, SessionTyped
  <2> QED
    BY <1>1, <1>2, <2>1, <2>2, <2>4, <2>5, <2>6, <2>7, <2>8, RequestStep
<1> QED
  BY <1>3, <1>4, <1>5

(* A request that has settled nothing yet begins to, or leaves: nobody is  *)
(* owed anything, or only the user it ends the session of.                 *)
LEMMA BeginsOK ==
  ASSUME Calm, NEW a \in Attempts, NEW r, check'[a] = r,
         \/ r.online \in {"identity", "reject", "unblock", "rejected",
                          "clear", "unmark", "left"}
            /\ \A u \in Users : ~Owes(u)
         \/ r.online \in Saving /\ r.answer \in Users /\ r.answer \notin Away
            /\ r.target = r.answer /\ \A u \in Users : ~Owes(u)
         \/ r.online = "saved" /\ r.answer \in Users /\ r.answer \notin Away
            /\ \A u \in Users : ~Owes(u)
         \/ r.online \in {"leave", "stuck"}
            /\ \A u \in Users : Owes(u) => r.target = u
  PROVE  RequestOK(a)'
  BY DEF RequestOK, Calm, Saving, Settling

LEMMA AnswerNobodyInv ==
  ASSUME SessionInv, NEW a \in Attempts, check[a].online = "answered",
         AnswerNobody(a), UNCHANGED <<session, store, exit, entering, tab, history>>
  PROVE  SessionInv'
<1> DEFINE c == check[a]
           r == [c EXCEPT !.online = "identity", !.pending = store.signout]
<1>1. /\ c \in CheckStates /\ queue' = queue /\ queue' \in Seq(Attempts)
      /\ attempt' = attempt /\ session' = session /\ store' = store /\ page' = page
      /\ UNCHANGED <<gone, excused, exit, entering, mount, timer>>
      /\ check' = [check EXCEPT ![a] = r]
  BY DEF AnswerNobody, tab, history, SessionInv, SessionTyped
<1>2. store.signout \in Opt
  BY DEF SessionInv, SessionTyped, StoreStates
<1>3. /\ r \in CheckStates /\ r.online = "identity" /\ r.reading = c.reading
      /\ r.scope = c.scope /\ r.found = c.found
  BY <1>1, <1>2 DEF CheckStates, Onlines, Settling
<1>4. check'[a] = r
  BY <1>1, <1>3, CheckSet DEF SessionInv, SessionTyped
<1>5. \A u \in Users : ~Owes(u)
  BY NobodyFacts DEF AnswerNobody, SessionInv, ChecksInv, RequestOK
<1> HIDE DEF r
<1>6. Calm => RequestOK(a)'
  BY <1>3, <1>4, <1>5, BeginsOK
<1> QED
  BY <1>1, <1>3, <1>6, AnswerStep

LEMMA AnswerUserInv ==
  ASSUME SessionInv, NEW a \in Attempts, check[a].online = "answered",
         AnswerUser(a), UNCHANGED <<session, store, exit, entering, tab, history>>
  PROVE  SessionInv'
<1> DEFINE c == check[a]
           v == c.answer
           op == IF store.signout = v THEN "leave" ELSE "save"
           r == [c EXCEPT !.online = op, !.target = v]
<1>1. /\ c \in CheckStates /\ queue' = Append(queue, a) /\ Current(a) /\ v \in Users
      /\ attempt' = attempt /\ session' = session /\ store' = store /\ page' = page
      /\ UNCHANGED <<gone, excused, exit, entering, mount, timer>>
      /\ check' = [check EXCEPT ![a] = r]
  BY DEF AnswerUser, Enqueue, tab, history, SessionInv, SessionTyped
<1>2. v \in Opt /\ op \in Onlines /\ queue' \in Seq(Attempts)
  BY <1>1 DEF Opt, Onlines, Settling, Saving, SessionInv, SessionTyped
<1>3. /\ r \in CheckStates /\ r.online = op /\ r.answer = v /\ r.target = v
      /\ r.reading = c.reading /\ r.scope = c.scope /\ r.found = c.found
  BY <1>1, <1>2 DEF CheckStates
<1>4. check'[a] = r
  BY <1>1, <1>3, CheckSet DEF SessionInv, SessionTyped
<1>5. \A u \in Users : Owes(u) => u = v /\ store.signout = u
  BY <1>1, <1>2 DEF SessionInv, ChecksInv, RequestOK, DeviceInv
<1>6. v \in Away => store.signout = v
  BY <1>1 DEF Owes, SessionInv, DeviceInv
<1>7. op # "answered"
  OBVIOUS
<1> HIDE DEF r
<1>8. Calm => RequestOK(a)'
  <2>1. CASE store.signout = v
    BY <1>3, <1>4, <1>5, <2>1, BeginsOK
  <2>2. CASE store.signout # v
    <3>1. (\A u \in Users : ~Owes(u)) /\ v \notin Away /\ op \in Saving
      BY <1>5, <1>6, <2>2 DEF Saving
    <3> QED
      BY <1>1, <1>3, <1>4, <3>1, BeginsOK
  <2> QED
    BY <2>1, <2>2
<1> HIDE DEF op
<1> QED
  BY <1>1, <1>2, <1>3, <1>7, <1>8, AnswerStep

LEMMA DeliverInv ==
  ASSUME SessionInv, NEW a \in Attempts, Deliver(a)
  PROVE  SessionInv'
  BY AnswerEndsInv, AnswerNobodyInv, AnswerUserInv DEF Deliver

LEMMA ReadIdentityInv ==
  ASSUME SessionInv, NEW a \in Attempts, ReadIdentity(a)
  PROVE  SessionInv'
<1> DEFINE c == check[a]
           t == IF c.pending # NoUser THEN c.pending
                ELSE IF store.identity # NoUser THEN store.identity ELSE mount
           r == [c EXCEPT !.online = "reject", !.target = t]
<1>1. /\ c \in CheckStates /\ c.online = "identity" /\ queue' = Append(queue, a)
      /\ attempt' = attempt /\ session' = session /\ store' = store /\ page' = page
      /\ UNCHANGED <<gone, excused, exit, entering, mount, timer>>
      /\ check' = [check EXCEPT ![a] = r]
  BY DEF ReadIdentity, Enqueue, tab, history, SessionInv, SessionTyped
<1>2. t \in Opt /\ queue' \in Seq(Attempts)
  BY <1>1 DEF SessionInv, SessionTyped, StoreStates, CheckStates
<1>3. /\ r \in CheckStates /\ r.online = "reject"
      /\ r.reading = c.reading /\ r.scope = c.scope /\ r.found = c.found
  BY <1>1, <1>2 DEF CheckStates, Onlines, Settling
<1>4. check'[a] = r
  BY <1>1, <1>3, CheckSet DEF SessionInv, SessionTyped
<1>5. \A u \in Users : ~Owes(u)
  BY <1>1 DEF SessionInv, ChecksInv, RequestOK, Settling
<1> HIDE DEF r
<1>6. Calm => RequestOK(a)'
  BY <1>3, <1>4, <1>5, BeginsOK
<1> QED
  BY <1>1, <1>2, <1>3, <1>6, AnswerStep

-----------------------------------------------------------------------------
(* The mutation chain.                                                     *)
LEMMA WithoutFacts ==
  ASSUME NEW s \in StoreStates, NEW t
  PROVE  /\ Without(t, s) \in StoreStates /\ Without(t, s).startup = NoUser
         /\ Without(t, s).snapshots \subseteq s.snapshots
         /\ Without(t, s).signout = s.signout
  BY DEF Without, StoreStates, Opt

LEMMA UnmarkedFacts ==
  ASSUME NEW s \in StoreStates, NEW t
  PROVE  /\ Unmarked(t, s) \in StoreStates /\ Unmarked(t, s).startup = s.startup
         /\ Unmarked(t, s).snapshots = s.snapshots
  BY DEF Unmarked, StoreStates, Opt

LEMMA UndoneFacts ==
  ASSUME SessionInv
  PROVE  /\ Undone \in StoreStates /\ Undone.startup = NoUser
         /\ Undone.snapshots = store.snapshots /\ Undone.signout = store.signout
  BY DEF Undone, StoreStates, Opt, SessionInv, SessionTyped

(* What is taken from the device harms nobody, nor does its mark unless    *)
(* somebody is owed it.                                                    *)
LEMMA DeviceCleared ==
  ASSUME SessionInv, Calm, store'.snapshots \subseteq store.snapshots,
         store'.startup \in {store.startup, NoUser},
         store'.signout = store.signout \/ \A u \in Users : ~Owes(u)
  PROVE  DeviceInv'
  BY NobodyFacts DEF SessionInv, DeviceInv, Calm

LEMMA WriterFacts ==
  ASSUME SessionInv, queue # <<>>
  PROVE  /\ Head(queue) \in Attempts /\ Tail(queue) \in Seq(Attempts)
         /\ queue \in Seq(Attempts) /\ check[Head(queue)] \in CheckStates
         /\ RequestOK(Head(queue))
<1>1. queue \in Seq(Attempts)
  BY DEF SessionInv, SessionTyped
<1>2. Head(queue) \in Attempts /\ Tail(queue) \in Seq(Attempts)
  BY <1>1
<1> QED
  BY <1>1, <1>2 DEF SessionInv, SessionTyped, ChecksInv

(* A write that goes on to next.                                             *)
LEMMA WriteStep ==
  ASSUME SessionInv, NEW a \in Attempts, NEW next \in Onlines \ {"answered"},
         check' = [check EXCEPT ![a].online = next], check[a].online # "done",
         queue' \in Seq(Attempts), session' \in {session, NoUser},
         store' \in StoreStates,
         UNCHANGED <<page, timer, exit, entering, tab, history>>,
         Calm => DeviceInv',
         \/ /\ next \in {"unblock", "rejected", "clear", "unmark", "left"}
            /\ \A u \in Users : ~Owes(u)
         \/ /\ next \in Saving \cup {"saved"} /\ check[a].online \in Saving
         \/ /\ next = "stuck" /\ check[a].online = "leave"
         \/ /\ next = "clear" /\ Current(a) /\ session' = NoUser
  PROVE  SessionInv'
<1> DEFINE c == check[a]
           r == [c EXCEPT !.online = next]
<1>1. c \in CheckStates /\ RequestOK(a) /\ timer \in 0 .. MaxAttempts /\ page \in PageStates
  BY DEF SessionInv, SessionTyped, ChecksInv
<1>2. /\ r \in CheckStates /\ r.online = next /\ r.answer = c.answer
      /\ r.target = c.target /\ r.reading = c.reading /\ r.scope = c.scope
      /\ r.found = c.found
  BY <1>1 DEF CheckStates
<1>3. check' = [check EXCEPT ![a] = r]
  OBVIOUS
<1>4. check'[a] = r
  BY <1>2, <1>3, CheckSet DEF SessionInv, SessionTyped
<1>5. attempt' = attempt /\ page' = page /\ UNCHANGED <<gone, excused, mount, timer>>
  BY DEF tab, history
<1> HIDE DEF r
<1>6. ASSUME Calm PROVE RequestOK(a)'
  <2>1. CASE /\ next \in {"unblock", "rejected", "clear", "unmark", "left"}
             /\ \A u \in Users : ~Owes(u)
    BY <1>2, <1>4, <1>6, <2>1, BeginsOK
  <2>2. CASE next \in Saving \cup {"saved"} /\ c.online \in Saving
    <3>1. /\ c.answer \in Users /\ c.answer \notin Away /\ c.target = c.answer
          /\ \A u \in Users : ~Owes(u)
      BY <1>1, <2>2 DEF RequestOK, Settling
    <3> QED
      BY <1>2, <1>4, <1>6, <2>2, <3>1, BeginsOK
  <2>3. CASE next = "stuck" /\ c.online = "leave"
    <3>1. \A u \in Users : Owes(u) => c.target = u
      BY <1>1, <2>3 DEF RequestOK
    <3> QED
      BY <1>2, <1>4, <1>6, <2>3, <3>1, BeginsOK
  <2>4. CASE next = "clear" /\ Current(a) /\ session' = NoUser
    <3>1. \A u \in Users : ~Owes(u)'
      BY <1>2, <1>4, <1>5, <2>4, SessionAssumption DEF Owes, Current
    <3>2. next \notin Saving \cup {"saved"}
      BY <2>4 DEF Saving
    <3> QED
      BY <1>2, <1>4, <3>1, <3>2 DEF RequestOK
  <2> QED
    BY <2>1, <2>2, <2>3, <2>4
<1>7. Calm => PageInv'
  BY <1>5, PageStays DEF SessionInv
<1>8. next # "answered"
  OBVIOUS
<1> QED
  BY <1>1, <1>2, <1>3, <1>5, <1>6, <1>7, <1>8, RequestStep

LEMMA WriteRejectedInv ==
  ASSUME SessionInv, queue # <<>>, WriteRejected(Head(queue)),
         UNCHANGED <<page, timer, exit, entering, tab, history>>
  PROVE  SessionInv'
<1> DEFINE a == Head(queue)
           c == check[a]
<1>1. /\ a \in Attempts /\ Tail(queue) \in Seq(Attempts)
      /\ queue \in Seq(Attempts) /\ RequestOK(a)
  BY WriterFacts
<1>2. /\ c.online \in {"reject", "unblock"} /\ session' = session
      /\ queue' \in Seq(Attempts)
      /\ \E next \in {"rejected", "unblock"} : check' = [check EXCEPT ![a].online = next]
  BY <1>1 DEF WriteRejected, Leave, StepTo
<1>3. \A u \in Users : ~Owes(u)
  BY <1>1, <1>2 DEF RequestOK, Settling
<1>4. store \in StoreStates
  BY DEF SessionInv, SessionTyped
<1>5. /\ store' \in StoreStates /\ store'.snapshots \subseteq store.snapshots
      /\ store'.startup \in {store.startup, NoUser}
  <2>1. CASE store' = store
    BY <1>4, <2>1
  <2>2. CASE store' = Without(c.target, store)
    BY <1>4, <2>2, WithoutFacts
  <2>3. CASE store' = Unmarked(c.target, Without(c.target, store))
    BY <1>4, <2>3, WithoutFacts, UnmarkedFacts
  <2>4. CASE store' = [store EXCEPT !.signout = NoUser]
    BY <1>4, <2>4 DEF StoreStates, Opt
  <2> QED
    BY <2>1, <2>2, <2>3, <2>4 DEF WriteRejected
<1>6. Calm => DeviceInv'
  BY <1>3, <1>5, DeviceCleared
<1>7. PICK next \in {"rejected", "unblock"} : check' = [check EXCEPT ![a].online = next]
  BY <1>2
<1>8. next \in Onlines \ {"answered"} /\ c.online # "done"
  BY <1>2, <1>7 DEF Onlines, Settling
<1> HIDE DEF a
<1> QED
  BY <1>1, <1>2, <1>3, <1>5, <1>6, <1>7, <1>8, WriteStep

LEMMA WriteLeaveInv ==
  ASSUME SessionInv, queue # <<>>, WriteLeave(Head(queue)),
         UNCHANGED <<page, timer, exit, entering, tab, history>>
  PROVE  SessionInv'
<1> DEFINE a == Head(queue)
           c == check[a]
<1>1. /\ a \in Attempts /\ Tail(queue) \in Seq(Attempts)
      /\ queue \in Seq(Attempts) /\ RequestOK(a) /\ store \in StoreStates
  BY WriterFacts DEF SessionInv, SessionTyped
<1>2. {"stuck", "clear", "unmark", "left"} \subseteq Onlines \ {"answered"}
  BY DEF Onlines, Settling
<1>3. queue' \in Seq(Attempts)
  BY <1>1 DEF WriteLeave, Leave, StepTo
<1>4. CASE c.online = "leave"
  <2>1. Calm => DeviceInv'
    <3>1. store' = store
      BY <1>4 DEF WriteLeave
    <3> QED
      BY <3>1, DeviceStays DEF SessionInv
  <2>2. CASE ~Current(a)
    <3>1. /\ check' = [check EXCEPT ![a].online = "stuck"]
          /\ session' = session /\ store' = store
      BY <1>4, <2>2 DEF WriteLeave, Leave
    <3> HIDE DEF a
    <3> QED
      BY <1>1, <1>2, <1>3, <1>4, <2>1, <3>1, WriteStep
  <2>3. CASE Current(a)
    <3>1. /\ check' = [check EXCEPT ![a].online = "clear"]
          /\ session' = NoUser /\ store' = store
      BY <1>4, <2>3 DEF WriteLeave, StepTo
    <3> HIDE DEF a
    <3> QED
      BY <1>1, <1>2, <1>3, <1>4, <2>1, <2>3, <3>1, WriteStep
  <2> QED
    BY <2>2, <2>3
<1>5. CASE c.online \in {"clear", "unmark"}
  <2>1. \A u \in Users : ~Owes(u)
    BY <1>1, <1>5 DEF RequestOK, Settling
  <2>2. session' = session
        /\ \E next \in {"unmark", "left"} : check' = [check EXCEPT ![a].online = next]
    BY <1>5 DEF WriteLeave, StepTo, Leave
  <2>3. /\ store' \in StoreStates /\ store'.snapshots \subseteq store.snapshots
        /\ store'.startup \in {store.startup, NoUser}
    <3>1. CASE store' = Unmarked(c.target, Without(c.target, store))
      BY <1>1, <3>1, WithoutFacts, UnmarkedFacts
    <3>2. CASE store' = [store EXCEPT !.signout = NoUser]
      BY <1>1, <3>2 DEF StoreStates, Opt
    <3> QED
      BY <1>5, <3>1, <3>2 DEF WriteLeave
  <2>4. Calm => DeviceInv'
    BY <2>1, <2>3, DeviceCleared
  <2>5. PICK next \in {"unmark", "left"} : check' = [check EXCEPT ![a].online = next]
    BY <2>2
  <2>6. c.online # "done"
    BY <1>5
  <2> HIDE DEF a
  <2> QED
    BY <1>1, <1>2, <1>3, <2>1, <2>2, <2>3, <2>4, <2>5, <2>6, WriteStep
<1> QED
  BY <1>4, <1>5 DEF WriteLeave

LEMMA WriteSessionInv ==
  ASSUME SessionInv, queue # <<>>, WriteSession(Head(queue)),
         UNCHANGED <<page, timer, exit, entering, tab, history>>
  PROVE  SessionInv'
<1> DEFINE a == Head(queue)
           c == check[a]
<1>1. /\ a \in Attempts /\ Tail(queue) \in Seq(Attempts)
      /\ queue \in Seq(Attempts) /\ RequestOK(a) /\ store \in StoreStates
  BY WriterFacts DEF SessionInv, SessionTyped
<1>2. /\ c.online \in Saving /\ session' = session /\ queue' \in Seq(Attempts)
      /\ \E next \in {"snapshot", "mirror", "saved"} :
            check' = [check EXCEPT ![a].online = next]
  BY <1>1 DEF WriteSession, Saving, StepTo, Leave
<1>3. /\ c.target \in Users /\ c.target \notin Away
      /\ \A u \in Users : ~Owes(u)
  BY <1>1, <1>2 DEF RequestOK, Settling
<1>4. /\ store' \in StoreStates
      /\ store'.snapshots \subseteq store.snapshots \cup {c.target}
      /\ store'.startup \in {store.startup, c.target}
  <2>1. CASE store' = [store EXCEPT !.identity = c.target]
    BY <1>1, <1>3, <2>1 DEF StoreStates, Opt
  <2>2. CASE store' = [store EXCEPT !.snapshots = @ \cup {c.target}]
    BY <1>1, <1>3, <2>2 DEF StoreStates, Opt
  <2>3. CASE store' = [store EXCEPT !.signout = NoUser, !.startup = c.target]
    BY <1>1, <1>3, <2>3 DEF StoreStates, Opt
  <2> QED
    BY <2>1, <2>2, <2>3 DEF WriteSession
<1>5. Calm => DeviceInv'
  BY <1>3, <1>4 DEF SessionInv, DeviceInv, Calm
<1>6. PICK next \in {"snapshot", "mirror", "saved"} :
        check' = [check EXCEPT ![a].online = next]
  BY <1>2
<1>7. /\ next \in Onlines \ {"answered"} /\ c.online # "done"
      /\ next \in Saving \cup {"saved"}
  BY <1>2, <1>6 DEF Onlines, Settling, Saving
<1> HIDE DEF a
<1> QED
  BY <1>1, <1>2, <1>4, <1>5, <1>6, <1>7, WriteStep

LEMMA WriteInv ==
  ASSUME SessionInv, Write
  PROVE  SessionInv'
  BY WriteRejectedInv, WriteLeaveInv, WriteSessionInv DEF Write

LEMMA WriteFailsInv ==
  ASSUME SessionInv, WriteFails
  PROVE  SessionInv'
<1>0. PICK a \in Attempts : a = Head(queue)
  BY WriterFacts DEF WriteFails
<1> DEFINE c == check[a]
<1>1. /\ queue' \in Seq(Attempts)
      /\ c \in CheckStates /\ RequestOK(a)
      /\ store \in StoreStates /\ page \in PageStates /\ timer \in 0 .. MaxAttempts
  BY <1>0, WriterFacts DEF WriteFails, SessionInv, SessionTyped
<1>2. /\ attempt' = attempt /\ page' = page
      /\ UNCHANGED <<gone, excused, exit, entering, mount, timer>>
  BY DEF WriteFails, tab
<1>3. NoUser \in Opt
  BY DEF Opt
<1>4. Calm => PageInv'
  BY <1>2, PageStays DEF SessionInv
<1>5. /\ store' \in {store, Undone} /\ store' \in StoreStates
      /\ Calm => DeviceInv'
  <2>1. store' \in {store, Undone}
    BY DEF WriteFails
  <2>2. store' \in StoreStates /\ store'.snapshots = store.snapshots
        /\ store'.startup \in {store.startup, NoUser} /\ store'.signout = store.signout
    BY <1>1, <2>1, UndoneFacts
  <2> QED
    BY <2>1, <2>2, DeviceCleared
<1>6. CASE c.online \in {"reject", "unblock"}
  <2> DEFINE r == [c EXCEPT !.online = "rejected", !.pending = NoUser]
  <2>1. check' = [check EXCEPT ![a] = r] /\ session' = session
    BY <1>0, <1>6 DEF WriteFails
  <2>2. /\ r \in CheckStates /\ r.online = "rejected"
        /\ r.reading = c.reading /\ r.scope = c.scope /\ r.found = c.found
    BY <1>1, <1>3 DEF CheckStates, Onlines, Settling
  <2>3. check'[a] = r
    BY <1>1, <2>1, <2>2, CheckSet DEF SessionInv, SessionTyped
  <2>4. \A u \in Users : ~Owes(u)
    BY <1>1, <1>6 DEF RequestOK, Settling
  <2> HIDE DEF r
  <2>5. Calm => RequestOK(a)'
    BY <1>1, <2>2, <2>3, <2>4, BeginsOK
  <2> QED
    BY <1>1, <1>2, <1>4, <1>5, <1>6, <2>1, <2>2, <2>5, RequestStep
<1>7. CASE c.online \in {"leave", "clear", "unmark"}
  <2> DEFINE r == [c EXCEPT !.online = "stuck"]
  <2>1. check' = [check EXCEPT ![a] = r] /\ session' \in {session, NoUser}
    BY <1>0, <1>7 DEF WriteFails
  <2>2. /\ r \in CheckStates /\ r.online = "stuck" /\ r.target = c.target
        /\ r.reading = c.reading /\ r.scope = c.scope /\ r.found = c.found
    BY <1>1 DEF CheckStates, Onlines
  <2>3. check'[a] = r
    BY <1>1, <2>1, <2>2, CheckSet DEF SessionInv, SessionTyped
  <2>4. \A u \in Users : Owes(u) => c.target = u
    BY <1>1, <1>7 DEF RequestOK, Settling
  <2> HIDE DEF r
  <2>5. Calm => RequestOK(a)'
    BY <1>1, <2>2, <2>3, <2>4, BeginsOK
  <2> QED
    BY <1>1, <1>2, <1>4, <1>5, <1>7, <2>1, <2>2, <2>5, RequestStep
<1>8. CASE c.online \in Saving
  <2> DEFINE r == [c EXCEPT !.online = "saved", !.target = NoUser]
  <2>1. check' = [check EXCEPT ![a] = r] /\ session' = session
    BY <1>0, <1>8 DEF WriteFails, Saving
  <2>2. /\ r \in CheckStates /\ r.online = "saved" /\ r.answer = c.answer
        /\ r.reading = c.reading /\ r.scope = c.scope /\ r.found = c.found
    BY <1>1, <1>3 DEF CheckStates, Onlines, Settling
  <2>3. check'[a] = r
    BY <1>1, <2>1, <2>2, CheckSet DEF SessionInv, SessionTyped
  <2>4. (\A u \in Users : ~Owes(u)) /\ c.answer \in Users /\ c.answer \notin Away
    BY <1>1, <1>8 DEF RequestOK, Settling
  <2>5. c.online # "done"
    BY <1>8 DEF Saving
  <2> HIDE DEF r
  <2>6. Calm => RequestOK(a)'
    BY <1>1, <2>2, <2>3, <2>4, BeginsOK
  <2> QED
    BY <1>1, <1>2, <1>4, <1>5, <2>1, <2>2, <2>5, <2>6, RequestStep
<1> QED
  BY <1>0, <1>6, <1>7, <1>8 DEF WriteFails, Saving

LEMMA SettleInv ==
  ASSUME SessionInv, NEW a \in Attempts, Settle(a)
  PROVE  SessionInv'
<1> DEFINE c == check[a]
           r == NoReading(Ended(c))
<1>1. /\ c \in CheckStates /\ c.online \in {"saved", "left", "stuck", "rejected"}
      /\ attempt' = attempt /\ session' = session /\ store' = store
      /\ UNCHANGED <<gone, excused, exit, entering, mount, queue>>
      /\ check' = [check EXCEPT ![a] = r]
  BY DEF Settle, tab, history, SessionInv, SessionTyped
<1>2. /\ r \in CheckStates /\ r.online = "done" /\ r.reading = c.reading
      /\ r.scope = c.scope /\ r.found = Nobody
  BY <1>1, EndedFacts, NoReadingFacts
<1>3. check'[a] = r
  BY <1>1, <1>2, CheckSet DEF SessionInv, SessionTyped
<1> HIDE DEF r
<1>4. RequestOK(a)'
  BY <1>2, <1>3, DoneHarmless
<1>5. /\ queue' \in Seq(Attempts) /\ store' \in StoreStates
      /\ 0 \in 0 .. MaxAttempts /\ timer \in 0 .. MaxAttempts /\ page \in PageStates
  BY <1>1, SessionAssumption DEF SessionInv, SessionTyped
<1>6. Calm => DeviceInv'
  BY <1>1, DeviceStays DEF SessionInv
<1>7. CASE ~Current(a)
  <2>1. page' = page /\ timer' = timer
    BY <1>7 DEF Settle
  <2>2. Calm => PageInv'
    BY <2>1, PageStays DEF SessionInv
  <2> QED
    BY <1>1, <1>2, <1>4, <1>5, <1>6, <2>1, <2>2, RequestStep
<1>8. CASE Current(a)
  <2>1. page' = Outcome(c) /\ timer' = 0
    BY <1>8 DEF Settle
  <2>2. RequestOK(a) /\ c.target \in Opt /\ NoUser \in Opt
    BY <1>1 DEF SessionInv, ChecksInv, CheckStates, Opt
  <2>3. CASE c.online = "saved"
    <3>1. page' = Page("authenticated", c.answer, "online", c.target)
      BY <2>1, <2>3 DEF Outcome
    <3>2. c.answer \in Users /\ c.answer \notin Away /\ \A u \in Users : ~Owes(u)
      BY <2>2, <2>3 DEF RequestOK, Settling
    <3>3. page' \in PageStates /\ page'.status = "authenticated" /\ page'.user = c.answer
      BY <2>2, <3>1, <3>2 DEF Page, PageStates, Opt
    <3>4. Calm => PageInv'
      BY <3>2, <3>3 DEF PageInv, Calm
    <3> QED
      BY <1>1, <1>2, <1>4, <1>5, <1>6, <2>1, <3>3, <3>4, RequestStep
  <2>4. CASE c.online = "left"
    <3>1. page' = Page("unauthenticated", NoUser, "none", NoUser)
      BY <2>1, <2>4 DEF Outcome
    <3>2. page' \in PageStates /\ page'.status = "unauthenticated" /\ page'.scope = NoUser
      BY <2>2, <3>1 DEF Page, PageStates
    <3>3. Calm => PageInv'
      BY <3>2 DEF PageInv, Calm
    <3> QED
      BY <1>1, <1>2, <1>4, <1>5, <1>6, <2>1, <3>2, <3>3, RequestStep
  <2>5. CASE c.online = "stuck"
    <3>1. page' = Page("session_check_required", NoUser, "none", c.target)
      BY <2>1, <2>5 DEF Outcome
    <3>2. \A u \in Users : Owes(u) => c.target = u
      BY <2>2, <2>5 DEF RequestOK
    <3>3. /\ page' \in PageStates /\ page'.status = "session_check_required"
          /\ page'.scope = c.target
      BY <2>2, <3>1 DEF Page, PageStates
    <3>4. Calm => PageInv'
      BY <3>2, <3>3 DEF PageInv, Calm
    <3> QED
      BY <1>1, <1>2, <1>4, <1>5, <1>6, <2>1, <3>3, <3>4, RequestStep
  <2>6. CASE c.online = "rejected"
    <3>1. page' = Page("unauthenticated", NoUser, "none",
                       IF c.pending # NoUser THEN NoUser ELSE c.target)
      BY <2>1, <2>6 DEF Outcome
    <3>2. \A u \in Users : ~Owes(u)
      BY <2>2, <2>6 DEF RequestOK, Settling
    <3>3. page' \in PageStates /\ page'.status = "unauthenticated"
      BY <2>2, <3>1 DEF Page, PageStates
    <3>4. Calm => PageInv'
      BY <3>2, <3>3 DEF PageInv, Calm
    <3> QED
      BY <1>1, <1>2, <1>4, <1>5, <1>6, <2>1, <3>3, <3>4, RequestStep
  <2> QED
    BY <1>1, <2>3, <2>4, <2>5, <2>6
<1> QED
  BY <1>7, <1>8

-----------------------------------------------------------------------------
(* The attempts stay, and the page does not begin to wait for one.         *)
LEMMA ChecksKept ==
  ASSUME Calm, SessionTyped, ChecksInv, check' = check, attempt' = attempt,
         page'.status = page.status \/ page'.status # "checking"
  PROVE  ChecksInv'
<1> SUFFICES ASSUME NEW a \in Attempts PROVE RequestOK(a)' /\ ReadingOK(a)'
  BY DEF ChecksInv
<1>1. check[a] \in CheckStates /\ RequestOK(a) /\ ReadingOK(a)
  BY DEF SessionTyped, ChecksInv
<1> QED
  BY <1>1, RequestStays, ReadingStays

LEMMA ExpireInv ==
  ASSUME SessionInv, Expire
  PROVE  SessionInv'
<1>1. /\ session' = NoUser
      /\ UNCHANGED <<store, page, timer, check, queue, exit, entering, tab, gone, excused>>
  BY DEF Expire
<1>2. Calm
  <2>1. Away' \subseteq Away
    BY <1>1 DEF Away
  <2> QED
    BY <1>1, <2>1, CalmStep, NobodyFacts DEF tab
<1>3. SessionTyped' /\ (Busy' => Busy)
  BY <1>1, NobodyFacts DEF SessionInv, SessionTyped, Busy, tab
<1> QED
  BY <1>1, <1>2, <1>3, DeviceStays, PageStays, ChecksKept, ExitStays, EntryStays
     DEF SessionInv, tab

(* An exit that is met by another attempt, or ends, promises nothing.      *)
LEMMA ExitMet ==
  ASSUME Calm, ExitInv, exit \in ExitStates, exit' \in {NoExit, Crossing},
         session' = session
  PROVE  ExitInv' /\ exit' \in ExitStates
<1>1. CASE exit' = NoExit
  <2>1. exit' \in ExitStates /\ exit'.pc = "idle"
    BY <1>1 DEF NoExit, ExitStates, Opt
  <2> QED
    BY <2>1 DEF ExitInv
<1>2. CASE exit' = Crossing
  <2>1. /\ exit' \in ExitStates /\ exit'.pc = exit.pc /\ exit'.user = exit.user
        /\ exit'.scope = exit.scope /\ exit'.crossed = (exit.pc # "idle")
    BY <1>2 DEF Crossing, ExitStates
  <2> QED
    BY <2>1 DEF ExitInv, Calm
<1> QED
  BY <1>1, <1>2

(* A new attempt is the latest one; the others are no longer waited for.   *)
LEMMA NewAttempt ==
  ASSUME SessionInv, NEW a \in Attempts, a = attempt + 1, attempt' = a,
         NEW checks \in [Attempts -> CheckStates], NEW r \in CheckStates,
         check' = [checks EXCEPT ![a] = r], r.online # "answered",
         \A b \in Attempts :
            \/ checks[b].online = "done" /\ checks[b].reading = "done"
            \/ /\ checks[b].online = check[b].online
               /\ checks[b].answer = check[b].answer
               /\ checks[b].target = check[b].target
               /\ checks[b].reading = check[b].reading
               /\ checks[b].scope = check[b].scope,
         UNCHANGED <<session, store, gone, excused>>, mount' \in Opt,
         queue' \in Seq(Attempts), entering' = NoUser, timer' \in 0 .. MaxAttempts,
         exit' \in {NoExit, Crossing}, page' \in PageStates,
         Calm => PageInv', Calm => RequestOK(a)', Calm => ReadingOK(a)'
  PROVE  SessionInv'
<1>1. /\ check' \in [Attempts -> CheckStates] /\ check'[a] = r
      /\ \A b \in Attempts \ {a} : check'[b] = checks[b]
  OBVIOUS
<1>2. Calm
  <2>1. Away' \subseteq Away
    BY DEF Away
  <2>2. \A b \in Attempts : ~(attempt' = b /\ check'[b].online = "answered")
    BY <1>1
  <2> QED
    BY <2>1, <2>2, CalmStep
<1>3. ExitInv' /\ exit' \in ExitStates
  BY <1>2, ExitMet DEF SessionInv, SessionTyped
<1>4. a \in 0 .. MaxAttempts
  BY SessionAssumption DEF Attempts
<1>5. SessionTyped'
  BY <1>1, <1>3, <1>4, NobodyFacts DEF SessionInv, SessionTyped
<1>6. ASSUME NEW b \in Attempts \ {a} PROVE RequestOK(b)' /\ ReadingOK(b)'
  <2>1. check'[b] = checks[b] /\ attempt' # b /\ RequestOK(b) /\ ReadingOK(b)
    BY <1>1, <1>6 DEF SessionInv, ChecksInv
  <2>2. CASE checks[b].online = "done" /\ checks[b].reading = "done"
    BY <2>1, <2>2, DoneHarmless DEF ReadingOK, Current
  <2>3. CASE /\ checks[b].online = check[b].online
             /\ checks[b].answer = check[b].answer
             /\ checks[b].target = check[b].target
             /\ checks[b].reading = check[b].reading
             /\ checks[b].scope = check[b].scope
    <3>1. RequestOK(b)'
      BY <1>2, <2>1, <2>3, RequestStays
    <3>2. ReadingOK(b)'
      BY <1>2, <2>1, <2>3 DEF ReadingOK, Current, Calm
    <3> QED
      BY <3>1, <3>2
  <2> QED
    BY <2>1, <2>2, <2>3
<1>7. ChecksInv'
  <2> SUFFICES ASSUME NEW b \in Attempts PROVE RequestOK(b)' /\ ReadingOK(b)'
    BY DEF ChecksInv
  <2>1. CASE b = a
    BY <1>2, <2>1
  <2>2. CASE b # a
    BY <1>6, <2>2
  <2> QED
    BY <2>1, <2>2
<1>8. EntryInv'
  BY DEF EntryInv
<1> QED
  BY <1>2, <1>3, <1>5, <1>7, <1>8, DeviceStays DEF SessionInv

LEMMA ResolveInv ==
  ASSUME SessionInv, NEW p \in PageStates,
         NEW checks \in [Attempts -> CheckStates], Resolve(p, checks),
         \A b \in Attempts :
            \/ checks[b].online = "done" /\ checks[b].reading = "done"
            \/ /\ checks[b].online = check[b].online
               /\ checks[b].answer = check[b].answer
               /\ checks[b].target = check[b].target
               /\ checks[b].reading = check[b].reading
               /\ checks[b].scope = check[b].scope,
         p.status = "authenticated" => p.user \in Users /\ p.user \notin Away,
         \A u \in Users :
            Owes(u) => p.status # "authenticated" /\ p.scope \in {u, NoUser},
         UNCHANGED <<session, store, gone, excused>>, mount' \in Opt,
         queue' \in Seq(Attempts), entering' = NoUser, exit' \in {NoExit, Crossing}
  PROVE  SessionInv'
<1> DEFINE a == attempt + 1
           waits == p.status # "authenticated"
           first == IF waits THEN Waiting ELSE Nobody
           r == [Blank EXCEPT !.online = "asked", !.reading = "read",
                              !.only = waits, !.found = first]
<1>0. PICK k \in Attempts : k = a
  BY DEF Resolve
<1>1. /\ attempt' = k /\ timer' = IF waits THEN k ELSE 0
      /\ page' = IF waits THEN [p EXCEPT !.status = "checking"] ELSE p
      /\ check' = [checks EXCEPT ![k] = r]
  BY <1>0 DEF Resolve
<1>2. first \in Readings /\ (waits => first = Waiting) /\ Blank \in CheckStates
      /\ Blank.scope = NoUser
  BY DEF Nobody, Readings, Opt, Blank, CheckStates, Onlines, Answers
<1>3. waits \in BOOLEAN
  OBVIOUS
<1>4. timer' \in 0 .. MaxAttempts
  BY <1>1, SessionAssumption DEF Attempts
<1>5. /\ page' \in PageStates /\ page'.scope = p.scope /\ page'.user = p.user
      /\ waits => page'.status = "checking"
      /\ ~waits => page'.status = "authenticated"
  <2>1. CASE waits
    BY <1>1, <2>1 DEF PageStates
  <2>2. CASE ~waits
    BY <1>1, <2>2
  <2> QED
    BY <2>1, <2>2
<1>6. /\ \A u \in Users : Owes(u) => waits
      /\ ~waits => p.user \in Users /\ p.user \notin Away
  OBVIOUS
<1> HIDE DEF waits, first
<1>7. /\ r \in CheckStates /\ r.online = "asked" /\ r.reading = "read"
      /\ r.scope = NoUser /\ r.found = first
  BY <1>2, <1>3 DEF CheckStates, Onlines
<1> HIDE DEF r
<1>8. check'[k] = r
  BY <1>1, <1>7
<1>9. Calm => PageInv'
  BY <1>5, <1>6 DEF PageInv, Calm
<1>10. RequestOK(k)'
  BY <1>7, <1>8 DEF RequestOK, Saving, Settling
<1>11. ReadingOK(k)'
  BY <1>2, <1>5, <1>7, <1>8 DEF ReadingOK
<1> QED
  BY <1>0, <1>1, <1>4, <1>5, <1>7, <1>9, <1>10, <1>11, NewAttempt

LEMMA SupersededFacts ==
  ASSUME SessionInv
  PROVE  /\ Superseded \in [Attempts -> CheckStates]
         /\ \A b \in Attempts : /\ Superseded[b].online = check[b].online
                                /\ Superseded[b].answer = check[b].answer
                                /\ Superseded[b].target = check[b].target
                                /\ Superseded[b].reading = check[b].reading
                                /\ Superseded[b].scope = check[b].scope
<1>1. ASSUME NEW b \in Attempts
      PROVE  /\ Superseded[b] \in {check[b], NoReading(check[b])}
             /\ check[b] \in CheckStates
  BY DEF Superseded, SessionInv, SessionTyped
<1>2. ASSUME NEW b \in Attempts
      PROVE  /\ Superseded[b] \in CheckStates
             /\ Superseded[b].online = check[b].online
             /\ Superseded[b].answer = check[b].answer
             /\ Superseded[b].target = check[b].target
             /\ Superseded[b].reading = check[b].reading
             /\ Superseded[b].scope = check[b].scope
  BY <1>1, NoReadingFacts
<1>3. Superseded = [b \in Attempts |-> Superseded[b]]
  BY DEF Superseded
<1> QED
  BY <1>2, <1>3

LEMMA RefreshInv ==
  ASSUME SessionInv, Refresh
  PROVE  SessionInv'
<1>1. /\ Resolve(page, Superseded) /\ exit' = Crossing /\ entering' = NoUser
      /\ UNCHANGED <<session, store, mount, queue, gone, excused>>
  BY DEF Refresh, history
<1>2. page \in PageStates /\ mount' \in Opt /\ queue' \in Seq(Attempts)
  BY <1>1 DEF SessionInv, SessionTyped
<1>3. /\ page.status = "authenticated" => page.user \in Users /\ page.user \notin Away
      /\ \A u \in Users :
            Owes(u) => page.status # "authenticated" /\ page.scope \in {u, NoUser}
  BY DEF SessionInv, PageInv
<1> QED
  BY <1>1, <1>2, <1>3, SupersededFacts, ResolveInv

LEMMA OpenInv ==
  ASSUME SessionInv, Open
  PROVE  SessionInv'
<1>1. PICK mirror \in {NoUser, store.startup} :
        /\ mount' = mirror
        /\ Resolve(Opened(mirror), [a \in Attempts |-> Blank])
  BY DEF Open
<1>2. /\ exit' = NoExit /\ entering' = NoUser /\ queue' = <<>>
      /\ UNCHANGED <<session, store, gone, excused>>
  BY DEF Open, history
<1>3. store.startup \in Opt /\ mirror \in Opt
  BY <1>1, NobodyFacts DEF SessionInv, SessionTyped, StoreStates
<1>4. mirror \notin Away /\ \A u \in Users : Owes(u) => mirror = NoUser
  BY <1>1, <1>3, NobodyFacts DEF SessionInv, DeviceInv
<1> DEFINE p == Opened(mirror)
           checks == [a \in Attempts |-> Blank]
<1>5. /\ p \in PageStates
      /\ p.status = "authenticated" => p.user \in Users /\ p.user \notin Away
      /\ mirror = NoUser => p.status # "authenticated" /\ p.scope = NoUser
  BY <1>3, <1>4 DEF Opened, Page, PageStates, Opt
<1>6. Blank \in CheckStates /\ Blank.online = "done" /\ Blank.reading = "done"
  BY DEF Blank, CheckStates, Onlines, Answers, Readings, Opt
<1>7. /\ checks \in [Attempts -> CheckStates]
      /\ \A b \in Attempts : checks[b].online = "done" /\ checks[b].reading = "done"
  BY <1>6
<1>8. Resolve(p, checks) /\ mount' \in Opt /\ queue' \in Seq(Attempts)
  BY <1>1, <1>2, <1>3
<1> HIDE DEF p, checks
<1> QED
  BY <1>2, <1>4, <1>5, <1>7, <1>8, ResolveInv

LEMMA LoginAcceptedInv ==
  ASSUME SessionInv, NEW v \in Users, LoginAccepted(v)
  PROVE  SessionInv'
<1>1. /\ exit.pc = "idle" /\ session' = v /\ entering' = v
      /\ gone' = gone \ {v} /\ excused' = excused \ {v}
      /\ UNCHANGED <<store, page, timer, check, queue, exit, tab>>
  BY DEF LoginAccepted
<1>2. Calm
  <2>1. Away' \subseteq Away
    BY <1>1 DEF Away
  <2> QED
    BY <1>1, <2>1, CalmStep DEF tab
<1>3. SessionTyped'
  BY <1>1, NobodyFacts DEF SessionInv, SessionTyped, tab, Opt
<1>4. ExitInv' /\ EntryInv'
  BY <1>1 DEF ExitInv, EntryInv
<1> QED
  BY <1>1, <1>2, <1>3, <1>4, DeviceStays, PageStays, ChecksKept DEF SessionInv, tab

LEMMA LoginAnsweredInv ==
  ASSUME SessionInv, LoginAnswered
  PROVE  SessionInv'
<1> DEFINE r == [Blank EXCEPT !.online = "save", !.answer = entering, !.target = entering]
<1>1. PICK k \in Attempts : k = attempt + 1
  BY DEF LoginAnswered
<1>2. /\ entering # NoUser /\ attempt' = k /\ timer' = 0
      /\ check' = [Superseded EXCEPT ![k] = r] /\ queue' = Append(queue, k)
      /\ entering' = NoUser /\ exit' = Crossing
      /\ UNCHANGED <<session, store, page, mount, gone, excused>>
  BY <1>1 DEF LoginAnswered, history
<1>3. entering \in Users /\ entering \notin gone /\ session \in {entering, NoUser}
  BY <1>2 DEF SessionInv, SessionTyped, EntryInv, Opt
<1>4. Blank \in CheckStates /\ Blank.reading = "done"
  BY DEF Blank, CheckStates, Onlines, Answers, Readings, Opt
<1>5. /\ r \in CheckStates /\ r.online = "save" /\ r.answer = entering
      /\ r.target = entering /\ r.reading = "done" /\ r.found = Blank.found
  BY <1>3, <1>4 DEF CheckStates, Onlines, Settling, Saving, Answers, Opt
<1>6. Blank.found = Waiting
  BY DEF Blank
<1> HIDE DEF r
<1>7. check'[k] = r
  BY <1>2, <1>5, SupersededFacts
<1>8. /\ 0 \in 0 .. MaxAttempts /\ queue' \in Seq(Attempts) /\ mount' \in Opt
      /\ page' \in PageStates
  BY <1>2, SessionAssumption DEF SessionInv, SessionTyped
<1>9. \A u \in Users : ~Owes(u)'
  BY <1>2, <1>3, <1>5, <1>7, NobodyFacts DEF Owes, Away, Current
<1>10. RequestOK(k)'
  BY <1>2, <1>3, <1>5, <1>7, <1>9 DEF RequestOK, Away, Saving
<1>11. ReadingOK(k)'
  BY <1>5, <1>6, <1>7 DEF ReadingOK
<1>12. Calm => PageInv'
  BY <1>2, PageStays DEF SessionInv
<1>13. exit' \in {NoExit, Crossing} /\ r.online # "answered"
  BY <1>2, <1>5
<1> QED
  BY <1>1, <1>2, <1>5, <1>8, <1>10, <1>11, <1>12, <1>13, SupersededFacts, NewAttempt

-----------------------------------------------------------------------------
(* Signing out and removing the data.                                      *)
LEMMA StartExitInv ==
  ASSUME SessionInv, NEW v \in Users, NEW to \in {"logout", "mark"}, StartExit(to, v),
         to = "mark" => page.scope = v,
         \A u \in Users : Owes(u) => page.scope = u
  PROVE  SessionInv'
<1>1. /\ entering = NoUser
      /\ exit' = [pc |-> to, user |-> v, scope |-> page.scope, crossed |-> Busy]
      /\ UNCHANGED <<session, store, page, timer, check, queue, entering, tab,
                     gone, excused>>
  BY DEF StartExit, history
<1>2. Calm
  <2>1. Away' \subseteq Away
    BY <1>1 DEF Away
  <2> QED
    BY <1>1, <2>1, CalmStep DEF tab
<1>3. page.scope \in Opt /\ Busy \in BOOLEAN /\ v \in Opt
  BY DEF SessionInv, SessionTyped, PageStates, Busy, Opt
<1>4. /\ exit' \in ExitStates /\ exit'.pc = to /\ exit'.user = v
      /\ exit'.scope = page.scope
  BY <1>1, <1>3 DEF ExitStates
<1>5. exit'.crossed = Busy
  BY <1>1
<1>6. SessionTyped'
  BY <1>1, <1>4 DEF SessionInv, SessionTyped, tab
<1>7. Busy' => Busy
  BY <1>1 DEF Busy
<1>8. ExitInv'
  BY <1>1, <1>2, <1>4, <1>5, <1>7 DEF ExitInv, Calm
<1>9. EntryInv'
  BY <1>1 DEF EntryInv
<1> QED
  BY <1>1, <1>2, <1>6, <1>8, <1>9, DeviceStays, PageStays, ChecksKept DEF SessionInv, tab

LEMMA SignOutInv ==
  ASSUME SessionInv, SignOut
  PROVE  SessionInv'
<1>1. page.user \in Users /\ \A u \in Users : ~Owes(u)
  BY DEF SignOut, SessionInv, PageInv
<1> QED
  BY <1>1, StartExitInv DEF SignOut

LEMMA RemoveDataInv ==
  ASSUME SessionInv, RemoveData
  PROVE  SessionInv'
<1>1. page.scope \in Users
  BY DEF RemoveData, SessionInv, SessionTyped, PageStates, Opt
<1>2. \A u \in Users : Owes(u) => page.scope = u
  BY DEF RemoveData, SessionInv, PageInv
<1> QED
  BY <1>1, <1>2, StartExitInv DEF RemoveData

(* A step of an exit after which nobody more is away: the exit is over, or *)
(* goes on for the same user.                                              *)
LEMMA ExitGoesOn ==
  ASSUME SessionInv, exit.pc # "idle", Away' \subseteq Away,
         gone' \in SUBSET Users, session' \in {session, NoUser},
         UNCHANGED <<timer, check, queue, entering, tab>>,
         store' \in StoreStates, exit' \in ExitStates, page' \in PageStates,
         page' = page \/ (page'.status = "unauthenticated" /\ page'.scope = NoUser),
         Calm => DeviceInv', Calm => ExitInv'
  PROVE  SessionInv'
<1>1. Calm
  <2>1. session' # session => session' \notin Users
    BY SessionAssumption
  <2> QED
    BY <2>1, CalmStep DEF tab
<1>2. entering = NoUser
  BY DEF SessionInv, EntryInv
<1>3. SessionTyped' /\ EntryInv'
  BY <1>2, NobodyFacts DEF SessionInv, SessionTyped, EntryInv, tab
<1>4. PageInv'
  BY <1>1 DEF SessionInv, PageInv, Calm
<1>5. ChecksInv'
  BY <1>1, ChecksKept DEF SessionInv, tab
<1> QED
  BY <1>1, <1>3, <1>4, <1>5 DEF SessionInv

LEMMA NoExitFacts == NoExit \in ExitStates /\ NoExit.pc = "idle"
  BY DEF NoExit, ExitStates, Opt

LEMMA LogoutInv ==
  ASSUME SessionInv, exit.pc = "logout", session' = NoUser, store' = store,
         UNCHANGED <<timer, check, queue, entering, tab>>,
         \/ exit.scope = NoUser /\ Exited("unauthenticated", NoUser)
         \/ /\ exit.scope # NoUser /\ exit' = [exit EXCEPT !.pc = "markOut"]
            /\ UNCHANGED <<page, gone, excused>>
  PROVE  SessionInv'
<1>1. /\ exit \in ExitStates /\ exit.user \in Users /\ page \in PageStates
      /\ store \in StoreStates /\ gone \in SUBSET Users
  BY DEF SessionInv, ExitInv, SessionTyped
<1>2. Calm => DeviceInv'
  BY DeviceStays DEF SessionInv
<1>3. CASE exit.scope = NoUser /\ Exited("unauthenticated", NoUser)
  <2>1. /\ gone' = gone \cup {exit.user} /\ excused' = excused \cup {exit.user}
        /\ exit' = NoExit /\ page' = Page("unauthenticated", NoUser, "none", NoUser)
    BY <1>1, <1>3, NobodyFacts DEF Exited
  <2>2. Away' \subseteq Away /\ gone' \in SUBSET Users
    BY <1>1, <2>1 DEF Away
  <2>3. /\ page' \in PageStates /\ page'.status = "unauthenticated"
        /\ page'.scope = NoUser
    BY <2>1 DEF Page, PageStates, Opt
  <2>4. ExitInv' /\ exit' \in ExitStates
    BY <2>1, NoExitFacts DEF ExitInv
  <2> QED
    BY <1>1, <1>2, <2>2, <2>3, <2>4, ExitGoesOn
<1>4. CASE /\ exit.scope # NoUser /\ exit' = [exit EXCEPT !.pc = "markOut"]
           /\ UNCHANGED <<page, gone, excused>>
  <2>1. /\ exit' \in ExitStates /\ exit'.pc = "markOut" /\ exit'.user = exit.user
        /\ exit'.scope = exit.scope /\ exit'.crossed = exit.crossed
    BY <1>1, <1>4 DEF ExitStates
  <2>2. Away' \subseteq Away
    BY <1>4 DEF Away
  <2>3. Calm => ExitInv'
    BY <2>1 DEF SessionInv, ExitInv, Calm, Busy
  <2> QED
    BY <1>1, <1>2, <1>4, <2>1, <2>2, <2>3, ExitGoesOn
<1> QED
  BY <1>3, <1>4

LEMMA MarkInv ==
  ASSUME SessionInv, exit.pc \in {"mark", "markOut"}, session' = session,
         store' = [store EXCEPT !.signout = exit.scope],
         exit' = [exit EXCEPT !.pc = IF @ = "mark" THEN "clear" ELSE "clearOut"],
         UNCHANGED <<timer, check, queue, entering, tab, page, gone, excused>>
  PROVE  SessionInv'
<1>1. /\ exit \in ExitStates /\ exit.scope \in Opt /\ page \in PageStates
      /\ store \in StoreStates /\ gone \in SUBSET Users
  BY DEF SessionInv, SessionTyped, ExitStates
<1>2. /\ store' \in StoreStates /\ store'.signout = exit.scope
      /\ store'.snapshots = store.snapshots /\ store'.startup = store.startup
  BY <1>1 DEF StoreStates
<1>3. /\ exit' \in ExitStates /\ exit'.user = exit.user
      /\ exit'.scope = exit.scope /\ exit'.crossed = exit.crossed
      /\ exit'.pc = IF exit.pc = "mark" THEN "clear" ELSE "clearOut"
  BY <1>1 DEF ExitStates
<1>4. Away' \subseteq Away
  BY DEF Away
<1>5. Calm => DeviceInv'
  BY <1>2 DEF SessionInv, DeviceInv, ExitInv, Calm
<1>6. Calm => ExitInv'
  BY <1>2, <1>3 DEF SessionInv, ExitInv, Calm, Busy
<1> QED
  BY <1>1, <1>2, <1>3, <1>4, <1>5, <1>6, ExitGoesOn

(* The exit is over: who leaves is away from now on, unless a check was    *)
(* met or the page had no scope.  If the session is still the user's, the  *)
(* device has the mark.                                                    *)
LEMMA ClearInv ==
  ASSUME SessionInv, exit.pc \in {"clear", "clearOut"}, session' = session,
         store' = Without(exit.scope, store),
         IF exit.pc = "clear" THEN Exited("session_check_required", exit.scope)
                              ELSE Exited("unauthenticated", NoUser),
         UNCHANGED <<timer, check, queue, entering, tab>>
  PROVE  SessionInv'
<1> DEFINE v == exit.user
<1>1. /\ exit.scope \in Opt /\ v \in Users /\ page \in PageStates
      /\ store \in StoreStates /\ gone \in SUBSET Users /\ entering = NoUser
  BY DEF SessionInv, SessionTyped, ExitStates, ExitInv, EntryInv
<1>2. /\ exit' = NoExit /\ gone' = gone \cup {v}
      /\ excused' = IF exit.crossed \/ exit.scope # v THEN excused \cup {v} ELSE excused
  BY DEF Exited
<1>3. page' = IF exit.pc = "clear"
              THEN Page("session_check_required", NoUser, "none", exit.scope)
              ELSE Page("unauthenticated", NoUser, "none", NoUser)
  BY DEF Exited
<1>4. /\ page' \in PageStates /\ page'.status \notin {"authenticated", "checking"}
      /\ page'.scope \in {exit.scope, NoUser}
  BY <1>1, <1>3 DEF Page, PageStates, Opt
<1>5. /\ store' \in StoreStates /\ store'.startup = NoUser
      /\ store'.snapshots \subseteq store.snapshots \ {exit.scope}
      /\ store'.signout = store.signout
  <2>1. store'.snapshots \subseteq store.snapshots \ {exit.scope}
    BY <1>1 DEF Without, StoreStates
  <2> QED
    BY <1>1, <2>1, WithoutFacts
<1>6. Away' \subseteq Away \/ (Away' \subseteq Away \cup {v} /\ v \notin Away
                               /\ ~exit.crossed /\ exit.scope = v)
  BY <1>2 DEF Away
<1>7. ASSUME NEW u \in Users, Owes(u)'
      PROVE  exit.scope = u /\ store.signout = u
  <2>1. u \in Away' /\ (Owes(u) \/ u \notin Away)
    BY <1>7 DEF Owes, Current, tab
  <2>2. CASE Owes(u)
    BY <2>2 DEF SessionInv, ExitInv, DeviceInv
  <2>3. CASE u \notin Away
    <3>1. u = v /\ ~exit.crossed /\ exit.scope = v
      BY <1>6, <2>1, <2>3
    <3>2. ~Busy
      BY <3>1 DEF SessionInv, ExitInv
    <3>3. session = u
      BY <1>7, <3>2 DEF Owes, Busy
    <3>4. exit.pc = "clear"
      BY <1>1, <3>3, NobodyFacts DEF SessionInv, ExitInv
    <3> QED
      BY <3>1, <3>4 DEF SessionInv, ExitInv
  <2> QED
    BY <2>1, <2>2, <2>3
<1>8. SessionTyped'
  BY <1>1, <1>2, <1>4, <1>5, NoExitFacts DEF SessionInv, SessionTyped, tab
<1>9. DeviceInv'
  <2> SUFFICES ASSUME NEW u \in Users
               PROVE  /\ u \in Away' => store'.startup # u /\ u \notin store'.snapshots
                      /\ Owes(u)' => store'.signout = u /\ store'.startup = NoUser
    BY DEF DeviceInv
  <2>1. u \in Away' => u \in Away \/ u = exit.scope
    BY <1>6
  <2>2. u \in Away => u \notin store.snapshots
    BY DEF SessionInv, DeviceInv
  <2> QED
    BY <1>5, <1>7, <2>1, <2>2, NobodyFacts
<1>10. PageInv'
  BY <1>4, <1>7 DEF PageInv
<1>11. ChecksInv'
  <2>1. CASE Away' \subseteq Away
    <3>1. Calm
      BY <2>1, CalmStep DEF tab
    <3> QED
      BY <1>4, <3>1, ChecksKept DEF SessionInv, tab
  <2>2. CASE ~exit.crossed
    <3>1. ~Busy
      BY <2>2 DEF SessionInv, ExitInv
    <3>2. \A a \in Attempts : check'[a].online = "done" /\ check'[a].reading = "done"
      BY <3>1 DEF Busy
    <3>3. \A a \in Attempts : RequestOK(a)'
      BY <3>2, DoneHarmless
    <3>4. \A a \in Attempts : ReadingOK(a)'
      BY <1>4, <3>2 DEF ReadingOK
    <3> QED
      BY <3>3, <3>4 DEF ChecksInv
  <2> QED
    BY <1>6, <2>1, <2>2
<1>12. ExitInv' /\ EntryInv'
  BY <1>1, <1>2, NoExitFacts DEF ExitInv, EntryInv
<1> QED
  BY <1>8, <1>9, <1>10, <1>11, <1>12 DEF SessionInv

LEMMA ExitStepInv ==
  ASSUME SessionInv, Exit
  PROVE  SessionInv'
<1>1. UNCHANGED <<timer, check, queue, entering, tab>>
  BY DEF Exit
<1>2. CASE exit.pc = "logout"
  BY <1>1, <1>2, LogoutInv DEF Exit
<1>3. CASE exit.pc \in {"mark", "markOut"}
  BY <1>1, <1>3, MarkInv DEF Exit
<1>4. CASE exit.pc \in {"clear", "clearOut"}
  BY <1>1, <1>4, ClearInv DEF Exit
<1> QED
  BY <1>2, <1>3, <1>4 DEF Exit

LEMMA ExitFailsInv ==
  ASSUME SessionInv, ExitFails
  PROVE  SessionInv'
<1>1. /\ exit.pc # "idle" /\ exit' = NoExit /\ session' \in {session, NoUser}
      /\ store' \in {store, Undone}
      /\ UNCHANGED <<page, timer, check, queue, entering, tab, gone, excused>>
  BY DEF ExitFails
<1>2. /\ store \in StoreStates /\ page \in PageStates /\ gone \in SUBSET Users
  BY DEF SessionInv, SessionTyped
<1>3. /\ store' \in StoreStates /\ store'.snapshots = store.snapshots
      /\ store'.startup \in {store.startup, NoUser} /\ store'.signout = store.signout
  BY <1>1, <1>2, UndoneFacts
<1>4. Calm => DeviceInv'
  BY <1>3, DeviceCleared
<1>5. ExitInv' /\ exit' \in ExitStates
  BY <1>1, NoExitFacts DEF ExitInv
<1>6. Away' \subseteq Away
  BY <1>1 DEF Away
<1> QED
  BY <1>1, <1>2, <1>3, <1>4, <1>5, <1>6, ExitGoesOn

LEMMA SessionStep == SessionInv /\ [SessionNext]_sessionVars => SessionInv'
<1> SUFFICES ASSUME SessionInv, [SessionNext]_sessionVars PROVE SessionInv'
  OBVIOUS
<1>1. CASE UNCHANGED sessionVars
  BY <1>1 DEF sessionVars, SessionInv, SessionTyped, DeviceInv, PageInv, ChecksInv,
     RequestOK, ReadingOK, ExitInv, EntryInv, Owes, Away, Current, Busy
<1>2. CASE SessionNext
  <2>1. ASSUME NEW a \in Attempts,
               \/ ReadStore(a) \/ ObserveClock(a) \/ ReadFails(a) \/ ReadDeadline(a)
               \/ OpenCached(a) \/ Serve(a) \/ Deliver(a) \/ ReadIdentity(a) \/ Settle(a)
        PROVE  SessionInv'
    BY <2>1, ReadStoreInv, ObserveClockInv, ReadFailsInv, ReadDeadlineInv, OpenCachedInv,
       ServeInv, DeliverInv, ReadIdentityInv, SettleInv
  <2>2. CASE Open \/ Refresh \/ Expire \/ Deadline \/ Write \/ WriteFails
    BY <2>2, OpenInv, RefreshInv, ExpireInv, DeadlineInv, WriteInv, WriteFailsInv
  <2>3. CASE LoginAnswered \/ SignOut \/ RemoveData \/ Exit \/ ExitFails
    BY <2>3, LoginAnsweredInv, SignOutInv, RemoveDataInv, ExitStepInv, ExitFailsInv
  <2> QED
    BY <1>2, <2>1, <2>2, <2>3, LoginAcceptedInv DEF SessionNext
<1> QED
  BY <1>1, <1>2

(* Every variable of the session keeps its type, for any users and bounds. *)
THEOREM SessionTypes == SessionSpec => []SessionTyped
<1>1. SessionInv => SessionTyped
  BY DEF SessionInv
<1> QED
  BY <1>1, SessionInitInv, SessionStep, PTL DEF SessionSpec

(* Who has signed out, or removed the data of the device, does not come    *)
(* back in without a login: as long as the server has the session, or the  *)
(* latest check has been told so, the device keeps the mark, and nothing   *)
(* that is read or written can show the user.                              *)
THEOREM SignedOutStays == SessionSpec => []SignedOutStaysOut
<1>1. SessionInv => SignedOutStaysOut
  BY NobodyFacts DEF SessionInv, DeviceInv, PageInv, SignedOutStaysOut, Inside, Owes, Away
<1> QED
  BY <1>1, SessionInitInv, SessionStep, PTL DEF SessionSpec
=============================================================================
