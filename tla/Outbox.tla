------------------------------- MODULE Outbox -------------------------------
(***************************************************************************)
(* The durable text outbox of one user on one device: the IndexedDB store  *)
(* chat_text_outbox, the composer and the retry button that write to it,   *)
(* and the drains that send what is due.  A drain runs in a page (each     *)
(* mount of useOfflineOutboxDrain may start one) or in the service worker, *)
(* under a Web Lock or, where the browser has none, under a lease record   *)
(* that nobody renews.                                                     *)
(*                                                                         *)
(* Every write is a blind put of a copy that was read earlier.  Each PC    *)
(* value is one await; IndexedDB runs one transaction at a time.  Time is  *)
(* abstract: what waits for a time becomes due in a step of its own.       *)
(***************************************************************************)
EXTENDS Integers, FiniteSets

CONSTANTS
  Pages,        \* drains of pages
  Workers,      \* drains of the service worker
  Tabs,         \* where the user composes and retries
  MaxMessages,  \* bound: messages composed
  MaxRetries,   \* bound: presses of the retry button
  MaxFaults,    \* bound: drains cut off and statements of a drain that fail
  MaxRemovals   \* bound: removals of the device's data

Drains == Pages \cup Workers
Keys == 1 .. MaxMessages
None == 0

ASSUME OutboxAssumption ==
  /\ Pages \cap Workers = {}
  /\ None \notin Drains
  /\ MaxMessages \in Nat
  /\ MaxRetries \in Nat
  /\ MaxFaults \in Nat
  /\ MaxRemovals \in Nat

VARIABLES
  box,       \* chat_text_outbox: the status of each clientMessageKey
  composed,  \* messages composed so far; keys are numbered by createdAt
  ui,        \* what the user's tab is doing
  retries,   \* presses of the retry button so far
  locks,     \* has the browser navigator.locks
  owner,     \* who holds the Web Lock, or whose the lease record is
  fresh,     \* the lease record has not expired
  pc,        \* where each drain is
  todo,      \* the due records it has listed and not finished
  want,      \* what it is about to write
  removal,   \* removal of the device's data: see Removals
  stored,    \* the keys the backend has a message for (IdempotentSend)
  kept,      \* history: the keys written since the last removal
  faults,    \* drains cut off and statements failed so far
  removals   \* removals so far

user == <<composed, ui, retries>>
lock == <<locks, owner, fresh>>
device == <<removal, removals>>
vars == <<box, user, lock, pc, todo, want, device, stored, kept, faults>>

\* "later" is queued with a nextAttemptAt to come, "expired" is sending with a
\* lease that has run out.
Due == {"queued", "expired"}
Active == Due \cup {"later", "sending"}
Statuses == Active \cup {"absent", "failed"}

\* "queued" and "denied" are written inside the try block, the rest outside.
Wants == {"sending", "queued", "denied", "later", "auth", "failed"}

StatusOf(w) ==
  CASE w \in {"sending", "later", "failed"} -> w
    [] w = "denied" -> "failed"
    [] OTHER -> "queued"

PCs == {"idle", "lock", "lease", "list", "check", "put", "send", "delete", "release"}

\* "blocked": the local_device_signouts record is there; "wiped": the data is
\* gone and the record still there; "left": both are gone, nobody is signed in.
Removals == {"no", "blocked", "wiped", "left"}

Idle == [at |-> "idle", key |-> None]
Doings == {Idle} \cup [at : {"check", "put"}, key : Keys]

TypeOK ==
  /\ box \in [Keys -> Statuses]
  /\ composed \in 0 .. MaxMessages
  /\ ui \in [Tabs -> Doings]
  /\ retries \in 0 .. MaxRetries
  /\ locks \in BOOLEAN
  /\ owner \in Drains \cup {None}
  /\ fresh \in BOOLEAN
  /\ pc \in [Drains -> PCs]
  /\ todo \in [Drains -> SUBSET Keys]
  /\ want \in [Drains -> Wants]
  /\ removal \in Removals
  /\ stored \subseteq Keys
  /\ kept \subseteq Keys
  /\ faults \in 0 .. MaxFaults
  /\ removals \in 0 .. MaxRemovals

Init ==
  /\ box = [k \in Keys |-> "absent"]
  /\ composed = 0
  /\ ui = [t \in Tabs |-> Idle]
  /\ retries = 0
  /\ locks \in BOOLEAN
  /\ owner = None
  /\ fresh = FALSE
  /\ pc = [d \in Drains |-> "idle"]
  /\ todo = [d \in Drains |-> {}]
  /\ want = [d \in Drains |-> "sending"]
  /\ removal = "no"
  /\ stored = {}
  /\ kept = {}
  /\ faults = 0
  /\ removals = 0

\* isUserScopedOfflineWriteBlocked
Blocked == removal \in {"blocked", "wiped"}

-----------------------------------------------------------------------------
(* The user: handleSendMessage and handleRetryTextMessage.                 *)

Compose(t) ==
  /\ ui[t] = Idle
  /\ composed < MaxMessages
  /\ composed' = composed + 1
  /\ ui' = [ui EXCEPT ![t] = [at |-> "check", key |-> composed + 1]]
  /\ UNCHANGED <<box, retries, lock, pc, todo, want, device, stored, kept, faults>>

\* retryFailedOutboxRecord reads the record it will put back.
Retry(t) ==
  /\ ui[t] = Idle
  /\ retries < MaxRetries
  /\ retries' = retries + 1
  /\ \E k \in Keys : /\ box[k] = "failed"
                     /\ ui' = [ui EXCEPT ![t] = [at |-> "check", key |-> k]]
  /\ UNCHANGED <<box, composed, lock, pc, todo, want, device, stored, kept, faults>>

\* A blocked write is given up without a word.
CheckUser(t) ==
  /\ ui[t].at = "check"
  /\ ui' = [ui EXCEPT ![t] = IF Blocked THEN Idle ELSE [ui[t] EXCEPT !.at = "put"]]
  /\ UNCHANGED <<box, composed, retries, lock, pc, todo, want, device, stored,
                 kept, faults>>

PutUser(t) ==
  /\ ui[t].at = "put"
  /\ ui' = [ui EXCEPT ![t] = Idle]
  /\ \/ /\ box' = [box EXCEPT ![ui[t].key] = "queued"]
        /\ kept' = kept \cup {ui[t].key}
     \/ UNCHANGED <<box, kept>>
  /\ UNCHANGED <<composed, retries, lock, pc, todo, want, device, stored, faults>>

-----------------------------------------------------------------------------
(* A drain: withOutboxDrainLock, then one record after the other.          *)

Goto(d, to) == pc' = [pc EXCEPT ![d] = to]

\* The record a drain is at: the oldest it has not finished.
Key(d) == CHOOSE k \in todo[d] : \A j \in todo[d] : k <= j

\* A page asks whether writes are blocked before it puts; a worker puts.
BeginWrite(d, w) ==
  /\ Goto(d, IF d \in Pages THEN "check" ELSE "put")
  /\ want' = [want EXCEPT ![d] = w]

Finish(d) ==
  /\ Goto(d, "release")
  /\ todo' = [todo EXCEPT ![d] = {}]
  /\ want' = [want EXCEPT ![d] = "sending"]

NextRecord(d) ==
  \/ /\ todo[d] = {Key(d)}
     /\ Finish(d)
  \/ /\ todo[d] # {Key(d)}
     /\ todo' = [todo EXCEPT ![d] = @ \ {Key(d)}]
     /\ BeginWrite(d, "sending")

\* A worker looks for a sign-out once, before it starts.
Start(d) ==
  /\ pc[d] = "idle"
  /\ d \in Workers => removal = "no"
  /\ Goto(d, "lock")
  /\ UNCHANGED <<box, user, lock, todo, want, device, stored, kept, faults>>

\* Mutant of Acquire: the lock is not waited for.
AcquireAnyway(d) ==
  /\ pc[d] = "lock"
  /\ locks
  /\ owner' = d
  /\ Goto(d, "list")
  /\ UNCHANGED <<box, user, locks, fresh, todo, want, device, stored, kept, faults>>

\* navigator.locks.request
Acquire(d) ==
  /\ pc[d] = "lock"
  /\ locks
  /\ owner = None
  /\ owner' = d
  /\ Goto(d, "list")
  /\ UNCHANGED <<box, user, locks, fresh, todo, want, device, stored, kept, faults>>

\* tryAcquireOutboxDrainLease: a page gives up when writes are blocked.
Ask(d) ==
  /\ pc[d] = "lock"
  /\ ~ locks
  /\ Goto(d, IF d \in Pages /\ Blocked THEN "idle" ELSE "lease")
  /\ UNCHANGED <<box, user, lock, todo, want, device, stored, kept, faults>>

Lease(d) ==
  /\ pc[d] = "lease"
  /\ \/ /\ owner = None \/ ~ fresh
        /\ owner' = d
        /\ fresh' = TRUE
        /\ Goto(d, "list")
     \/ /\ owner # None
        /\ fresh
        /\ Goto(d, "idle")
        /\ UNCHANGED <<owner, fresh>>
  /\ UNCHANGED <<box, user, locks, todo, want, device, stored, kept, faults>>

\* Mutant of DueNow: a record in flight is never due again.
DueQueued == {k \in Keys : box[k] = "queued"}

\* listDueOutboxRecords
DueNow == {k \in Keys : box[k] \in Due}

List(d) ==
  /\ pc[d] = "list"
  /\ \/ /\ DueNow = {}
        /\ Finish(d)
     \/ /\ DueNow # {}
        /\ todo' = [todo EXCEPT ![d] = DueNow]
        /\ BeginWrite(d, "sending")
  /\ UNCHANGED <<box, user, lock, device, stored, kept, faults>>

\* The write is done, or was skipped because writes are blocked.
Wrote(d) ==
  CASE want[d] = "sending" -> Goto(d, "send") /\ UNCHANGED <<todo, want>>
    [] want[d] = "auth" -> Finish(d)
    [] OTHER -> NextRecord(d)

Check(d) ==
  /\ pc[d] = "check"
  /\ \/ Blocked /\ Wrote(d)
     \/ ~ Blocked /\ Goto(d, "put") /\ UNCHANGED <<todo, want>>
  /\ UNCHANGED <<box, user, lock, device, stored, kept, faults>>

Put(d) ==
  /\ pc[d] = "put"
  /\ box' = [box EXCEPT ![Key(d)] = StatusOf(want[d])]
  /\ Wrote(d)
  /\ UNCHANGED <<user, lock, device, stored, kept, faults>>

\* The backend stores the message, once per key.
Store(d) ==
  /\ pc[d] = "send"
  /\ Key(d) \notin stored
  /\ stored' = stored \cup {Key(d)}
  /\ UNCHANGED <<box, user, lock, pc, todo, want, device, kept, faults>>

\* Mutant of Accepted: any answer is taken for this record's.
AcceptedUnchecked(d) ==
  /\ pc[d] = "send"
  /\ Goto(d, "delete")
  /\ UNCHANGED <<box, user, lock, todo, want, device, stored, kept, faults>>

\* A ready result that names this message.
Accepted(d) ==
  /\ pc[d] = "send"
  /\ Key(d) \in stored
  /\ Goto(d, "delete")
  /\ UNCHANGED <<box, user, lock, todo, want, device, stored, kept, faults>>

\* Any other result, error or timeout; the message may be stored all the same.
\* Only a page turns the answer thread_access_denied into a failure.
Refused(d) ==
  /\ pc[d] = "send"
  /\ \/ \E w \in {"queued", "later", "auth", "failed"} : BeginWrite(d, w)
     \/ d \in Pages /\ BeginWrite(d, "denied")
  /\ UNCHANGED <<box, user, lock, todo, device, stored, kept, faults>>

\* A deletion that fails is not reported.
Delete(d) ==
  /\ pc[d] = "delete"
  /\ box' = [box EXCEPT ![Key(d)] = "absent"]
  /\ NextRecord(d)
  /\ UNCHANGED <<user, lock, device, stored, kept, faults>>

Release(d) ==
  /\ pc[d] = "release"
  /\ Goto(d, "idle")
  /\ owner' = IF owner = d THEN None ELSE owner
  /\ fresh' = (fresh /\ owner # d)
  /\ UNCHANGED <<box, user, locks, todo, want, device, stored, kept, faults>>

\* A statement of the drain fails.  An error inside the try is treated like an
\* error of the send; that of a deletion is swallowed; others end the drain.
Fail(d) ==
  /\ faults < MaxFaults
  /\ faults' = faults + 1
  /\ \/ pc[d] = "delete" /\ NextRecord(d)
     \/ /\ pc[d] \in {"check", "put"}
        /\ \/ /\ want[d] \in {"queued", "denied"}
              /\ BeginWrite(d, "later")
              /\ UNCHANGED todo
           \/ want[d] \notin {"queued", "denied"} /\ Finish(d)
     \/ pc[d] = "list" /\ Finish(d)
     \/ /\ pc[d] \in {"lock", "lease", "release"}
        /\ ~ locks
        /\ Goto(d, "idle")
        /\ UNCHANGED <<todo, want>>
  /\ UNCHANGED <<box, user, lock, device, stored, kept>>

\* The tab is closed or the worker killed: its Web Lock is free, a lease stays.
Close(d) ==
  /\ pc[d] # "idle"
  /\ faults < MaxFaults
  /\ faults' = faults + 1
  /\ Goto(d, "idle")
  /\ todo' = [todo EXCEPT ![d] = {}]
  /\ want' = [want EXCEPT ![d] = "sending"]
  /\ owner' = IF locks /\ owner = d THEN None ELSE owner
  /\ UNCHANGED <<box, user, locks, fresh, device, stored, kept>>

-----------------------------------------------------------------------------
(* Time, and the removal of the device's data.                             *)

\* nextAttemptAt or sendingLeaseExpiresAt passes.
ElapseRecord(k) ==
  /\ box[k] \in {"later", "sending"}
  /\ box' = [box EXCEPT ![k] = IF @ = "later" THEN "queued" ELSE "expired"]
  /\ UNCHANGED <<user, lock, pc, todo, want, device, stored, kept, faults>>

ElapseLease ==
  /\ ~ locks
  /\ fresh
  /\ fresh' = FALSE
  /\ UNCHANGED <<box, user, locks, owner, pc, todo, want, device, stored, kept, faults>>

\* removeLocalDeviceDataAndBlockCachedOpen saves the sign-out, then clears.
Block ==
  /\ removal = "no"
  /\ removals < MaxRemovals
  /\ removal' = "blocked"
  /\ removals' = removals + 1
  /\ UNCHANGED <<box, user, lock, pc, todo, want, stored, kept, faults>>

\* The transaction of clearCurrentUserOfflineDataWithOptions.
Clear ==
  /\ box' = [k \in Keys |-> "absent"]
  /\ kept' = {}
  /\ owner' = IF locks THEN owner ELSE None
  /\ fresh' = FALSE

Wipe ==
  /\ removal = "blocked"
  /\ removal' = "wiped"
  /\ Clear
  /\ UNCHANGED <<user, locks, pc, todo, want, removals, stored, faults>>

\* completePendingLocalDeviceSignout, when the server has ended the session.
Complete ==
  /\ Blocked
  /\ removal' = "left"
  /\ Clear
  /\ UNCHANGED <<user, locks, pc, todo, want, removals, stored, faults>>

\* saveOnlineAuthSnapshot deletes the sign-out.
SignIn ==
  /\ removal # "no"
  /\ removal' = "no"
  /\ UNCHANGED <<box, user, lock, pc, todo, want, removals, stored, kept, faults>>

-----------------------------------------------------------------------------
User(t) == Compose(t) \/ Retry(t) \/ CheckUser(t) \/ PutUser(t)

\* The steps of a drain that nothing but itself can delay for good.
Work(d) ==
  \/ Acquire(d) \/ Ask(d) \/ Lease(d) \/ List(d) \/ Check(d) \/ Put(d)
  \/ Store(d) \/ Accepted(d) \/ Refused(d) \/ Delete(d) \/ Release(d)

Next ==
  \/ \E t \in Tabs : User(t)
  \/ \E d \in Drains : Start(d) \/ Work(d) \/ Fail(d) \/ Close(d)
  \/ \E k \in Keys : ElapseRecord(k)
  \/ ElapseLease
  \/ Block \/ Wipe \/ Complete \/ SignIn

Spec == Init /\ [][Next]_vars

\* Time passes and code that runs goes on.  A page starts a drain again and
\* again: the effect of useOfflineOutboxDrain runs whenever pageState changes,
\* which the 30 s refresh of the thread list does.  A message sent again and
\* again is at some time stored, and answered with ready.
Fairness ==
  /\ \A d \in Drains : WF_vars(Work(d)) /\ SF_vars(Store(d)) /\ SF_vars(Accepted(d))
  /\ \A d \in Pages : WF_vars(Start(d))
  /\ \A k \in Keys : WF_vars(ElapseRecord(k))
  /\ WF_vars(ElapseLease)

FairSpec == Spec /\ Fairness

-----------------------------------------------------------------------------
(* What the outbox is for.                                                 *)

(* A message whose text the device has kept leaves the outbox only when    *)
(* the backend has stored it or the user removed the device's data,        *)
(* however drains overlap, are cut off, fail or lose their lease           *)
(* (deleteOutboxRecord follows isSendResultForOutboxRecord).               *)
NoMessageLost == \A k \in kept : box[k] = "absent" => k \in stored

(* Under Web Locks, and while the data is not removed, what was sent or    *)
(* has failed is queued again by nobody but the user: no drain puts back a *)
(* stale copy of a record another drain has deleted or failed.             *)
OnlyUserBringsBack ==
  [][\A k \in Keys :
       locks /\ removals = 0 /\ box[k] \notin Active /\ box'[k] \in Active
       => \E t \in Tabs : ui[t] = [at |-> "put", key |-> k] /\ ui'[t] = Idle]_vars

(* While nobody removes the data, a message that waits is, some time,      *)
(* delivered or shown as failed; under Web Locks all of them are, for      *)
(* good.  (Under leases a drain that outlives its lease may bring a        *)
(* delivered message back for another round.)                              *)
EveryMessageSettles ==
  [](removal = "no") =>
    /\ \A k \in Keys : box[k] \in Active ~> box[k] \notin Active
    /\ locks => <>[](\A k \in Keys : box[k] \notin Active)

-----------------------------------------------------------------------------
(* Why no text is lost and none brought back (DeviceProofs).  A drain is   *)
(* at a record until it is done with it, and deletes only what the backend *)
(* has stored.  Under Web Locks one drain is past the lock, and what it    *)
(* has listed waits until it is done with it.                              *)

AtRecord == {"check", "put", "send", "delete"}

BusyInv == \A d \in Drains : pc[d] \in AtRecord <=> todo[d] # {}

DrainInv == \A d \in Drains : pc[d] = "delete" => Key(d) \in stored

HolderInv ==
  locks => \A d \in Drains : pc[d] \notin {"idle", "lock"} => owner = d

ListedInv ==
  locks /\ removals = 0 => \A d \in Drains : \A k \in todo[d] : box[k] \in Active

RemovalInv == removals = 0 => removal = "no"
=============================================================================
