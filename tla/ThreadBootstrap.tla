-------------------------- MODULE ThreadBootstrap --------------------------
(***************************************************************************)
(* How a portal thread gets its Chatwoot conversation: the requests that   *)
(* need a writable thread, the row of portal_chat_threads each thread has, *)
(* the advisory lock of the bootstrap, and the database connections it     *)
(* holds while its handler works with other connections of the same pool.  *)
(*                                                                         *)
(* A thread belongs to one Chatwoot contact (a unique index), so the lock  *)
(* of the contact is the lock of the thread.  Each PC value is one await.  *)
(***************************************************************************)
EXTENDS Integers, Sequences, FiniteSets

CONSTANTS
  Threads,
  Requests,
  ThreadOf,          \* the thread each request writes to
  Replies,           \* the requests with a replyToMessageId
  PoolSize,          \* connections of the pg Pool
  MaxConversations,  \* bound: conversations Chatwoot creates
  MaxDeleted         \* bound: conversations deleted

ASSUME BootstrapAssumption ==
  /\ IsFiniteSet(Requests)
  /\ ThreadOf \in [Requests -> Threads]
  /\ Replies \subseteq Requests
  /\ PoolSize \in Nat \ {0}
  /\ MaxConversations \in Nat
  /\ MaxDeleted \in Nat

VARIABLES
  row,      \* portal_chat_threads: existence, source id and conversation
  inboxes,  \* Chatwoot: how many portal contact inboxes the contact has
  convs,    \* Chatwoot: the thread each conversation was created for
  gone,     \* Chatwoot: the conversations deleted
  lateInboxes,  \* creates of an inbox given up that Chatwoot may still execute
  lateConvs,    \* creates of a conversation given up, likewise
  unheard,  \* inboxes created although the portal had given their create up
  lost,     \* conversations created whose id was never saved in the row
  pc,       \* where each request is
  stale,    \* the conversation the request found deleted, 0 if none
  source,   \* the source id the request has read or created
  conv,     \* the conversation in the context the request holds
  result    \* what the context says

late == <<lateInboxes, lateConvs, unheard>>
chatwoot == <<inboxes, convs, gone, lateInboxes, lateConvs, unheard, lost>>
vars == <<row, inboxes, convs, gone, lateInboxes, lateConvs, unheard, lost,
          pc, stale, source, conv, result>>

\* Waiting for the lock, and working under it, on a connection of its own.
LockedPCs == {"findThread", "findSource", "createSource", "refindSource",
              "saveSource", "createConv", "saveConv", "commit"}
InTransaction == {r \in Requests : pc[r] \in LockedPCs \cup {"lock"}}

PCs == LockedPCs \cup {"start", "insertThread", "updateThread", "begin", "lock",
                       "use", "done", "crashed"}
\* "unavailable": a context that is not ready, whatever its reason.
Results == {"none", "ready", "unavailable", "error"}

Conversations == 1 .. Len(convs)

TypeOK ==
  /\ row \in [Threads -> [exists : BOOLEAN, source : Nat, conv : Nat]]
  /\ inboxes \in [Threads -> Nat]
  /\ convs \in Seq(Threads)
  /\ gone \subseteq Conversations
  /\ lateInboxes \in [Threads -> Nat]
  /\ lateConvs \in [Threads -> Nat]
  /\ unheard \in [Threads -> Nat]
  /\ lost \in Nat
  /\ pc \in [Requests -> PCs]
  /\ stale \in [Requests -> Nat]
  /\ source \in [Requests -> Nat]
  /\ conv \in [Requests -> Nat]
  /\ result \in [Requests -> Results]

Init ==
  /\ row = [t \in Threads |-> [exists |-> FALSE, source |-> 0, conv |-> 0]]
  /\ inboxes = [t \in Threads |-> 0]
  /\ convs = <<>>
  /\ gone = {}
  /\ lateInboxes = [t \in Threads |-> 0]
  /\ lateConvs = [t \in Threads |-> 0]
  /\ unheard = [t \in Threads |-> 0]
  /\ lost = 0
  /\ pc = [r \in Requests |-> "start"]
  /\ stale = [r \in Requests |-> 0]
  /\ source = [r \in Requests |-> 0]
  /\ conv = [r \in Requests |-> 0]
  /\ result = [r \in Requests |-> "none"]

\* A query of the outer database handle needs a connection of its own.
Connection == Cardinality(InTransaction) < PoolSize

Goto(r, where) == pc' = [pc EXCEPT ![r] = where]

\* The request ends with this result.
Finish(r, what) ==
  /\ Goto(r, "done")
  /\ result' = [result EXCEPT ![r] = what]

\* The handler under the lock throws or returns a context it cannot write
\* with; the transaction ends next.
Return(r, what) ==
  /\ Goto(r, "commit")
  /\ result' = [result EXCEPT ![r] = what]
  /\ conv' = [conv EXCEPT ![r] = 0]

\* The thread has a conversation this request has no reason to replace.
Writable(r, c) == c \notin {0, stale[r]}

-----------------------------------------------------------------------------
(* resolveCurrentUserThread                                                *)

\* The contact of the user and, for a group, of the group; access may be denied.
Resolve(r) ==
  /\ pc[r] = "start"
  /\ Connection
  /\ \/ Goto(r, "insertThread") /\ UNCHANGED result
     \/ \E what \in {"unavailable", "error"} : Finish(r, what)
  /\ UNCHANGED <<row, chatwoot, stale, source, conv>>

\* What ensure- and recoverCurrentUserWritableThreadContext do with the row.
Resolved(r, c) ==
  /\ conv' = [conv EXCEPT ![r] = c]
  /\ IF Writable(r, c)
     THEN Goto(r, "use") /\ result' = [result EXCEPT ![r] = "ready"]
     ELSE Goto(r, "begin") /\ UNCHANGED result

InsertThread(r) ==
  LET t == ThreadOf[r]
  IN /\ pc[r] = "insertThread"
     /\ Connection
     /\ \/ /\ ~ row[t].exists
           /\ row' = [row EXCEPT ![t].exists = TRUE]
           /\ Resolved(r, row[t].conv)
        \/ /\ row[t].exists
           /\ Goto(r, "updateThread")
           /\ UNCHANGED <<row, conv, result>>
        \/ /\ Finish(r, "error")
           /\ UNCHANGED <<row, conv>>
     /\ UNCHANGED <<chatwoot, stale, source>>

UpdateThread(r) ==
  /\ pc[r] = "updateThread"
  /\ Connection
  /\ \/ Resolved(r, row[ThreadOf[r]].conv)
     \/ Finish(r, "error") /\ UNCHANGED conv
  /\ UNCHANGED <<row, chatwoot, stale, source>>

-----------------------------------------------------------------------------
(* transactionWithThreadBootstrapLock                                      *)

Begin(r) ==
  /\ pc[r] = "begin"
  /\ Connection
  /\ Goto(r, "lock")
  /\ UNCHANGED <<row, chatwoot, stale, source, conv, result>>

\* Mutant of Lock: the handler runs without the advisory lock.
LockSkipped(r) ==
  /\ pc[r] = "lock"
  /\ Goto(r, "findThread")
  /\ UNCHANGED <<row, chatwoot, stale, source, conv, result>>

\* pg_advisory_xact_lock of the thread's contact.
Lock(r) ==
  /\ pc[r] = "lock"
  /\ \A q \in Requests : ThreadOf[q] = ThreadOf[r] => pc[q] \notin LockedPCs
  /\ Goto(r, "findThread")
  /\ UNCHANGED <<row, chatwoot, stale, source, conv, result>>

\* Mutant of Commit: an error of the handler leaves the transaction open.
CommitForgotten(r) ==
  /\ pc[r] = "commit"
  /\ result[r] # "error"
  /\ Goto(r, IF result[r] = "ready" THEN "use" ELSE "done")
  /\ UNCHANGED <<row, chatwoot, stale, source, conv, result>>

\* COMMIT or ROLLBACK: the lock and the connection are free again.
Commit(r) ==
  /\ pc[r] = "commit"
  /\ source' = [source EXCEPT ![r] = 0]
  /\ \/ /\ Goto(r, IF result[r] = "ready" THEN "use" ELSE "done")
        /\ UNCHANGED result
     \/ Finish(r, "error")
  /\ UNCHANGED <<row, chatwoot, stale, conv>>

-----------------------------------------------------------------------------
(* bootstrapThreadConversation, under the lock                             *)

\* Mutant of FindThread: the row is not read again under the lock.
FindThreadSkipped(r) ==
  /\ pc[r] = "findThread"
  /\ Goto(r, "findSource")
  /\ UNCHANGED <<row, chatwoot, stale, source, conv, result>>

FindThread(r) ==
  LET c == row[ThreadOf[r]].conv
  IN /\ pc[r] = "findThread"
     /\ Connection
     /\ \/ /\ Writable(r, c)
           /\ Goto(r, "commit")
           /\ conv' = [conv EXCEPT ![r] = c]
           /\ result' = [result EXCEPT ![r] = "ready"]
        \/ /\ ~ Writable(r, c)
           /\ Goto(r, "findSource")
           /\ UNCHANGED <<conv, result>>
        \/ Return(r, "error")
     /\ UNCHANGED <<row, chatwoot, stale, source>>

\* The request goes on with the first source id of Chatwoot's answer, whose
\* order is Chatwoot's.
FoundSource(r) ==
  /\ \E s \in 1 .. inboxes[ThreadOf[r]] : source' = [source EXCEPT ![r] = s]
  /\ Goto(r, "saveSource")
  /\ UNCHANGED <<conv, result>>

FindSource(r) ==
  /\ pc[r] = "findSource"
  /\ \/ FoundSource(r)
     \/ /\ inboxes[ThreadOf[r]] = 0
        /\ Goto(r, "createSource")
        /\ UNCHANGED <<source, conv, result>>
     \/ Return(r, "unavailable") /\ UNCHANGED source
  /\ UNCHANGED <<row, chatwoot, stale>>

\* The call to Chatwoot succeeds, or is given up: fetchWithTimeout aborts it or
\* its answer is lost, and Chatwoot executes it later or never.
CreateSource(r) ==
  LET t == ThreadOf[r]
  IN /\ pc[r] = "createSource"
     /\ \/ /\ inboxes' = [inboxes EXCEPT ![t] = @ + 1]
           /\ source' = [source EXCEPT ![r] = inboxes'[t]]
           /\ Goto(r, "saveSource")
           /\ UNCHANGED lateInboxes
        \/ /\ lateInboxes' = [lateInboxes EXCEPT ![t] = @ + 1]
           /\ Goto(r, "refindSource")
           /\ UNCHANGED <<inboxes, source>>
     /\ UNCHANGED <<row, convs, gone, lateConvs, unheard, lost, stale, conv, result>>

\* A request that recovers has a source id already: for it the code returns
\* the context of the deleted conversation here, and Use would answer "unavailable".
RefindSource(r) ==
  /\ pc[r] = "refindSource"
  /\ \/ FoundSource(r)
     \/ /\ inboxes[ThreadOf[r]] = 0
        /\ Return(r, "unavailable")
        /\ UNCHANGED source
     \/ Return(r, "unavailable") /\ UNCHANGED source
  /\ UNCHANGED <<row, chatwoot, stale>>

SaveSource(r) ==
  LET t == ThreadOf[r]
  IN /\ pc[r] = "saveSource"
     /\ Connection
     /\ \/ /\ row' = [row EXCEPT ![t].source = source[r]]
           /\ Goto(r, "createConv")
           /\ UNCHANGED <<conv, result>>
        \/ /\ row' \in {row, [row EXCEPT ![t].source = source[r]]}
           /\ Return(r, "error")
     /\ UNCHANGED <<chatwoot, stale, source>>

\* Given up, it is not tried again, and nobody learns the id it may get.
CreateConv(r) ==
  LET t == ThreadOf[r]
  IN /\ pc[r] = "createConv"
     /\ \/ /\ Len(convs) < MaxConversations
           /\ convs' = Append(convs, t)
           /\ conv' = [conv EXCEPT ![r] = Len(convs')]
           /\ Goto(r, "saveConv")
           /\ UNCHANGED <<lateConvs, result>>
        \/ /\ lateConvs' = [lateConvs EXCEPT ![t] = @ + 1]
           /\ Return(r, "unavailable")
           /\ UNCHANGED convs
     /\ UNCHANGED <<row, inboxes, gone, lateInboxes, unheard, lost, stale, source>>

SaveConv(r) ==
  LET t == ThreadOf[r]
      saved == [row EXCEPT ![t].conv = conv[r]]
  IN /\ pc[r] = "saveConv"
     /\ Connection
     /\ \/ /\ row' = saved
           /\ Goto(r, "commit")
           /\ result' = [result EXCEPT ![r] = "ready"]
           /\ UNCHANGED <<lost, conv>>
        \/ /\ row' = saved
           /\ Return(r, "error")
           /\ UNCHANGED lost
        \/ /\ UNCHANGED row
           /\ lost' = lost + 1
           /\ Return(r, "error")
     /\ UNCHANGED <<inboxes, convs, gone, late, stale, source>>

-----------------------------------------------------------------------------
(* The send (SendLedger) with the conversation of the context.             *)

\* Chatwoot stores the message, or answers 404: then a send that is not a
\* reply recovers once.
Use(r) ==
  /\ pc[r] = "use"
  /\ \/ /\ conv[r] \notin gone
        /\ Finish(r, "ready")
        /\ UNCHANGED stale
     \/ /\ conv[r] \in gone
        /\ r \notin Replies /\ stale[r] = 0
        /\ Goto(r, "start")
        /\ stale' = [stale EXCEPT ![r] = conv[r]]
        /\ UNCHANGED result
     \/ /\ conv[r] \in gone
        /\ r \in Replies \/ stale[r] # 0
        /\ Finish(r, "unavailable")
        /\ UNCHANGED stale
  /\ UNCHANGED <<row, chatwoot, source, conv>>

\* The handler of r is running.
AtWork(r) == pc[r] \notin {"done", "crashed"} /\ (pc[r] = "start" => stale[r] # 0)

\* The requests of thread t at this await.
Waiting(t, where) == {r \in Requests : ThreadOf[r] = t /\ pc[r] = where}

\* What the dying process held in memory of the requests at work is gone.
Forgotten(held) == [r \in Requests |-> IF AtWork(r) THEN 0 ELSE held[r]]

\* The process dies: its connections close and the locks are released, and the
\* calls under way are in Chatwoot's hands.
Crash ==
  /\ \E r \in Requests : AtWork(r)
  /\ pc' = [r \in Requests |->
              IF AtWork(r) THEN "crashed" ELSE pc[r]]
  /\ stale' = Forgotten(stale)
  /\ source' = Forgotten(source)
  /\ conv' = Forgotten(conv)
  /\ lateInboxes' = [t \in Threads |->
       lateInboxes[t] + Cardinality(Waiting(t, "createSource"))]
  /\ lateConvs' = [t \in Threads |->
       lateConvs[t] + Cardinality(Waiting(t, "createConv"))]
  /\ lost' = lost + Cardinality({r \in Requests : pc[r] = "saveConv"})
  /\ UNCHANGED <<row, inboxes, convs, gone, unheard, result>>

-----------------------------------------------------------------------------
(* Chatwoot.                                                               *)

\* Chatwoot executes a create the portal has given up.  The source id of each
\* create is a new random one, so it is one inbox more.
LateInbox(t) ==
  /\ lateInboxes[t] > 0
  /\ lateInboxes' = [lateInboxes EXCEPT ![t] = @ - 1]
  /\ inboxes' = [inboxes EXCEPT ![t] = @ + 1]
  /\ unheard' = [unheard EXCEPT ![t] = @ + 1]
  /\ UNCHANGED <<row, convs, gone, lateConvs, lost, pc, stale, source, conv, result>>

LateConv(t) ==
  /\ lateConvs[t] > 0
  /\ Len(convs) < MaxConversations
  /\ lateConvs' = [lateConvs EXCEPT ![t] = @ - 1]
  /\ convs' = Append(convs, t)
  /\ lost' = lost + 1
  /\ UNCHANGED <<row, inboxes, gone, lateInboxes, unheard, pc, stale, source, conv, result>>

DeleteConversation ==
  /\ Cardinality(gone) < MaxDeleted
  /\ \E c \in Conversations \ gone : gone' = gone \cup {c}
  /\ UNCHANGED <<row, inboxes, convs, late, lost, pc, stale, source, conv, result>>

-----------------------------------------------------------------------------
Step(r) ==
  \/ Resolve(r) \/ InsertThread(r) \/ UpdateThread(r)
  \/ Begin(r) \/ Lock(r) \/ Commit(r)
  \/ FindThread(r) \/ FindSource(r) \/ CreateSource(r) \/ RefindSource(r)
  \/ SaveSource(r) \/ CreateConv(r) \/ SaveConv(r) \/ Use(r)

Next ==
  \/ \E r \in Requests : Step(r)
  \/ Crash
  \/ \E t \in Threads : LateInbox(t) \/ LateConv(t)
  \/ DeleteConversation

Spec == Init /\ [][Next]_vars

\* fetchWithTimeout ends every Chatwoot call and the database answers, so no
\* step that can be taken is put off for ever.
FairSpec == Spec /\ \A r \in Requests : WF_vars(Step(r))
-----------------------------------------------------------------------------
(* What the bootstrap is for.                                              *)

Mapping(t) == INSTANCE ConversationMapping WITH mapped <- row[t].conv

(* Each thread keeps the conversation it names until that conversation is  *)
(* deleted, and never goes back to an older one: two requests that         *)
(* bootstrap or recover the same thread at once do not overwrite each      *)
(* other's mapping (runtime.ts reads the row again under the lock).        *)
ImplementsMapping ==
  /\ \A t \in Threads : Mapping(t)!Init
  /\ [][\A t \in Threads : [Mapping(t)!Next]_<<row[t].conv, gone>>]_vars

(* Requests that end with a live conversation of a thread end with the     *)
(* same one, the one the thread names: no two users of a group and no two  *)
(* tabs go on writing into different conversations.                        *)
SameConversation ==
  \A r \in Requests :
    pc[r] = "done" /\ result[r] = "ready" /\ conv[r] \notin gone
    => row[ThreadOf[r]].conv = conv[r]

(* Nothing is left behind in Chatwoot without a failure: every live        *)
(* conversation is the one its thread names, except the one the lock       *)
(* holder is about to save and as many as failures of createConversation   *)
(* or of the UPDATE have lost; of the portal inboxes a contact has, all    *)
(* but one come from creates the portal had given up (an inbox is created  *)
(* under the lock, after a look that found none); and the row names one of *)
(* them whenever it names a conversation.                                  *)
OrphansAccounted ==
  LET named == {row[t].conv : t \in Threads}
      saving == {conv[r] : r \in {q \in Requests : pc[q] = "saveConv"}}
  IN /\ Cardinality(Conversations \ (gone \cup named \cup saving)) <= lost
     /\ \A t \in Threads :
          /\ inboxes[t] <= 1 + unheard[t]
          /\ row[t].source <= inboxes[t]
          /\ row[t].conv # 0 => row[t].source # 0

(* Every request that is not cut off by a crash gets its answer, also when *)
(* others fail under the lock.  It needs a connection that no transaction  *)
(* holds: with as many requests as the pool has connections it fails.      *)
EveryRequestAnswered ==
  \A r \in Requests : pc[r] = "start" ~> pc[r] \in {"done", "crashed"}

-----------------------------------------------------------------------------
(* Why a mapping is never overwritten: what holds under the lock           *)
(* (ConversationProofs shows that these three are inductive together).     *)

Locked(r) == pc[r] \in LockedPCs

LockInv ==
  \A r, q \in Requests :
    ThreadOf[r] = ThreadOf[q] /\ Locked(r) /\ Locked(q) => r = q

\* r has decided that its thread needs a new conversation.
Replacing(r) == Locked(r) /\ pc[r] \notin {"findThread", "commit"}

\* r holds a conversation it was told to use.
Ready(r) ==
  \/ pc[r] = "use"
  \/ pc[r] \in {"commit", "done"} /\ result[r] = "ready"

MapInv ==
  /\ \A t \in Threads : row[t].conv <= Len(convs)
  /\ \A r \in Requests : stale[r] \in gone \cup {0}
  /\ \A r \in Requests : Replacing(r) => row[ThreadOf[r]].conv \in {0, stale[r]}
  /\ \A r \in Requests : pc[r] = "saveConv" =>
       conv[r] \in Conversations /\ conv[r] > row[ThreadOf[r]].conv
  /\ \A r \in Requests : Ready(r) =>
       conv[r] # 0 /\ (conv[r] \in gone \/ row[ThreadOf[r]].conv = conv[r])

\* The portal creates an inbox only where all there are came late, and the
\* source id it saves in the row is that of an inbox.
SourceInv ==
  /\ \A t \in Threads :
       /\ inboxes[t] <= 1 + unheard[t]
       /\ row[t].source <= inboxes[t]
       /\ row[t].conv # 0 => row[t].source # 0
  /\ \A r \in Requests :
       /\ pc[r] = "createSource" => inboxes[ThreadOf[r]] <= unheard[ThreadOf[r]]
       /\ pc[r] = "saveSource" => source[r] \in 1 .. inboxes[ThreadOf[r]]
       /\ pc[r] \in {"createConv", "saveConv"} => row[ThreadOf[r]].source # 0
=============================================================================
