----------------------------- MODULE SendLedger -----------------------------
(***************************************************************************)
(* One client message key of one user in one thread: the row that          *)
(* portal_chat_message_sends keeps for it, the HTTP requests that carry    *)
(* it to the portal, and the Chatwoot conversations they write to.         *)
(*                                                                         *)
(* A request is one POST .../messages.  A client that retries is another   *)
(* element of Requests, so retries, a second tab and the service worker    *)
(* are all interleaved requests here.  Every await of the handler is a     *)
(* point where other requests, Chatwoot and the clock may move: each PC    *)
(* value below is one await.                                               *)
(***************************************************************************)
EXTENDS Integers, Sequences

CONSTANTS
  Requests,      \* the POSTs that carry this key
  Payloads,      \* the (message kind, SHA-256 of the payload) pairs
  PayloadOf,     \* the payload each request carries
  Replies,       \* the requests with a replyToMessageId
  MaxConversations, \* conversations the thread may be mapped to in turn
  MaxTraffic,    \* bound: nobody else posts into a log this long
  MaxClock,      \* bound on the clock
  PageSize,      \* messages on the page a source id is looked up in
  StaleAfter,    \* SEND_LEDGER_STALE_PROCESSING_MS
  SendBudget,    \* longest a request takes from reading acquiredAt to its mark
  LateLanding    \* may Chatwoot execute a create after the portal gave up on it

ASSUME TypeAssumption ==
  /\ PayloadOf \in [Requests -> Payloads]
  /\ Replies \subseteq Requests
  /\ MaxConversations \in Nat \ {0}
  /\ MaxTraffic \in Nat
  /\ MaxClock \in Nat
  /\ PageSize \in Nat \ {0}
  /\ StaleAfter \in Nat
  /\ SendBudget \in Nat
  /\ LateLanding \in BOOLEAN

VARIABLES
  clock,       \* Date.now() of the portal
  row,         \* the row of portal_chat_message_sends
  mapped,      \* the conversation the thread row names
  gone,        \* the conversations deleted in Chatwoot
  log,         \* Chatwoot: what each conversation holds, in id order
  wire,        \* the create each request has sent to Chatwoot
  pc,          \* where each request is
  round,       \* 2 once the request has recovered from a deleted conversation
  conv,        \* the conversation the request works on
  acquiredAt,  \* what the request read from the clock before it acquired
  msg,         \* the message the request holds
  answer       \* what the client was told

net == <<log, wire, gone>>
local == <<round, conv, acquiredAt>>
vars == <<clock, row, mapped, gone, log, wire, pc, round, conv, acquiredAt,
          msg, answer>>

Conversations == 1 .. MaxConversations

\* A message Chatwoot holds is named by its conversation and its place there.
Messages == Conversations \X (Nat \ {0})
NoMessage == <<0, 0>>

\* An entry of a log that does not carry this key, from an agent or anyone.
Other == <<>>
Own(p) == <<p>>
Entries == {Other} \cup {Own(p) : p \in Payloads}

\* processing_token: one randomUUID() for each send() of each request.
Tokens == Requests \X {1, 2}
NoToken == <<>>
TokenOf(r) == <<r, round[r]>>

NoPayload == <<>>
ASSUME PayloadAssumption == NoPayload \notin Payloads

AbsentRow == [status |-> "absent", token |-> NoToken, updatedAt |-> 0,
              messageId |-> NoMessage, payload |-> NoPayload]

Rows == [status : {"absent", "processing", "failed", "confirmed"},
         token : Tokens \cup {NoToken},
         updatedAt : Nat,
         messageId : Messages \cup {NoMessage},
         payload : {PayloadOf[r] : r \in Requests} \cup {NoPayload}]

\* The awaits of the handler, grouped by what the request believes.
AcquirePCs == {"insert", "select", "reacquire", "reselect"}
LeasePCs == {"lookup", "lookupMark", "create", "awaiting", "createMark",
             "recheck", "recheckMark", "failMissing", "failError"}
FollowPCs == {"replayById", "replayBySource", "replayMark", "watch", "watchMark"}
RestPCs == {"start", "remap", "done", "crashed"}
PCs == AcquirePCs \cup LeasePCs \cup FollowPCs \cup RestPCs

\* The steps whose duration the budget bounds: from now() to the last mark.
TimedPCs == {"insert", "select", "reacquire"} \cup LeasePCs

Answers == {"none", "sent", "conflict", "inProgress", "unavailable", "missing"}
WireStates == {"idle", "sent", "landed", "refused"}

TypeOK ==
  /\ clock \in Nat
  /\ row \in Rows
  /\ mapped \in Conversations
  /\ gone \subseteq Conversations
  /\ log \in [Conversations -> Seq(Entries)]
  /\ wire \in [Requests -> WireStates]
  /\ pc \in [Requests -> PCs]
  /\ round \in [Requests -> {1, 2}]
  /\ conv \in [Requests -> Conversations]
  /\ acquiredAt \in [Requests -> Nat]
  /\ msg \in [Requests -> Messages \cup {NoMessage}]
  /\ answer \in [Requests -> Answers]

Init ==
  /\ clock = 0
  /\ row = AbsentRow
  /\ mapped = 1
  /\ gone = {}
  /\ log = [c \in Conversations |-> <<>>]
  /\ wire = [r \in Requests |-> "idle"]
  /\ pc = [r \in Requests |-> "start"]
  /\ round = [r \in Requests |-> 1]
  /\ conv = [r \in Requests |-> 1]
  /\ acquiredAt = [r \in Requests |-> 0]
  /\ msg = [r \in Requests |-> NoMessage]
  /\ answer = [r \in Requests |-> "none"]

-----------------------------------------------------------------------------
(* What the portal reads from Chatwoot.                                    *)

\* The places of c's log that the latest page shows and that carry the key.
Hits(c) == {i \in DOMAIN log[c] : i + PageSize > Len(log[c]) /\ log[c][i] # Other}

\* findConversationMessageBySourceId: the oldest hit of the latest page; a
\* deleted conversation answers 404, which the client turns into null.
BySource(c) ==
  IF c \in gone \/ Hits(c) = {} THEN NoMessage
  ELSE <<c, CHOOSE i \in Hits(c) : \A j \in Hits(c) : i <= j>>

\* findConversationMessageById(c, m.id)
ById(c, m) == IF c \notin gone /\ m[1] = c THEN m ELSE NoMessage

-----------------------------------------------------------------------------
(* Moves of one request.                                                   *)

Goto(r, to) == pc' = [pc EXCEPT ![r] = to]
Hold(r, m) == msg' = [msg EXCEPT ![r] = m]

\* The handler returns or throws: the client gets its answer.
Reply(r, what) ==
  /\ Goto(r, "done")
  /\ answer' = [answer EXCEPT ![r] = what]

\* A send() begins: now(), randomUUID(), and the INSERT is on its way.
BeginSend(r, c, n) ==
  /\ Goto(r, "insert")
  /\ conv' = [conv EXCEPT ![r] = c]
  /\ round' = [round EXCEPT ![r] = n]
  /\ acquiredAt' = [acquiredAt EXCEPT ![r] = clock]

\* A request that fails outside the lease is answered with a temporary error.
Throw(r) ==
  /\ Reply(r, "unavailable")
  /\ UNCHANGED msg

\* ensureCurrentUserWritableThreadContext answers with the mapped conversation,
\* or it, or the lookup of a reply's target, fails.
Start(r) ==
  /\ pc[r] = "start"
  /\ \/ BeginSend(r, mapped, 1) /\ UNCHANGED <<msg, answer>>
     \/ Throw(r) /\ UNCHANGED local
  /\ UNCHANGED <<clock, row, mapped, net>>

\* The row as the holder of token t, reading the clock at "at", writes it.
Leased(r, old) == [old EXCEPT !.status = "processing", !.token = TokenOf(r),
                              !.updatedAt = acquiredAt[r]]

\* INSERT ... ON CONFLICT DO NOTHING.  A statement that fails may still have
\* been committed: the connection can break after the COMMIT.
Insert(r) ==
  /\ pc[r] = "insert"
  /\ LET inserted == [Leased(r, row) EXCEPT !.payload = PayloadOf[r]]
         after == IF row.status = "absent" THEN inserted ELSE row
     IN \/ /\ row' = after
           /\ Goto(r, IF row.status = "absent" THEN "lookup" ELSE "select")
           /\ UNCHANGED answer
        \/ /\ row' \in {row, after}
           /\ Reply(r, "unavailable")
  /\ UNCHANGED <<clock, mapped, net, local, msg>>

\* Mutant of Judge: the payload of the row is not compared.
JudgeUncompared(r, open) ==
  /\ Goto(r, IF row.status = "confirmed" THEN "replayById" ELSE open)
  /\ msg' = IF row.status = "confirmed" THEN [msg EXCEPT ![r] = row.messageId] ELSE msg
  /\ UNCHANGED answer

\* What acquireSendLedgerEntry decides from a row it has selected; "open" is
\* where it goes when the row is neither foreign nor confirmed.
Judge(r, open) ==
  \/ /\ row.payload # PayloadOf[r]
     /\ Reply(r, "conflict")
     /\ UNCHANGED msg
  \/ /\ row.payload = PayloadOf[r]
     /\ row.status = "confirmed"
     /\ Goto(r, "replayById")
     /\ Hold(r, row.messageId)
     /\ UNCHANGED answer
  \/ /\ row.payload = PayloadOf[r]
     /\ row.status # "confirmed"
     /\ Goto(r, open)
     /\ UNCHANGED <<msg, answer>>

Select(r) ==
  /\ pc[r] = "select"
  /\ Judge(r, "reacquire") \/ Throw(r)
  /\ UNCHANGED <<clock, row, mapped, net, local>>

\* Mutant of Reacquirable: any lease may be taken over, stale or not.
ReacquirableEagerly(r) == row.status \in {"failed", "processing"}

\* UPDATE ... WHERE failed OR (processing AND updated_at < now - stale).
Reacquirable(r) ==
  \/ row.status = "failed"
  \/ row.status = "processing" /\ row.updatedAt + StaleAfter < acquiredAt[r]

Reacquire(r) ==
  /\ pc[r] = "reacquire"
  /\ LET after == IF Reacquirable(r) THEN Leased(r, row) ELSE row
     IN \/ /\ row' = after
           /\ Goto(r, IF Reacquirable(r) THEN "lookup" ELSE "reselect")
           /\ UNCHANGED answer
        \/ /\ row' \in {row, after}
           /\ Reply(r, "unavailable")
  /\ UNCHANGED <<clock, mapped, net, local, msg>>

Reselect(r) ==
  /\ pc[r] = "reselect"
  /\ Judge(r, "watch") \/ Throw(r)
  /\ UNCHANGED <<clock, row, mapped, net, local>>

-----------------------------------------------------------------------------
(* The marks.  fenced is FALSE where the code passes no processingToken.   *)

\* Mutants of Confirmed and Failed: a watcher's mark is fenced too; the failure
\* mark is not fenced.
ConfirmedAlwaysFenced(r, fenced) ==
  IF row.token = TokenOf(r)
  THEN [row EXCEPT !.status = "confirmed", !.token = NoToken,
                   !.updatedAt = clock, !.messageId = msg[r]]
  ELSE row
FailedUnfenced(r) ==
  [row EXCEPT !.status = "failed", !.token = NoToken, !.updatedAt = clock]

Confirmed(r, fenced) ==
  IF fenced => row.token = TokenOf(r)
  THEN [row EXCEPT !.status = "confirmed", !.token = NoToken,
                   !.updatedAt = clock, !.messageId = msg[r]]
  ELSE row

Failed(r) ==
  IF row.token = TokenOf(r)
  THEN [row EXCEPT !.status = "failed", !.token = NoToken, !.updatedAt = clock]
  ELSE row

\* An UPDATE that may report an error whether or not it was committed.
Mark(r, after, answered, thrown) ==
  \/ row' = after /\ answered
  \/ row' \in {row, after} /\ thrown

-----------------------------------------------------------------------------
(* The row was confirmed: resolveConfirmedLedgerMessage.                   *)

ReplayById(r) ==
  /\ pc[r] = "replayById"
  /\ \/ /\ ById(conv[r], msg[r]) # NoMessage
        /\ Reply(r, "sent")
     \/ /\ ById(conv[r], msg[r]) = NoMessage
        /\ Goto(r, "replayBySource")
        /\ UNCHANGED answer
     \/ Reply(r, "unavailable")
  /\ UNCHANGED <<clock, row, mapped, net, local, msg>>

ReplayBySource(r) ==
  /\ pc[r] = "replayBySource"
  /\ LET found == BySource(conv[r])
     IN \/ /\ found \notin {NoMessage, msg[r]}
           /\ Goto(r, "replayMark")
           /\ Hold(r, found)
           /\ UNCHANGED answer
        \/ /\ found # NoMessage
           /\ found = msg[r]
           /\ Reply(r, "sent")
           /\ UNCHANGED msg
        \/ Throw(r)     \* not found, or the lookup failed
  /\ UNCHANGED <<clock, row, mapped, net, local>>

ReplayMark(r) ==
  /\ pc[r] = "replayMark"
  /\ Mark(r, Confirmed(r, FALSE), Reply(r, "sent"), Reply(r, "unavailable"))
  /\ UNCHANGED <<clock, mapped, net, local, msg>>

(* The row is somebody else's lease: look, and confirm what is found.      *)

Watch(r) ==
  /\ pc[r] = "watch"
  /\ LET found == BySource(conv[r])
     IN \/ /\ found # NoMessage
           /\ Goto(r, "watchMark")
           /\ Hold(r, found)
           /\ UNCHANGED answer
        \/ /\ found = NoMessage
           /\ Reply(r, "inProgress")
           /\ UNCHANGED msg
        \/ Throw(r)
  /\ UNCHANGED <<clock, row, mapped, net, local>>

WatchMark(r) ==
  /\ pc[r] = "watchMark"
  /\ Mark(r, Confirmed(r, FALSE), Reply(r, "sent"), Reply(r, "unavailable"))
  /\ UNCHANGED <<clock, mapped, net, local, msg>>

-----------------------------------------------------------------------------
(* The request holds the lease.                                            *)

\* Mutant of Lookup: the lease holder posts without looking first.
LookupSkipped(r) ==
  /\ pc[r] = "lookup"
  /\ Goto(r, "create")
  /\ UNCHANGED <<clock, row, mapped, net, local, msg, answer>>

Lookup(r) ==
  /\ pc[r] = "lookup"
  /\ LET found == BySource(conv[r])
     IN \/ /\ found # NoMessage
           /\ Goto(r, "lookupMark")
           /\ Hold(r, found)
        \/ /\ found = NoMessage
           /\ Goto(r, "create")
           /\ UNCHANGED msg
        \/ /\ Goto(r, "failError")
           /\ UNCHANGED msg
  /\ UNCHANGED <<clock, row, mapped, net, local, answer>>

LookupMark(r) ==
  /\ pc[r] = "lookupMark"
  /\ Mark(r, Confirmed(r, TRUE), Reply(r, "sent"),
          Goto(r, "failError") /\ UNCHANGED answer)
  /\ UNCHANGED <<clock, mapped, net, local, msg>>

\* createChatwootMessage() hands its POST to the network.
Create(r) ==
  /\ pc[r] = "create"
  /\ Goto(r, "awaiting")
  /\ wire' = [wire EXCEPT ![r] = "sent"]
  /\ UNCHANGED <<clock, row, mapped, gone, log, local, msg, answer>>

\* Mutant of Created: the 404 of a deleted conversation is taken for a message.
CreatedUnchecked(r) ==
  /\ pc[r] = "awaiting"
  /\ wire[r] \in {"landed", "refused"}
  /\ Goto(r, "createMark")
  /\ wire' = [wire EXCEPT ![r] = "idle"]
  /\ UNCHANGED <<clock, row, mapped, gone, log, local, msg, answer>>

\* Chatwoot's response arrives: the message, or 404 for the conversation.
Created(r) ==
  /\ pc[r] = "awaiting"
  /\ wire[r] \in {"landed", "refused"}
  /\ Goto(r, IF wire[r] = "landed" THEN "createMark" ELSE "failMissing")
  /\ wire' = [wire EXCEPT ![r] = "idle"]
  /\ UNCHANGED <<clock, row, mapped, gone, log, local, msg, answer>>

\* The POST times out, its connection breaks, or Chatwoot answers an error.
CreateFails(r) ==
  /\ pc[r] = "awaiting"
  /\ Goto(r, "recheck")
  /\ \/ wire' = [wire EXCEPT ![r] = "idle"]
     \/ LateLanding /\ wire[r] = "sent" /\ UNCHANGED wire
  /\ UNCHANGED <<clock, row, mapped, gone, log, local, msg, answer>>

CreateMark(r) ==
  /\ pc[r] = "createMark"
  /\ Mark(r, Confirmed(r, TRUE), Reply(r, "sent"),
          Goto(r, "recheck") /\ UNCHANGED answer)
  /\ UNCHANGED <<clock, mapped, net, local, msg>>

Recheck(r) ==
  /\ pc[r] = "recheck"
  /\ LET found == BySource(conv[r])
     IN \/ /\ found # NoMessage
           /\ Goto(r, "recheckMark")
           /\ Hold(r, found)
        \/ /\ Goto(r, "failError")      \* not found, or the lookup failed
           /\ UNCHANGED msg
  /\ UNCHANGED <<clock, row, mapped, net, local, answer>>

RecheckMark(r) ==
  /\ pc[r] = "recheckMark"
  /\ Mark(r, Confirmed(r, TRUE), Reply(r, "sent"), Reply(r, "unavailable"))
  /\ UNCHANGED <<clock, mapped, net, local, msg>>

\* The create answered 404; this mark is inside the try, so its own error is
\* treated like an error of the create.  A reply stays with its conversation.
FailMissing(r) ==
  /\ pc[r] = "failMissing"
  /\ \/ /\ row' = Failed(r)
        /\ \/ /\ r \notin Replies /\ round[r] = 1
              /\ Goto(r, "remap")
              /\ UNCHANGED answer
           \/ /\ r \in Replies \/ round[r] = 2
              /\ Reply(r, "missing")
     \/ /\ row' \in {row, Failed(r)}
        /\ Goto(r, "recheck")
        /\ UNCHANGED answer
  /\ UNCHANGED <<clock, mapped, net, local, msg>>

FailError(r) ==
  /\ pc[r] = "failError"
  /\ row' \in {row, Failed(r)}
  /\ Reply(r, "unavailable")
  /\ UNCHANGED <<clock, mapped, net, local, msg>>

\* recoverCurrentUserWritableThreadContext(stale conversation): somebody has
\* remapped the thread already, or this request maps it to a new conversation.
\* ThreadBootstrap has the steps of it; here it is one step that may fail.
Remap(r) ==
  /\ pc[r] = "remap"
  /\ \/ /\ mapped # conv[r]
        /\ BeginSend(r, mapped, 2)
        /\ UNCHANGED <<mapped, answer>>
     \/ /\ mapped = conv[r]
        /\ mapped < MaxConversations
        /\ mapped' = mapped + 1
        /\ BeginSend(r, mapped', 2)
        /\ UNCHANGED answer
     \/ /\ Reply(r, "unavailable")
        /\ UNCHANGED <<mapped, local>>
  /\ UNCHANGED <<clock, row, net, msg>>

\* The portal process dies under the request; its row and its POST stay.
Crash(r) ==
  /\ pc[r] \notin {"start", "done", "crashed"}
  /\ Goto(r, "crashed")
  /\ UNCHANGED <<clock, row, mapped, net, local, msg, answer>>

-----------------------------------------------------------------------------
(* Chatwoot and time.                                                      *)

\* Chatwoot executes the POST of r, at the latest when its budget is over.
Land(r) ==
  /\ wire[r] = "sent"
  /\ clock <= acquiredAt[r] + SendBudget
  /\ LET c == conv[r]
         alive == c \notin gone
     IN /\ log' = IF alive THEN [log EXCEPT ![c] = Append(@, Own(PayloadOf[r]))]
                  ELSE log
        /\ wire' = [wire EXCEPT ![r] = IF alive THEN "landed" ELSE "refused"]
        /\ msg' = IF alive /\ pc[r] = "awaiting"
                  THEN [msg EXCEPT ![r] = <<c, Len(log'[c])>>]
                  ELSE msg
  /\ UNCHANGED <<clock, row, mapped, gone, pc, local, answer>>

OtherMessage ==
  /\ mapped \notin gone
  /\ Len(log[mapped]) < MaxTraffic
  /\ log' = [log EXCEPT ![mapped] = Append(@, Other)]
  /\ UNCHANGED <<clock, row, mapped, gone, wire, pc, local, msg, answer>>

DeleteConversation ==
  /\ mapped < MaxConversations
  /\ gone' = gone \cup {mapped}
  /\ gone' # gone
  /\ UNCHANGED <<clock, row, mapped, log, wire, pc, local, msg, answer>>

\* The clock does not pass the budget of a request that is still at work:
\* fetch aborts after 15 s, and at most three fetches follow acquiredAt.
Tick ==
  /\ clock < MaxClock
  /\ \A r \in Requests : pc[r] \in TimedPCs => clock < acquiredAt[r] + SendBudget
  /\ clock' = clock + 1
  /\ UNCHANGED <<row, mapped, net, pc, local, msg, answer>>

Step(r) ==
  \/ Start(r) \/ Insert(r) \/ Select(r) \/ Reacquire(r) \/ Reselect(r)
  \/ ReplayById(r) \/ ReplayBySource(r) \/ ReplayMark(r)
  \/ Watch(r) \/ WatchMark(r)
  \/ Lookup(r) \/ LookupMark(r) \/ Create(r) \/ Created(r) \/ CreateFails(r)
  \/ CreateMark(r) \/ Recheck(r) \/ RecheckMark(r)
  \/ FailMissing(r) \/ FailError(r) \/ Remap(r)

Next ==
  \/ \E r \in Requests : Step(r) \/ Crash(r) \/ Land(r)
  \/ OtherMessage
  \/ DeleteConversation
  \/ Tick

Spec == Init /\ [][Next]_vars
-----------------------------------------------------------------------------
(* What the ledger is for.                                                 *)

\* Place i of conversation c carries this key.
OwnAt(c, i) == i \in DOMAIN log[c] /\ log[c][i] # Other

\* Message m was posted, with payload p.
Posted(m, p) ==
  /\ m[1] \in Conversations
  /\ m[2] \in DOMAIN log[m[1]]
  /\ log[m[1]][m[2]] = Own(p)

\* r may still cause a message: its lookup found nothing or is not done, or
\* its POST is on the network and Chatwoot may yet execute it.
MayPost(r) ==
  \/ pc[r] \in {"lookup", "create", "awaiting"}
  \/ wire[r] = "sent" /\ clock <= acquiredAt[r] + SendBudget

(* At most one request at a time may post for the key: a lease that was    *)
(* taken over as stale, or given back as failed, is no longer used by its  *)
(* former holder, whatever the marks, takeovers and crashes between        *)
(* acquireSendLedgerEntry and createChatwootMessage.                       *)
LeaseExclusive ==
  \A r, q \in Requests : MayPost(r) /\ MayPost(q) => r = q

(* The customer's message is in the conversation at most once, however     *)
(* often it was retried, timed out, or was taken over: no two places of    *)
(* the conversations that are not deleted carry the key.                   *)
AtMostOnce ==
  \A c, d \in Conversations \ gone : \A i \in DOMAIN log[c], j \in DOMAIN log[d] :
    OwnAt(c, i) /\ OwnAt(d, j) => c = d /\ i = j

(* A confirmed row names a message Chatwoot did store, with the payload    *)
(* the row was created for: neither the fenced nor the unfenced mark ever  *)
(* records a message of another conversation's place or of another body.   *)
ConfirmedNamesMessage ==
  row.status = "confirmed" => Posted(row.messageId, row.payload)

(* A request answered "sent" was answered with a message that is stored    *)
(* and has the very payload this request carried, also when another        *)
(* request with the key created it; and from then on the row is confirmed, *)
(* so that a retry of an acknowledged send can only replay it and a fenced *)
(* mark that updated no row is harmless.                                   *)
AnswerIsTrue ==
  \A r \in Requests :
    answer[r] = "sent" => Posted(msg[r], PayloadOf[r]) /\ row.status = "confirmed"

(* A confirmation is final: no late failure mark, takeover or retry of     *)
(* another request turns a confirmed row back into one that may be sent.   *)
ConfirmedForGood ==
  [][row.status = "confirmed" => row'.status = "confirmed"]_vars

-----------------------------------------------------------------------------
(* Why the lease is exclusive and a message unique: the invariants that    *)
(* are inductive (SendLedgerProofs) where Chatwoot does not land late, the *)
(* lease outlives the budget of its holder, and MaxTraffic <= PageSize.    *)

Holds(r) ==
  /\ row.status = "processing"
  /\ row.token = TokenOf(r)
  /\ row.updatedAt = acquiredAt[r]

\* r works under the lease and will, or may, still write a confirmation.
Keeps(r) ==
  \/ MayPost(r)
  \/ pc[r] \in {"lookupMark", "createMark", "recheckMark"}
  \/ pc[r] = "recheck" /\ conv[r] \notin gone

Timely ==
  \A r \in Requests :
    /\ acquiredAt[r] <= clock
    /\ pc[r] \in TimedPCs => clock <= acquiredAt[r] + SendBudget

\* A POST is on the wire only while its request awaits it, or has crashed.
WireInv ==
  \A r \in Requests : wire[r] # "idle" => pc[r] \in {"awaiting", "crashed"}

LeaseInv ==
  /\ \A r \in Requests : Keeps(r) => row.status = "confirmed" \/ Holds(r)
  /\ row.status = "confirmed" => row.token = NoToken
  /\ LeaseExclusive

\* Where a request is after a 404, its conversation is deleted for good.
GoneInv ==
  \A r \in Requests :
    wire[r] = "refused" \/ pc[r] \in {"failMissing", "remap"} => conv[r] \in gone

\* r has looked, found nothing, and its POST may yet be executed.
Posting(r) ==
  \/ pc[r] = "create"
  \/ wire[r] = "sent" /\ clock <= acquiredAt[r] + SendBudget

\* Conversation c shows no message with the key.
Clean(c) == c \in gone \/ \A i \in DOMAIN log[c] : ~ OwnAt(c, i)

\* Only the mapped conversation can be alive, and no conversation is used
\* before the thread is mapped to it.
MappedInv ==
  /\ \A c \in Conversations : c < mapped => c \in gone
  /\ \A c \in Conversations : c > mapped => log[c] = <<>>
  /\ \A r \in Requests : conv[r] <= mapped

\* A message with the key stays on the latest page.
PageInv ==
  \A c \in Conversations : \A i \in DOMAIN log[c] :
    OwnAt(c, i) => Len(log[c]) <= MaxTraffic \/ Len(log[c]) = i

CleanInv == \A r \in Requests : Posting(r) => Clean(conv[r])

\* A request that replays found the row confirmed, and it still is.
ReplayInv ==
  \A r \in Requests :
    \/ pc[r] \in {"replayById", "replayBySource", "replayMark"}
    \/ answer[r] = "sent"
    => row.status = "confirmed"
\* The messages that carry the key, as IdempotentSend sees them.
History == UNION {{<<c, i>> : i \in {j \in DOMAIN log[c] : OwnAt(c, j)}} :
                    c \in Conversations}
Visible == {m \in History : m[1] \notin gone}

Promise == INSTANCE IdempotentSend WITH
             body <- row.payload, history <- History, visible <- Visible

(* The ledger keeps the promise of IdempotentSend, step by step: a key is  *)
(* bound to one payload, a message is stored only while none is visible,   *)
(* and every answer was justified when it was given.                       *)
ImplementsIdempotentSend == Promise!Spec
=============================================================================
