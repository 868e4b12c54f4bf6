--------------------------- MODULE TelegramBridge ---------------------------
(***************************************************************************)
(* The Telegram bridge (telegram-bridge/) and its set-up by an             *)
(* administrator (modules/telegram-bridge-admin).  Telegram posts an       *)
(* update until it is answered with 200; the bridge records it in          *)
(* telegram_bridge_deliveries and passes it on to Chatwoot, or asks the    *)
(* sender for a phone number that leads to a Chatwoot contact.             *)
(*                                                                         *)
(* An update is taken up with up to four statements that are no            *)
(* transaction; a call that reports an error may have been executed; the   *)
(* process may stop anywhere.  One bridge, one private chat, one group.    *)
(***************************************************************************)
EXTENDS Naturals, FiniteSets

CONSTANTS
    Updates,     \* the updates Telegram holds for the bot
    Handlers,    \* the requests of the bridge that run at a time
    Setups,      \* the set-ups an administrator starts
    Stale,       \* age after which a row in processing is taken over (10 minutes)
    MaxClock,    \* bound of the clock
    MaxFaults    \* bound of the failures

ASSUME BridgeBounds ==
    /\ IsFiniteSet(Handlers)
    /\ {Stale, MaxClock, MaxFaults} \subseteq Nat

VARIABLES
    bridge,    \* status of the configuration: "none", "rotating", "active"
    hook,      \* Telegram's webhook is the one of the bridge
    setup,     \* the set-ups
    kind,      \* what each update is
    delivery,  \* its row
    handler,   \* the requests
    waiting,   \* the updates Telegram has not seen answered with 200
    ignored,   \* updates answered with 200 while the configuration was not active
    linked,    \* the private chat has a contact inbox in Chatwoot
    contact,   \* a contact has the phone number the sender shares
    posted,    \* how often an update has been passed on, or its sender answered
    unclear,   \* updates of which an attempt may have been executed unrecorded
    clock,
    faults

Kinds == {"unsupported", "foreign", "phone", "text", "group"}
Statuses == {"none", "processing", "failed", "processed"}
Working == {"find", "look", "link", "tell", "mark", "markAfter", "fail"}

bridgeVars == <<bridge, hook, setup, kind, delivery, handler, waiting, ignored, linked,
                contact, posted, unclear, clock, faults>>
admin == <<bridge, hook, setup>>
world == <<kind, contact, clock>>
store == <<delivery, ignored, posted, unclear>>

Gone == [pc |-> "idle", update |-> {}, at |-> 0, attempt |-> 0]
NoDelivery == [status |-> "none", attempt |-> 0, since |-> 0]

Update(h) == CHOOSE u \in handler[h].update : TRUE
Row(h) == delivery[Update(h)]
At(h, pc) == handler[h].pc = pc
Go(h, pc) == handler' = [handler EXCEPT ![h].pc = pc]

\* a fault early enough for its row to become stale before the clock ends
Fault == /\ faults < MaxFaults
         /\ clock + Stale < MaxClock
         /\ faults' = faults + 1

\* the request ends; Telegram forgets an update when it sees a 200
Answer(h, ok) ==
    /\ handler' = [handler EXCEPT ![h] = Gone]
    /\ \/ /\ waiting' = IF ok THEN waiting \ handler[h].update ELSE waiting
          /\ UNCHANGED faults
       \/ ok /\ Fault /\ UNCHANGED waiting

----------------------------------------------------------------------------
(* telegram-bridge-admin: setupTelegramBridge.                             *)

\* the existing configuration is read; the bot's webhook is nobody else's
FindConfig(s) ==
    /\ setup[s] = "idle"
    /\ setup' = [setup EXCEPT ![s] = IF bridge = "none" THEN "insert" ELSE "hook"]
    /\ UNCHANGED <<bridge, hook, store, handler, waiting, linked, world, faults>>

\* the second of two inserts meets the unique index and the set-up fails
InsertConfig(s) ==
    /\ setup[s] = "insert"
    /\ IF bridge = "none"
       THEN bridge' = "rotating" /\ setup' = [setup EXCEPT ![s] = "hook"]
       ELSE bridge' = bridge /\ setup' = [setup EXCEPT ![s] = "failed"]
    /\ UNCHANGED <<hook, store, handler, waiting, linked, world, faults>>

\* setWebhook, confirmed with getWebhookInfo
SetWebhook(s) ==
    /\ setup[s] = "hook"
    /\ hook' = TRUE
    /\ \/ setup' = [setup EXCEPT ![s] = "activate"] /\ UNCHANGED faults
       \/ setup' = [setup EXCEPT ![s] = "failed"] /\ Fault
    /\ UNCHANGED <<bridge, store, handler, waiting, linked, world>>

Activate(s) ==
    /\ setup[s] = "activate"
    /\ bridge' = "active"
    /\ setup' = [setup EXCEPT ![s] = "done"]
    /\ UNCHANGED <<hook, store, handler, waiting, linked, world, faults>>

----------------------------------------------------------------------------
(* The bridge: handleTelegramUpdate.                                       *)

\* Telegram posts an update, again after a refusal and when it tires of waiting
Deliver(h, u) ==
    /\ hook
    /\ u \in waiting
    /\ At(h, "idle")
    /\ handler' = [handler EXCEPT ![h] = [Gone EXCEPT !.pc = "config", !.update = {u}]]
    /\ UNCHANGED <<admin, store, waiting, linked, world, faults>>

\* findActiveBridgeConfigByPublicKey; a configuration that is not active is answered with 200
ReadConfig(h) ==
    /\ At(h, "config")
    /\ IF bridge = "active"
       THEN /\ handler' = [handler EXCEPT ![h].pc = "insert", ![h].at = clock]
            /\ UNCHANGED <<waiting, ignored, faults>>
       ELSE Answer(h, TRUE) /\ ignored' = ignored \cup handler[h].update
    /\ UNCHANGED <<admin, delivery, posted, unclear, linked, world>>

\* what the handling of an update begins with
First(u) == CASE kind[u] = "unsupported" -> "mark"
              [] kind[u] \in {"foreign", "group"} -> "tell"
              [] OTHER -> "find"

\* the row is this request's: status processing, and the attempt that fences its marks
Acquire(h, attempt) ==
    /\ delivery' = [delivery EXCEPT ![Update(h)] =
                       [status |-> "processing", attempt |-> attempt, since |-> handler[h].at]]
    /\ handler' = [handler EXCEPT ![h].pc = First(Update(h)), ![h].attempt = attempt]

InsertDelivery(h) ==
    /\ At(h, "insert")
    /\ IF Row(h).status = "none" THEN Acquire(h, 1)
       ELSE Go(h, "select") /\ UNCHANGED delivery
    /\ UNCHANGED <<admin, ignored, posted, unclear, waiting, linked, world, faults>>

\* a mistake: any row is a duplicate
SelectDeliveryAny(h) ==
    /\ At(h, "select")
    /\ Answer(h, TRUE)
    /\ UNCHANGED <<admin, store, linked, world>>

\* a row that was processed is a duplicate, any other may be taken up again
SelectDelivery(h) ==
    /\ At(h, "select")
    /\ IF Row(h).status = "processed" THEN Answer(h, TRUE)
       ELSE Go(h, "update") /\ UNCHANGED <<waiting, faults>>
    /\ UNCHANGED <<admin, store, linked, world>>

\* a mistake: a row in processing is waited for
OverdueNever(h) == FALSE

Overdue(h) == Row(h).status = "processing" /\ Row(h).since + Stale < handler[h].at

\* a mistake: a row is taken over at once
ReacquireDeliveryEarly(h) ==
    /\ At(h, "update")
    /\ Acquire(h, Row(h).attempt + 1)
    /\ UNCHANGED <<admin, ignored, posted, unclear, waiting, linked, world, faults>>

ReacquireDelivery(h) ==
    /\ At(h, "update")
    /\ IF Row(h).status = "failed" \/ Overdue(h)
       THEN /\ Acquire(h, Row(h).attempt + 1)
            /\ unclear' = IF Overdue(h) THEN unclear \cup handler[h].update ELSE unclear
       ELSE Go(h, "reselect") /\ UNCHANGED <<delivery, unclear>>
    /\ UNCHANGED <<admin, ignored, posted, waiting, linked, world, faults>>

\* processed in the meantime: a duplicate; else 503, and Telegram comes again
ReselectDelivery(h) ==
    /\ At(h, "reselect")
    /\ Answer(h, Row(h).status = "processed")
    /\ UNCHANGED <<admin, store, linked, world>>

\* findContactInboxBySourceId: without one a text is answered with a prompt
FindInbox(h) ==
    /\ At(h, "find")
    /\ \/ /\ Go(h, IF kind[Update(h)] = "phone" /\ ~linked THEN "look" ELSE "tell")
          /\ UNCHANGED faults
       \/ Go(h, "fail") /\ Fault
    /\ UNCHANGED <<admin, store, waiting, linked, world>>

\* findSingleContactByPhone: none, or several
LookPhone(h) ==
    /\ At(h, "look")
    /\ Go(h, IF contact THEN "link" ELSE "tell")
    /\ UNCHANGED <<admin, store, waiting, linked, world, faults>>

LinkContact(h) ==
    /\ At(h, "link")
    /\ \/ linked' = TRUE /\ Go(h, "tell") /\ UNCHANGED faults
       \/ linked' \in {linked, TRUE} /\ Go(h, "fail") /\ Fault
    /\ UNCHANGED <<admin, store, waiting, world>>

\* forwardTelegramUpdateToChatwoot, sendPhonePrompt, sendPhoneLinked, sendPhoneNotFound
Tell(h) ==
    /\ At(h, "tell")
    /\ \/ /\ posted' = [posted EXCEPT ![Update(h)] = @ + 1]
          /\ Go(h, "markAfter")
          /\ UNCHANGED <<unclear, faults>>
       \/ /\ posted' = [posted EXCEPT ![Update(h)] = @ + 1]
          /\ unclear' = unclear \cup handler[h].update
          /\ Go(h, "fail")
          /\ Fault
       \/ /\ Go(h, "fail")
          /\ Fault
          /\ UNCHANGED <<posted, unclear>>
    /\ UNCHANGED <<admin, delivery, ignored, waiting, linked, world>>

\* buildCurrentProcessingWhere: the marks match the attempt that was acquired
Holds(h) == Row(h).status = "processing" /\ Row(h).attempt = handler[h].attempt

Marked(h, status) ==
    IF Holds(h) THEN [delivery EXCEPT ![Update(h)].status = status,
                                      ![Update(h)].since = handler[h].at]
    ELSE delivery

\* markUpdateProcessedAfterExternalSideEffect: 200, whether or not the mark succeeds
MarkAfter(h) ==
    /\ At(h, "markAfter")
    /\ \/ /\ delivery' = Marked(h, "processed")
          /\ Answer(h, TRUE)
          /\ UNCHANGED unclear
       \/ /\ Fault
          /\ handler' = [handler EXCEPT ![h] = Gone]
          /\ waiting' = waiting \ handler[h].update
          /\ unclear' = unclear \cup handler[h].update
          /\ UNCHANGED delivery
    /\ UNCHANGED <<admin, ignored, posted, linked, world>>

MarkUnsupported(h) ==
    /\ At(h, "mark")
    /\ \/ delivery' = Marked(h, "processed") /\ Answer(h, TRUE)
       \/ Fault /\ Go(h, "fail") /\ UNCHANGED <<delivery, waiting>>
    /\ UNCHANGED <<admin, ignored, posted, unclear, linked, world>>

\* the catch: 500 after the mark, and 500 when the mark fails too
MarkFailed(h) ==
    /\ At(h, "fail")
    /\ handler' = [handler EXCEPT ![h] = Gone]
    /\ \/ delivery' = Marked(h, "failed") /\ UNCHANGED faults
       \/ Fault /\ UNCHANGED delivery
    /\ UNCHANGED <<admin, ignored, posted, unclear, waiting, linked, world>>

\* the process stops, or a statement outside the try fails: the row stays as it is
Stop(h) ==
    /\ handler[h].pc # "idle"
    /\ Fault
    /\ handler' = [handler EXCEPT ![h] = Gone]
    /\ unclear' = IF At(h, "markAfter") THEN unclear \cup handler[h].update ELSE unclear
    /\ UNCHANGED <<admin, delivery, ignored, posted, waiting, linked, world>>

Pass ==
    /\ clock < MaxClock
    /\ clock' = clock + 1
    /\ UNCHANGED <<admin, store, handler, waiting, linked, kind, contact, faults>>

----------------------------------------------------------------------------
BridgeInit ==
    /\ bridge \in {"none", "active"}
    /\ hook = (bridge = "active")
    /\ setup = [s \in Setups |-> "idle"]
    /\ kind \in [Updates -> Kinds]
    /\ delivery = [u \in Updates |-> NoDelivery]
    /\ handler = [h \in Handlers |-> Gone]
    /\ waiting = Updates
    /\ ignored = {}
    /\ linked \in BOOLEAN
    /\ contact \in BOOLEAN
    \* only the update with a phone number looks at the two
    /\ (\A u \in Updates : kind[u] # "phone") => ~linked /\ ~contact
    /\ posted = [u \in Updates |-> 0]
    /\ unclear = {}
    /\ clock = 0
    /\ faults = 0

\* what a request does next on its own
HandlerStep(h) ==
    \/ ReadConfig(h) \/ InsertDelivery(h) \/ SelectDelivery(h) \/ ReacquireDelivery(h)
    \/ ReselectDelivery(h) \/ FindInbox(h) \/ LookPhone(h) \/ LinkContact(h)
    \/ Tell(h) \/ MarkAfter(h) \/ MarkUnsupported(h) \/ MarkFailed(h)

BridgeNext ==
    \/ \E s \in Setups : FindConfig(s) \/ InsertConfig(s) \/ SetWebhook(s) \/ Activate(s)
    \/ \E h \in Handlers : HandlerStep(h) \/ Stop(h) \/ \E u \in Updates : Deliver(h, u)
    \/ Pass

BridgeSpec == BridgeInit /\ [][BridgeNext]_bridgeVars

\* requests go on, Telegram repeats what it holds, and time passes
BridgeFairness ==
    /\ \A h \in Handlers : WF_bridgeVars(HandlerStep(h))
    /\ \A u \in Updates : WF_bridgeVars(\E h \in Handlers : Deliver(h, u))
    /\ WF_bridgeVars(Pass)

BridgeTypeOK ==
    /\ bridge \in {"none", "rotating", "active"}
    /\ hook \in BOOLEAN
    /\ setup \in [Setups -> {"idle", "insert", "hook", "activate", "failed", "done"}]
    /\ kind \in [Updates -> Kinds]
    /\ delivery \in [Updates -> [status : Statuses, attempt : Nat, since : Nat]]
    /\ handler \in [Handlers -> [pc : {"idle", "config", "insert", "select", "update", "reselect"}
                                        \cup Working,
                                 update : SUBSET Updates, at : Nat, attempt : Nat]]
    /\ waiting \subseteq Updates
    /\ ignored \subseteq Updates
    /\ linked \in BOOLEAN
    /\ contact \in BOOLEAN
    /\ posted \in [Updates -> Nat]
    /\ unclear \subseteq Updates
    /\ clock \in 0 .. MaxClock
    /\ faults \in 0 .. MaxFaults

\* what Telegram has seen answered with 200 was passed on or its sender was answered, unless
\* the bridge cannot use it or was not active yet: a duplicate is never answered too early
AcknowledgedIsHandled ==
    \A u \in Updates \ waiting : posted[u] > 0 \/ kind[u] = "unsupported" \/ u \in ignored

\* an update reaches Chatwoot twice only if an attempt was cut off around the call that
\* passes it on, or was overtaken after ten minutes
RepeatsExplained == \A u \in Updates : posted[u] > 1 => u \in unclear

\* failed attempts, lost answers and rows left in processing are repeated until Telegram
\* has its answer
EveryUpdateAnswered == \A u \in Updates : hook ~> u \notin waiting

BridgeFairSpec == BridgeSpec /\ BridgeFairness
=============================================================================
