# A formal model of the Chatwoot client portal

The portal lets the customers of a tenant write to the tenant's Chatwoot: a
Fastify backend with a PostgreSQL database, a React client that works offline
(IndexedDB, service worker), a Telegram bridge, and the scripts that install and
release it. This directory models the parts where several actors share state, or
where one actor may be cut off half-way. TLC checks small instances; TLAPS proves
the main theorems for every instance.

    tlc -workers 2 -config SendLedger.cfg MCSendLedger
    tlapm SendLedgerProofs.tla

`PROJECT.json` lists the components, the runs, the hazards, the mutants that show
what each property catches, and the source lines behind every definition.

## Inventory

Paths are below `src/backend/src/` unless they start with `frontend` or `scripts`.

| Component | State | Operations | What is hard | What makes it correct |
|---|---|---|---|---|
| Chat send, send ledger (`modules/chat-messages`) | a row per (user, thread, client key): status, lease token, time, message id, payload hash | POST message; marks; replay; watch; recovery of a deleted conversation | retries, second tab, service worker and process death interleave; Chatwoot has no idempotency key; conditional UPDATEs without a transaction | at most one message per key; acknowledged sends are never repeated; a key is bound to one payload |
| Threads, bootstrap (`modules/chat-threads`) | a row per thread: source id, conversation | resolve, ensure, recover | advisory lock on one pool connection while the handler uses others; conversations deleted in Chatwoot | one conversation per thread; every request is answered |
| Webhooks, unread, realtime (`modules/chatwoot-webhooks`, `chat-unread`, `chat-realtime`) | deliveries seen, unread rows, streams per thread | message_created and others; mark, clear; subscribe, publish | at-least-once delivery, partial failure, iteration over a live Set | an accepted message is unread for all but its author; open streams get it |
| Web push (`modules/chat-notifications`) | subscriptions per user and endpoint, attempts per message | save, disable, deliver | three statements without a transaction; two users of one browser; a message delivered twice | one owner per browser; one push per subscription |
| Passwordless login, password setup and reset (`modules/passwordless-login`, `password-setup`, `password-reset`) | one challenge per e-mail: code hash, attempts, expiry, resend times | request, deliver (background), verify, accept documents / set password | delivery failure restores an older challenge; clocks read before locks | a code works once, never after too many attempts |
| Tenant administration (`modules/tenant-admin`) | admin challenge pending / sending, sessions | request, send, verify | crash while sending; a refusal rolls its transaction back | as above, but for the count of wrong codes (`F-SEC-002`) |
| Sessions, rate limit (`modules/auth`) | session rows; buckets in memory | login, logout, onRequest hook | trimming of a full table | a blocked client stays blocked for its window |
| Telegram bridge (`telegram-bridge`, `modules/telegram-bridge-admin`) | update rows: status, attempt, time; configuration | webhook, post to Chatwoot, mark; set-up | Telegram repeats, stale takeover, marks lost after the post, two set-ups | an acknowledged update was handled, and a repetition has a reason |
| Tenant provisioning (`modules/tenant-provisioning`) | run and tenant rows; accounts in Chatwoot | provision, deprovision, reconcile | no lock between operators; calls executed but not answered | an active tenant is whole; nobody is suspended by mistake |
| Offline outbox (`frontend/src/features/offline`, `frontend/public/sw.js`) | a record per message, a drain lease, the sign-out record | compose, retry, drain by tab or worker, removal of the data | blind puts of stale copies, death in the middle, two lock mechanisms | no text lost, none brought back, every message settles |
| Chat page (`frontend/src/features/chat/pages`) | the page, the connection state, the copies on the device | load, select, refresh, stream, older messages | answers that arrive late, networks lost without an event, a stream the browser gives up | the selected thread is shown, without gaps, and the newest in the end |
| Client session (`frontend/src/features/auth/lib`) | provider state, identity, snapshots, sign-out record, mirror | check, login, sign out, remove data | a start from the cache races the server, the store and two deadlines | who has signed out stays out; start-up ends |
| Staged release (`scripts/production-staged-release-remote.sh`) | pointers, manifests, journal, history, marker, image tags | prepare, activate, recover, roll back | killed between any two commands; rollback fails too | what is recorded serves; there is one to go back to |
| Presence and typing, branding, maintenance, legal documents, profile, health, configuration, e-mail and object storage, other pages | little or none of their own | reads, CRUD, I/O, formatting | - | see "What is not modelled" |

They meet in these places. The composer writes the outbox; a drain POSTs with the
`clientMessageKey`; the send asks for a writable thread (bootstrap) and then runs
the ledger, which posts to Chatwoot; Chatwoot's webhook comes back to the fan-out,
which asks the ledger who wrote the message, marks it unread for the others,
publishes to open streams (which the chat page reads) and starts the push
delivery. The session decides whose copies the page starts from, and its sign-out
clears the outbox and the copies. The verification flows end in the session's
login. Provisioning and the release share no state with any of these.

## Modules

| Module | What it is |
|---|---|
| `IdempotentSend` | what a client is promised for one key: bound to one payload, a message stored only while none is visible, every answer justified |
| `SendLedger`, `MCSendLedger`, `SendLedgerProofs` | the ledger and Chatwoot, await by await |
| `ConversationMapping` | the promise for one thread: the conversation changes only after it was deleted, to a younger one |
| `ThreadBootstrap`, `MCThreadBootstrap`, `ConversationProofs` | requests, rows, the advisory lock, the pool |
| `WebhookFanout`, `MCWebhookFanout`, `WebhookFanoutProofs` | deliveries, unread rows, streams |
| `Challenges` | the rows, requests, mails and clock the four flows with a mailed code share |
| `CodeLogin`, `PasswordSetup`, `PasswordReset`, `AdminChallenge` | the transactions of one flow each |
| `Verification`, `MCVerification`, `VerificationProofs` | the flows together and what they promise |
| `TelegramBridge`, `ConversationProofs` | Telegram, the bridge, its set-up and Chatwoot |
| `Outbox`, `DeviceProofs` | the outbox of one user on one device |
| `ChatPage`, `MCChatPage`, `ChatPageProofs` | the chat page of one tab, the network and the server's threads |
| `ClientSession`, `DeviceProofs` | who is signed in, in one tab |
| `StagedRelease` | the release helper and its disk |
| `TenantLifecycle` | the operators' commands over one tenant |
| `PushSubscriptions` | browsers, their subscriptions and the push deliveries |
| `SideParts`, `MCSideParts`, `SidePartsProofs` | the last three side by side: a behaviour is one of them; the theorems about each |
| `NaturalFacts` | a lemma on the natural numbers the proofs share |

A backend or browser process is a `pc`, or a phase, and one value of it is one
await of the code: what stands between two awaits is one step, because JavaScript
runs it without interruption. A database statement, a transaction under an advisory
lock or an IndexedDB transaction is one step. In the release script one value is
one command that writes. A statement, call or command that "fails" may have been
executed; both outcomes are steps. Mutants are not part of a specification; each
is an operator that shows a bug a property catches.

### SendLedger

One key. `row` is the row of `portal_chat_message_sends`; `log` is what each
Chatwoot conversation holds, in order, with messages of others as `Other`; `wire`
is the create a request has on the network; `mapped` and `gone` are the thread's
conversation and the deleted ones. `Insert`, `Select`, `Reacquire` and `Reselect`
are the four statements of `acquireSendLedgerEntry`; `ReplayById`,
`ReplayBySource`, `ReplayMark` the confirmed row; `Watch`, `WatchMark` the request
that finds somebody else's lease and marks without a token; `Lookup` to
`RecheckMark` the holder; `FailMissing` and `Remap` the second round in a new
conversation. A lookup by source id sees the latest page only (`PageSize`). Time
is `clock`, read once per `send()`; `SendBudget` bounds what a request takes from
that reading to its last mark (three fetches of at most 15 s each), `StaleAfter`
is the two minutes of the lease. `LateLanding` says whether Chatwoot may execute
a create after the portal has given it up.

### ThreadBootstrap

The row of each thread, the contact inboxes and conversations Chatwoot has, and
per request what it has read (`stale`, `source`, `conv`). A request whose PC is in
`InTransaction` holds a connection, waiting for `pg_advisory_xact_lock` or working
under it; every query of the outer handle needs one more (`Connection`). Step by
step: `Resolve`, `InsertThread`, `UpdateThread` (the upsert), `Begin`, `Lock`, the
handler under the lock (`FindThread` to `SaveConv`), `Commit`, `Use`. `Use`
discovers that the conversation was deleted and recovers once. `lost` counts the
conversations that were created and never saved. A create that `fetchWithTimeout`
aborts, or that is under way when the process stops (`Crash`), is in Chatwoot's hands:
`lateInboxes` and `lateConvs` count these, and `LateInbox` and `LateConv` execute one
at any later time, after the second look of the same request or the look of the next
one. A call answered with an error though it was executed is a late one that lands at
once. `unheard` counts the inboxes that came in this way. `FoundSource` takes any
inbox there is, because which one Chatwoot lists first is Chatwoot's.

### WebhookFanout

One group conversation and the webhooks of its messages, repeated ones included.
`Resolve` reads the author from the ledger (`known`) and the contacts;
`Insert` marks unread; `Record` records the delivery and starts the fan-out, which
visits the live Set of subscriptions (`NextSubscription`: `sub`, `base` and
`last` number them as the Set orders them). `List` and `Clear` are the snapshot of
one subscriber; `Open` and `Answer` a GET by a member, which clears rows as well.
`faults`, chosen in the initial state, names what may go wrong in a behaviour.

### Challenges and the four flows

One tenant, one e-mail; `flow` is fixed in the initial state. Every transaction of
the flows takes an advisory lock on purpose and e-mail before it reads, so it is
one action; but the clock, the contact lookup, the versions of the documents and the
hash of a password come before the lock and are old when it is taken, which is why
requests carry `at` and finishers carry what they have read. A request stores a row
(`Begin` and the request actions of each flow), mails the code in the background
(`MailAccepted`, `MailRefused`) and cleans up after a refused mail as its flow does:
login and set-up only if the row is the latest, reset whatever the row holds.
`Lose` stops a request half-way. A verification counts a wrong entry or consumes the
row; `CodeLogin` then opens a session or issues a token for the acceptance of the
documents (`BeginFinish`, `AcceptLegal`), `PasswordSetup` sets the password in two
transactions. The history variables `uses` and `guesses` follow a code through the
copies of it that clean-ups put back. An administrator's wrong code (`WrongAdmin`)
leaves the row as it was: `verifyAdminLoginCode` throws inside its transaction, which
takes the increment of the attempts back (`docs/findings/F-SEC-002`); only the history
`guesses` grows, and *GuessesCounted* speaks of the other three flows.

### TelegramBridge

`delivery` is the row of an update; `InsertDelivery`, `SelectDelivery`,
`ReacquireDelivery`, `ReselectDelivery` are the four statements of the deduplication,
with the takeover of a row that is `Stale`. Which kind of update it is, whether the
contact exists and whether the chat is linked decide the branch of
`handleTelegramUpdate`; `Tell` is the one call that has an effect outside, `posted`
counts it, and `unclear` records that an attempt may have been executed unrecorded.
Two set-ups race for the configuration (`FindConfig` to `Activate`).

### Outbox

`box[k]` is the status of record k, with time folded in: "later" is a queued
record whose `nextAttemptAt` is to come, "expired" a sending one whose lease has
run out. Drains are pages (mounts of `useOfflineOutboxDrain`) and service workers;
`locks` says which of the two mechanisms the browser has. A page checks for a
sign-out and puts in two transactions (`Check`, `Put`), the worker only puts.
`want` is what is about to be written; an error inside the code's `try` leads to
another write ("queued" and "denied" to "later"), one outside ends the drain
(`Fail`). The removal saves the sign-out (`Block`) and clears in one transaction
(`Wipe`); `Complete` and `SignIn` end it.

### ChatPage

A message is its number in the thread, and a snapshot a set of numbers with the
cursor of what lies before it. `load` is the load that holds `loadRequestIdRef`,
racing the read of the device's copy (`fallback`); `stale` one that failed before a
newer one began and still awaits that read; `refresh` the request of
`refreshChatSnapshot`, which the probe, the resync and the fallback share; `older`
the request for older messages; `stream` the EventSource. `Put` is what every change
of the page does besides: it saves the copy, opens or closes the stream, and marks a
step that lost sight of messages, or kept a copy that does ("torn"), or that took a
page with a cached copy for online ("stray"). `link` can be lost without the browser
noticing. `upsets` bounds the events nobody on the page controls.

### ClientSession

`check[a]` is the attempt a of `startupAttemptRef`: its request and its reading of
the store, which are under way at the same time. `queue` is the chain of writes of
`offlineAuthMutations`; `exit` is a sign-out or a removal with its steps.
`Deadline` is the eight seconds of the screen, `ReadDeadline` that of a reading.
The expiry of a snapshot and the clock it is compared with are a choice at each
reading. `Open` also reopens the tab, between any two steps.

### StagedRelease

A `pc` value is one command that writes, `Then` the command after it and `PhaseAt`
the phase of the journal it records. `prepare` imports the running installation when
there is no adoption yet, cleans up what a prepared candidate of more than 24 hours
has left, builds and registers; `activate` decides the migration policy, opens the
transaction, cuts over in five stages (`Stages`), publishes and removes the release
before the previous one; on an error `handle_candidate_failure` goes back or, under a
forward-only decision, only forward. What a killed activation has left is not taken
up again: while its transaction is open every prepare and activate refuses
(`Blocked`, `remote_block_on_critical_state`) until an operator repairs it. Image tags are "none", "some" or "all". Which of the refusals of
`remote_validate_*` applies follows from the disk. Drift of the environment or of the
tenants is a refusal at any time. `history` keeps outcomes in the order of their
epochs; its limit of 20 and the external images are left out.

### TenantLifecycle, PushSubscriptions

`job[o]` is the command of an operator, from statement to statement and call to call;
`StepFails` covers a call that failed before or after its execution, `KillCommand`
a killed script and `Vanish` an account deleted in Chatwoot. In `PushSubscriptions` a
user saves the one subscription a browser has in three statements, a delivery goes
through the rows it has read, records an attempt, sends and perhaps disables; each
may stop anywhere.

## Runs

| Run | Instance | Shows |
|---|---|---|
| `ledger` | two tries with a clock to 2, lease and budget 1, a message of others and crashes; or, the clock standing still, two tries and a reply with the key for a file, or three tries and a late reply; two conversations, one deletion | LeaseExclusive, AtMostOnce, AnswerIsTrue, ConfirmedNamesMessage, ConfirmedForGood and the refinement of IdempotentSend |
| `ledger_late_landing` | three tries, `LateLanding` | violates AtMostOnce |
| `bootstrap_shared` | three requests of a group thread, one a reply; two deletions, crashes, creates executed late or never, a pool of four | SameConversation, OrphansAccounted, ImplementsMapping, EveryRequestAnswered |
| `bootstrap_pool_full` | as many requests as connections | violates EveryRequestAnswered |
| `fanout` | two members; two deliveries of a message with failing queries, throwing snapshots, crashes and one stream, or one delivery with failing lookups and four streams | AcceptedIsMarked, SubscribersTold |
| `verification_flows` | each of the four flows: two requests, a finisher, two wrong entries (an administrator's rolled back), a clock to 2, one event from outside | OneActive, OneUse, GuessesCounted, NoWaitForLostMail, DeliveredCodeStands, SessionCovered, SetupKeepsPassword |
| `telegram_updates` | an update of any kind, two handlers, two set-ups, one fault, a clock to 2 | AcknowledgedIsHandled, RepeatsExplained, EveryUpdateAnswered |
| `outbox_drains` | a page and a worker, one message, a retry, one fault, one removal; both lock mechanisms | NoMessageLost, OnlyUserBringsBack, EveryMessageSettles |
| `chat_page` | a private thread with three messages and three to come, a group thread without a conversation; pages of two messages, copies of three; three upsets | PageTypeOK, TranscriptOfSelected, OlderReachable, OnlineIsLive, PageCatchesUp |
| `client_session` | a user, a tab opened twice, two checks or logins, one fault | SignedOutStaysOut, BootSettles |
| `signed_out` | the same without a fault | violates SignedOutForGood |
| `side_parts` | three releases, one migration, eight prepares and activations; or two operators, three commands, two accounts; or two users of a browser with two subscriptions, four requests and two deliveries | ServedIsRecorded, RollbackReady, OutcomesTrue, ForwardOnlyStays; ActiveIsWhole, SuspensionJustified; EndpointHasOneOwner, PushedOnce |

Why the bounds suffice.
Ledger: a duplicate needs a poster and a rival; a late watcher that names the message
of a deleted conversation, and the replay that finds it out, need four requests (the
shortest way to `ReplayMark`). Clock 2 lets a live holder and its rival overlap inside
the budget and a dead one be taken over. `MCBounds` keeps the three cases apart; the
theorems combine them.
Bootstrap: a holder, a waiter and a latecomer. A second inbox takes two requests, the
first of them giving up a create; how many creates come late has no bound of its own.
Fan-out: a Set that loses a member, is dropped and made again takes four
subscriptions of two members; a mark that goes takes two deliveries; the two are not
combined by TLC (the theorem combines them).
Flows: an order between requests takes two of them; a code restored after it was
guessed at takes two wrong entries; a lifetime of 2 and a cooldown of 1 let each end
before the other. One event keeps a deactivation, an upload and a request that stops
apart; the theorems combine them.
Bridge: the repetition, the first handling and the takeover take two handlers and two
ticks.
Outbox: a lock conflict takes two drains; the interesting failures are one cut-off at
each await, which one fault reaches.
Page: six messages in pages of two let a refresh begin beyond what is shown, and a
copy of three is then cut below the gap; a race takes a selection and back, or a loss
of the network and a refusal, which three upsets allow.
Session: a late answer takes two attempts, a lost record one fault, a start from what
it left a second opening.
Side parts: a release to go back to, one that serves and a candidate are three; the
removal of the one before the previous takes a third activation, and preparing,
expiring and failing each one more, which eight operations hold. Two operators and
three commands are a provisioning raced by a second one and by a reconciliation.
The push part stops at two requests once a delivery has begun (`MCBounds`): a transfer
between two users takes two.
Symmetry is used among interchangeable requests or members in safety runs, never in
a run with a liveness property.

`CHECK_DEADLOCK FALSE` is given everywhere: requests, deliveries, commands and
bounded users come to an end, and the system then rests.

### Fairness

`ThreadBootstrap!FairSpec`: weak fairness of each request's next step. Chatwoot
calls are cut off by `fetchWithTimeout`, and PostgreSQL answers or fails; a wait
for the lock or for a connection is not a step, so it is not assumed to end. A create
that was given up need never be executed.

`Outbox!FairSpec`: code that runs goes on, time passes, and a page starts a drain
again and again. The last rests on the effect of `useOfflineOutboxDrain`, which
runs again when a callback changes, and so with every change of `pageState`; the
refresh of the thread list changes it every 30 s while the page is open and
online. It does not rest on the drain's own timer: a record queued without
`nextAttemptAt` gets none. Strong fairness of `Store` and `Accepted` says that a
message sent for ever is at some time stored and answered with a matching result;
without it a network that is always down would refute any delivery. Workers are
given no fairness for starting: the browser decides about background sync.

`BridgeFairness`: a request that runs goes on, Telegram repeats what was not answered
with 200, and time passes. `PageFairness`: a request is answered or given up after its
ten seconds, the timers of the probe and of the health fallback fire, and the network
comes back; the stream is not assumed to open. `SessionFairness`: timers only. No
request, no access to the store and no queue is assumed to end, because the property
is about what happens when they hang.

## Proofs

All theorems hold for every value of the constants that satisfies the module's
ASSUME, and some need more, stated in the theorem. The type invariants of the
modules with proofs are proved and not checked by a run; that of `ChatPage` is
checked.

- `SendLedgerProofs`. *TypeCorrect*, *ConfirmationIsFinal*: nothing more is
  assumed. *OnlyOnePoster* (LeaseExclusive) assumes `~LateLanding` and
  `SendBudget <= StaleAfter`. LeaseExclusive is not inductive: two requests that
  both may post must be told apart by the row, and a row can be taken over only
  when its holder's budget is over. The invariant is `Timely` (nobody outlives the
  budget), `WireInv` (a POST is on the wire only while it is awaited or its request
  is dead) and `LeaseInv` (whoever `Keeps` the lease is named by the row, unless it
  is confirmed). *MessageIsUnique* (AtMostOnce) adds `MaxTraffic <= PageSize`, so
  that a message stays on the page a source id is looked up in, and `GoneInv`,
  `MappedInv`, `PageInv`, `CleanInv` (whoever may still post has seen a
  conversation without the key, and it is still without) and `ReplayInv`.
  *ConfirmationNamesMessage* (ConfirmedNamesMessage) needs nothing but types: what a
  request carries to its mark it has read from Chatwoot or from the row.
  *SentIsTrue* (AnswerIsTrue) assumes what OnlyOnePoster does, because a fenced mark
  that updates no row is harmless only if a rival cannot have failed the row since.
  *PromiseKept* is the refinement of IdempotentSend: every step of the ledger is one
  of its steps or a stutter, under the assumptions of *MessageIsUnique*.
- `ConversationProofs`, the threads. *MappingInvariant* is `LockInv` (one holder per thread)
  and `MapInv` (what the holder has read of the mapping stays true until it is
  done, because only a holder writes it; the reading before the lock may be old,
  and is read again). From it *OneConversationForAll* and *MappingKept*, the
  refinement of ConversationMapping for every thread.
  *NothingLeftBehind* (OrphansAccounted) adds `SourceInv` and counts. `SourceInv`: the
  portal creates an inbox only where all there are came unheard, so that with the new
  one they are one more than these, and the row's source id is that of an inbox; a late
  create only adds to both sides. A step makes at most one conversation an orphan, and
  then `lost` grows with it (`LateConv` among them); a crash makes at most as many as
  there were requests about to save one, and `lost` grows by their number. The
  count needs the sets finite, which follows from those of the ASSUME.
- `WebhookFanoutProofs`. *MarksSurvive* (AcceptedIsMarked): `MarkInv` says that
  between `Insert` and `Record` every recipient is marked or has had its rows cleared
  after the message was there. The property excepts members whose lookup failed.
  *EveryStreamTold* (SubscribersTold): `HubInv` gives each subscription a number of its
  own above the base of the Set, so that a number above the iteration's cursor has
  still to come, and `WalkInv` says of each stream within the Set the fan-out began
  with that it is ahead of the cursor, has the message, or is being sent it.
- `VerificationProofs`. One invariant, `Inv`, for the four flows. Its core for
  *CodeUsedOnce* and *GuessesAlwaysCounted* is that a code is in one row or in one
  copy that a clean-up may put back, and in none once it was used; that attempts and
  guesses agree in rows and copies (but for the administrators, whose wrong codes are
  not counted); and that only the latest row of an e-mail is open.
  *SessionAlwaysCovered* adds what a finisher has read of the documents (`Reads`);
  *PasswordKept* follows from what the second transaction of the set-up looks at;
  *OneActiveAlways* from the latest row being the only one that may be open.
  *NobodyWaitsInVain* (NoWaitForLostMail) adds `Waits`: an open row has a request busy
  with its mail (`Mailing`), or is pending and settled or overtaken; a copy a clean-up
  may put back is settled (`Timely`), and the pending row of a login is the youngest
  (`TopPending`), so that the clean-up finds it.
  *DeliveredCodeStays* (DeliveredCodeStands) compares a row before and after a step;
  `Dates` gives it what it needs: both times of a row come from one reading of the clock,
  a row is mailed only to somebody, and no code is in the mail before it is stored.
- `ConversationProofs`, the bridge. The invariant ties a row in processing to the one request
  that holds its attempt number while the update is clear, and "processed" to a post:
  *AcknowledgedHandled*, *RepeatsAccounted*.
- `DeviceProofs`, the outbox. *TypeCorrect*, and *TextIsKept* (NoMessageLost): with `DrainInv`,
  a drain that is about to delete is at a record the backend has stored. It holds
  in both lock modes and across removals: overlap of drains is irrelevant to it.
  *NoneBroughtBack* (OnlyUserBringsBack) needs the lock: `HolderInv` (under Web
  Locks only the owner is past the lock) makes the owner the only drain that
  writes, `ListedInv` (all it has listed and not finished still waits) is kept
  because it takes a record off its list when it ends it, and `RemovalInv` says
  that nothing is cleared before a removal.
- `DeviceProofs`, the session. *SessionTypes*, and *SignedOutStays*
  (SignedOutStaysOut). The property is not inductive: a removal leaves the server's
  session alone, and then only the mark on the device keeps the user out. `Owes(u)`
  says that u has left and the server still has the session, or has just said so to the
  latest check. While that is so, `DeviceInv` has the mark there and no mirror,
  `RequestOK` forbids every write that could delete it, save one that ends the session
  first, `ReadingOK` every reading that could show u, and `ExitInv` every exit but u's
  own, which writes the same mark. That nobody becomes away under a check (an exit that
  meets none has none busy) is what the exception `excused` is for.
- `ChatPageProofs`. The lemmas on snapshots first: what a window holds, that a merge
  leaves no gap unless it skips messages, and that a copy of the newest messages exists
  and has a gap only where it was cut below one. *PageTyped* and *ShownIsSelected*
  (TranscriptOfSelected) follow from `Sound`: page, copies, loads, refreshes and what
  waits in the stream carry the thread they are for, and the stream is that of the shown
  page. *NothingOutOfReach* (OlderReachable) adds `Gapless`: answers on their way have
  no gap at all, so that only a marked step can bring one in. *OnlineShowsServer*
  (OnlineIsLive) adds `Fed`: a page with a copy that counts as online is stray or has a
  refused load that still waits for the fallback, which ends in the error page.
- `SidePartsProofs`, the release. *NeverBack* (ForwardOnlyStays) is not inductive:
  which command may start the previous release depends on the policy the operation
  holds, not on the journal. `ReleaseInv` adds that the operation knows its candidate
  (`OpKnown`), that the journal says what the operation holds (`JournalMatches`) and
  that a going-back command is reached under no forward-only policy (`PolicyAllowed`).
  *RecordsServed* (ServedIsRecorded) holds while no transaction is open, so its
  invariant `ServedInv` says what an open one has reached, command by command:
  nothing but containers at first (`EarlyUntouched`), the candidate everywhere at the
  end (`CutReached`), and on the way back one thing after the other as it was
  (`BackReached`). *AlwaysAWayBack* (RollbackReady) adds `RollbackInv`: what a prepare
  owns or is about to remove is neither current nor previous (`Expendable`), the
  releases of a transaction are intact and the one to be removed at its end is a third
  (`ReleasesKept`), and a prepared candidate is not the previous release
  (`PreparedParts`: else an activation would remove what it goes back to).
  *OutcomesStayTrue* (OutcomesTrue): an open transaction without an outcome is younger
  than every outcome (`OutcomesDated`), one with an outcome has the last one's epoch
  (`OutcomesRecorded`), and after it nothing that serves changes. No assumption but
  ReleaseAssumption.
- `SidePartsProofs`, the tenants. *ActiveTenantIsWhole*, *SuspensionHasCause*, for any
  operators and accounts. Their invariant `TenantInv` has for each command what it
  `Knows` at each `pc`: the ids it carries are the ones the run has recorded, what it has
  found in Chatwoot only grows (`Growing`), and a suspension is on its way only for an
  account that is gone or condemned. That external ids are stored once and never
  replaced is what lets two commands that race agree.
- `SidePartsProofs`, the pushes. *OneOwnerAlways*, *PushedAtMostOnce*, for any users,
  browsers, requests and deliveries. `OwnerInv` says which owners an endpoint can have
  while a save is between its statements, `AttemptInv` that a delivery about to send
  holds the only attempt of that message and subscription.
- *PartsKeepApart*: a behaviour of SideParts is one of each part, so that these
  theorems are about what the run `side_parts` checks.

Only model-checked: all liveness (EveryRequestAnswered, EveryMessageSettles,
EveryUpdateAnswered, PageCatchesUp, BootSettles), which is beyond the prover.
Every other property of the passing runs is also a theorem.

## What the code does that one may not expect

Three are runs:

- **Late landing** (`ledger_late_landing`). After a create that timed out the row
  is marked failed at once and may be acquired by a retry that posts while Chatwoot
  still works on the first POST: two messages.
- **A full pool** (`bootstrap_pool_full`). Every cold request holds a connection
  while it waits for the advisory lock, and the holder needs a second one.
- **Signed in again** (`signed_out`). A check of the session that is under way while
  the user signs out, or removes the device's data, still counts as the latest
  attempt: its answer shows the user again and writes the data back.

Others were met while modelling and have no run:

- Ledger. A source id is looked up in the latest page; a burst of other messages
  between a lost answer and the retry hides the first message, and it is posted again
  (`docs/findings/F-CHAT-010`). *AtMostOnce* assumes that away: the run and the theorem
  have `MaxTraffic <= PageSize`; with two messages of others and pages of one, TLC
  finds two messages of one key. A confirmed message of a deleted conversation cannot be
  replayed; its retries are answered with a temporary error. The payload hash of a
  group message contains the author's name, so a rename between two tries makes the
  retry a conflict. A conversation created in Chatwoot whose id was not saved stays
  there unnamed (`lost`, bounded by OrphansAccounted).
- Bootstrap. A `createContactInbox` that was aborted may be executed after the portal
  has looked again, or after the next request has: the contact then has a second portal
  inbox, because each create brings a random source id, and the row names whichever
  Chatwoot lists first. An aborted `createConversation` leaves a conversation nobody
  names.
- Fan-out. One subscriber's snapshot that throws ends the fan-out for those after it,
  and the delivery is recorded. One failed contact lookup leaves that member without a
  mark. A mark inserted while a snapshot is under way is cleared with it though
  the snapshot does not show the message. A repeated delivery marks again what the
  reader has cleared. The webhook may be handled before the ledger names the message,
  and the author then has the own message unread. A stop after the delivery was
  recorded loses the pushes.
- Flows. A failed reset mail puts the replaced code over a younger one
  (`docs/findings/F-AUTH-004`); an administrator's challenge stays in sending after a
  stop (`F-AUTH-005`). The count of an administrator's wrong codes is rolled back with
  the transaction that answers them (`F-SEC-002`), so that the right code is accepted
  after any number of wrong ones. All are known; the properties speak of what survives
  them, and *GuessesCounted* does not speak of administrators.
- Bridge. Between the confirmed `setWebhook` and the activation of the configuration
  updates are answered with 200 and dropped (`F-TG-002`); the model keeps them in
  `ignored`, which *AcknowledgedIsHandled* excepts.
- Outbox. A drain in flight while the device's data is removed may put a record back:
  a page asks and puts in two transactions, the service worker does not ask
  (`Put` after `Wipe`). `offlineOutboxStore.test.ts:81` tests the case in which the
  write starts after the removal. In lease mode the 30 s of the drain lease are not
  renewed: a second drain may run under the first, and a delivered message may come
  back for one more round; the ledger answers it without posting.
- Chat page. A load that fails compares its identity before it awaits the device's
  copy and not after (`StaleSettles`): it may put the error screen, or the offline
  state, over a newer load; *TranscriptOfSelected* does not forbid that, it says that
  what is put there is of the thread that is selected. `mergeRealtimeSnapshot` keeps the older cursor, so a
  refresh that begins beyond what is shown leaves a gap no request fills ("torn").
  `toBoundedOfflineMessageSnapshot` gives a copy that it cuts the cursor of its first
  message: with a gap above that one (fifteen messages shown, sixty missed, the newest
  twenty merged) the copy says that nothing is missing there ("torn" as well). An
  answer to any other request while a copy is shown makes the page online without a
  refresh ("stray"). A 401 whose recheck fails leaves the page as it was
  ("unchecked"). A thread without a conversation opens no stream.
- Client session. When the save of an identity failed the scope of the session is
  null: a sign-out then clears nothing, and the user is shown again at the next
  offline start. A stop between the sign-out record and the clearing leaves the mirror
  in localStorage, which `readStartupAuthSession` opens without looking at the record.
- Push. Two saves of one endpoint that race may disable each other's row; a save cut
  off before its last statement leaves two owners (`torn`). *EndpointHasOneOwner* says
  that there is one owner at most, not that the last to save is active. A sign-out leaves the
  subscription with the user who has left (`docs/findings/F-SEC-008`).
- Provisioning. A stop between the activation of the tenant and `markCompleted`, or a
  second command's `markStatus` or `markFailed` after it, leaves a run that never
  becomes completed: a new run answers that the tenant exists, and the reconciliation
  skips it as not operator-provisioned. An upsert by a slower command takes an active
  tenant back to provisioning and forgets the identifier of its inbox. A resume that
  races a deprovisioning brings an archived tenant back; a reconciliation may write
  suspended over archived. A run whose account was deleted cannot be resumed.
- Release. A decision left by a rollback, or by a stop between the removal of the
  prepared pointer and that of the decision, makes a later activation without a
  migration refuse the automatic rollback. A kill between the extraction of a release
  and its pointer, after the removal of an expired candidate's tags, or a failed removal of
  a superseded release leaves something `remote_validate_state_layout` refuses until an
  operator repairs it. A signal between the writing of a pointer and the flag that says
  so removes the directory the pointer names. A failed build leaves tags that make the
  same commit refused. `--retry-after-rollback` (`docs/operations/
  production-deployment.md:44-46`) looks for the pointer, directory and tags of the
  candidate that the clean-up of every complete rollback has removed.

## What is not modelled

Inside the modelled components. Ledger: deletion of rows by retention (weeks later), two
users of a group with one key, the fallback without a repository (tests). Bootstrap:
thread ids, contact attributes, the read-only context. Fan-out: signatures, private,
typing, update and unroutable events, the limit of five streams. Flows: hashing,
addresses, wording, the sessions a reset deletes, the audit log of administrators.
Bridge: payloads and request formats. Outbox: attachments (not queued) and other
users of the device. Chat page: the composer, unread marks, typing, search, media, and
threads that come and go. Client session: several tabs and several users of one device.
Release: the operator's repairs, the upload, the formats of the records, the limit of
the history. Provisioning: tokens, attribute definitions, the repair of an inbox found unlocked
(`EnsureRouting` writes the lock, but the model's inboxes are created with it), a 404
that does not mean that the account is gone, and the script `bootstrap-default-tenant`,
which writes the row of the default tenant from the environment. Push: preferences, which are
a read, the removal of old rows, two requests of one user on one device at a time.

Without a module: presence and typing (an expiring map in memory nothing relies on),
the rate limit (counters of one process), branding (one administrator, two rows and an
object), support availability, profile, health (reads), maintenance (deletions by
age), configuration, e-mail and object storage (wiring and I/O), the pages other than
the chat page (rendering), the caching and updates of the service worker, and the
installation scripts. `PROJECT.json` gives the reason for each. Of the service worker
one thing was seen in reading: after an update by one tab another tab keeps the old
page while the cache of its chunks is gone.

## Plan

Worth modelling next: a composition of `Outbox` with `IdempotentSend` in place of
`Store`, and of `ThreadBootstrap` in place of `Remap`; two tabs of ClientSession; the
caches of the service worker.
