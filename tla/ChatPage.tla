------------------------------ MODULE ChatPage ------------------------------
(***************************************************************************)
(* The chat page of the browser (features/chat/pages): what it shows of    *)
(* the conversation, and how it finds back to the server.                  *)
(*                                                                         *)
(* The page is filled by loads (the initial one, or of a thread the user   *)
(* selects), each racing a read of the copy kept on the device; by         *)
(* refreshes of the shown thread (the probe while offline, the resync on   *)
(* resume, the fallback when the stream is silent); by the stream of       *)
(* snapshots; and by pages of older messages.  Every change of the page    *)
(* is saved on the device, and opens or closes the stream.                 *)
(*                                                                         *)
(* A message is its number in the thread.  A snapshot without messages     *)
(* stands for a thread that has no conversation yet.  The tab is visible   *)
(* and the list of threads does not change.                                *)
(***************************************************************************)
EXTENDS Naturals, FiniteSets, Sequences

CONSTANTS
    Threads,      \* the threads of the user
    Private,      \* the one the server proposes ("private:me")
    NoThread,     \* null
    StartLog,     \* messages each thread has at the start
    EndLog,       \* bound of the messages of each thread
    MaxMessages,  \* the largest of these bounds
    PageSize,     \* messages of a snapshot, or of a page of older ones
    CacheLimit,   \* OFFLINE_MESSAGE_SNAPSHOT_LIMIT
    MaxUpsets     \* bound of the events nobody on the page controls: messages, the user, failures

ASSUME PageBounds ==
    /\ Private \in Threads /\ NoThread \notin Threads
    /\ {MaxMessages, MaxUpsets} \subseteq Nat
    /\ {PageSize, CacheLimit} \subseteq Nat \ {0}
    /\ StartLog \in [Threads -> 0..MaxMessages] /\ EndLog \in [Threads -> 0..MaxMessages]

VARIABLES
    log,      \* messages of each thread, in Chatwoot
    due,      \* threads of which a webhook has still to be published
    link,     \* the network: "up", "lost" (unnoticed by the browser), "down"
    wanted,   \* the thread in the address
    page,     \* ChatPageState
    conn,     \* useBrowserConnectionState and chatReachability
    load,     \* the load that holds loadRequestIdRef
    stale,    \* a load that failed before a newer one began, and still awaits
    refresh,  \* the request of refreshChatSnapshot
    older,    \* the request of handleLoadOlderMessages
    stream,   \* the EventSource
    store,    \* what the device keeps
    scars,    \* what went wrong with the page, for the properties
    upsets

pageVars == <<log, due, link, wanted, page, conn, load, stale, refresh, older, stream,
              store, scars, upsets>>
world == <<log, due, link, upsets>>
requests == <<load, stale, refresh, older>>

Numbers == 1..MaxMessages
Shown == [thread : Threads, msgs : SUBSET Numbers, cursor : 0..MaxMessages]
NoSnap == [thread |-> NoThread, msgs |-> {}, cursor |-> 0]
Pages == [status : {"loading", "ready", "error", "gone"}, thread : Threads \union {NoThread},
          cached : BOOLEAN, snap : Shown \union {NoSnap}]
Loads == [phase : {"idle", "threads", "messages", "answered", "lost", "refused", "denied"},
          initial : BOOLEAN, prefer : Threads \union {NoThread},
          thread : Threads \union {NoThread}, fallback : {"reading", "opened", "shut"},
          hint : BOOLEAN, snap : Shown \union {NoSnap}]
Idle == [phase |-> "idle", initial |-> FALSE, prefer |-> NoThread, thread |-> NoThread,
         fallback |-> "shut", hint |-> FALSE, snap |-> NoSnap]
NoRequest == [phase |-> "idle", thread |-> NoThread, snap |-> NoSnap]
NoOlder == [thread |-> NoThread, cursor |-> 0]
Failing == {"lost", "refused", "denied"}

Least(S) == CHOOSE i \in S : \A j \in S : i <= j
Most(S) == CHOOSE i \in S : \A j \in S : j <= i

-----------------------------------------------------------------------------
(* Snapshots. *)

\* Mutant of Window: the start of the window is not kept within the messages.
WindowFromZero(t, before) ==
    LET first == IF before >= PageSize THEN before - PageSize ELSE 0 IN
    [thread |-> t, msgs |-> first..(before - 1), cursor |-> IF first > 1 THEN first ELSE 0]

\* What the server answers: the newest messages before a cursor, or of all.
Window(t, before) ==
    LET first == IF before > PageSize THEN before - PageSize ELSE 1 IN
    [thread |-> t, msgs |-> first..(before - 1), cursor |-> IF first > 1 THEN first ELSE 0]

Latest(t) == Window(t, log[t] + 1)

MergeRealtime(cur, new) ==
    IF cur.msgs = {} \/ new.msgs = {} \/ cur.thread # new.thread THEN new
    ELSE [new EXCEPT !.msgs = cur.msgs \union @,
                     !.cursor = IF cur.cursor # 0 THEN cur.cursor ELSE @]

MergeOlder(cur, old) == [old EXCEPT !.msgs = @ \union cur.msgs]

\* Mutant of Bounded: a trimmed copy keeps the cursor of the whole.
BoundedCursorKept(s) ==
    IF Cardinality(s.msgs) <= CacheLimit THEN s
    ELSE [s EXCEPT !.msgs = CHOOSE S \in SUBSET @ :
                       Cardinality(S) = CacheLimit /\ \A i \in S, j \in @ \ S : j < i]

Bounded(s) ==
    IF Cardinality(s.msgs) <= CacheLimit THEN s
    ELSE LET kept == CHOOSE S \in SUBSET s.msgs :
                        Cardinality(S) = CacheLimit /\ \A i \in S, j \in s.msgs \ S : j < i
         IN  [s EXCEPT !.msgs = kept, !.cursor = Least(kept)]

\* The three ways in which messages are lost from sight: a refresh that begins
\* beyond what is shown, a page of older messages that ends below what is shown
\* by now, and a copy that is cut below a gap of the page and begins there.
Skips(cur, new) ==
    /\ cur.msgs # {} /\ new.msgs # {} /\ cur.cursor # 0
    /\ Most(cur.msgs) + 1 < Least(new.msgs)
Misses(cur, cursor) == cursor < cur.cursor
Hides(s) == Bounded(s).cursor < s.cursor

-----------------------------------------------------------------------------
(* The connection, and what follows from a change of the page. *)

Status == IF conn.browser THEN conn.reach ELSE "offline"
CanUseBackend == Status = "online"
Navigator == link # "down"

MarkedOnline == [hint |-> TRUE, browser |-> TRUE, reach |-> "online"]
MarkedOffline == [hint |-> Navigator, browser |-> FALSE, reach |-> "offline"]

RealtimeThread(p) ==
    IF p.status = "ready" /\ ~p.cached /\ p.snap.msgs # {} THEN p.thread ELSE NoThread

Ready(t, cached, snap) ==
    [status |-> "ready", thread |-> t, cached |-> cached, snap |-> snap]

\* A save goes through: an IndexedDB write of the page outlasts nothing here.
Saved(p) ==
    IF p.cached \/ p.thread = NoThread \/ p.status = "gone" THEN store
    ELSE IF p.status # "ready" THEN [store EXCEPT !.active = p.thread]
    ELSE [store EXCEPT !.active = p.thread,
                       !.snaps[p.thread] = Bounded(p.snap),
                       !.startup = [thread |-> p.thread, snap |-> Bounded(p.snap)]]

Connected(open, t) ==
    IF t = open.thread THEN open
    ELSE [thread |-> t, state |-> IF t = NoThread THEN "closed" ELSE "connecting",
          events |-> <<>>]

\* The page becomes p while the connection becomes c; kept and open are the
\* saved copies and the stream but for what follows from p.  The marks record
\* that the step lost sight of messages ("torn"), or took the page for online
\* and left the copy of the device on it ("stray").
Mark(x, condition) == IF condition THEN {x} ELSE {}
Put(p, c, marks, kept, open) ==
    /\ page' = p
    /\ conn' = c
    /\ store' = kept
    /\ stream' = Connected(open, RealtimeThread(p))
    /\ scars' = marks \union Mark("torn", p.status = "ready" /\ ~p.cached /\ Hides(p.snap))
                     \union {x \in scars : x = "stray" => p.status = "ready" /\ p.cached}

Show(p, c, marks) == Put(p, c, marks, Saved(p), stream)
Keep(c) == Show(page, c, {})
Untouched == UNCHANGED <<page, conn, store, stream, scars>>

OnCopy == page.status = "ready" /\ page.cached

Upset == upsets < MaxUpsets /\ upsets' = upsets + 1

-----------------------------------------------------------------------------
(* Loads. *)

\* Of two loads that fail, the model keeps one besides the newest.
Begin(initial, t) ==
    /\ ~(load.phase \in Failing /\ stale.phase \in Failing)
    /\ stale' = IF load.phase \in Failing THEN load ELSE stale
    /\ load' = [phase |-> IF initial THEN "threads" ELSE "messages", initial |-> initial,
                prefer |-> t, thread |-> t, fallback |-> "reading", hint |-> conn.hint,
                snap |-> NoSnap]

LoadInitialChat(c) ==
    /\ Begin(TRUE, page.thread)
    /\ Show(IF page.status = "ready" THEN page ELSE [page EXCEPT !.status = "loading"], c, {})

HandleSelectThread ==
    /\ page.status = "ready" /\ wanted \notin {NoThread, page.thread}
    /\ Begin(FALSE, wanted)
    /\ Show([status |-> "loading", thread |-> wanted, cached |-> page.cached, snap |-> NoSnap],
            conn, {})
    /\ UNCHANGED <<world, wanted, refresh, older>>

ThreadsAnswered ==
    /\ load.phase = "threads" /\ link = "up"
    /\ LET t == IF wanted # NoThread THEN wanted
                ELSE IF page.thread # NoThread THEN page.thread ELSE Private
       IN  /\ load' = [load EXCEPT !.phase = "messages", !.thread = t]
           /\ store' = [store EXCEPT !.active = t]
    /\ UNCHANGED <<world, wanted, page, conn, stale, refresh, older, stream, scars>>

MessagesAnswered ==
    /\ load.phase = "messages" /\ link = "up"
    /\ load' = [load EXCEPT !.phase = "answered", !.snap = Latest(load.thread)]
    /\ UNCHANGED <<world, wanted, stale, refresh, older>>
    /\ Untouched

LoadArrives ==
    /\ load.phase = "answered" /\ link = "up"
    /\ load' = Idle
    /\ Show(Ready(load.thread, FALSE, load.snap), MarkedOnline, {})
    /\ UNCHANGED <<world, wanted, stale, refresh, older>>

\* The cached fallback: the selected thread as the device has it.
CachedThread(prefer) == IF prefer # NoThread THEN prefer ELSE store.active

OpenCachedChatFallback ==
    /\ load.fallback = "reading" /\ load.phase \notin {"idle", "refused"}
    /\ LET t == CachedThread(load.prefer) IN
       /\ t # NoThread /\ store.snaps[t] # NoSnap
       /\ Show(IF page.status = "ready" /\ page.cached /\ page.thread = t THEN page
               ELSE Ready(t, TRUE, store.snaps[t]),
               [(IF load.hint THEN conn ELSE MarkedOffline) EXCEPT
                   !.reach = IF load.hint /\ load.phase # "lost" THEN "connecting" ELSE "offline"],
               {})
    /\ load' = IF load.phase = "lost" THEN Idle ELSE [load EXCEPT !.fallback = "opened"]
    /\ UNCHANGED <<world, wanted, stale, refresh, older>>

\* The last lines of the catch, after the fallback is known.
ErrorPage(l) ==
    [status |-> "error", thread |-> IF l.initial THEN page.thread ELSE l.thread,
     cached |-> FALSE, snap |-> NoSnap]

Settle(l, c) ==
    IF l.phase = "lost"
    THEN IF l.fallback = "opened" \/ (l.initial /\ page.status = "ready" /\ page.cached)
         THEN Show(page, [c EXCEPT !.reach = "offline"], {})
         ELSE Show(ErrorPage(l), [c EXCEPT !.reach = "offline"], {})
    ELSE Show(ErrorPage(l), c, {})

\* The read on the device ends without a copy, or after its deadline.
FallbackShut ==
    /\ load.fallback = "reading" /\ load.phase # "idle"
    /\ IF load.phase \in {"lost", "refused"}
       THEN load' = Idle /\ Settle([load EXCEPT !.fallback = "shut"], conn)
       ELSE load' = [load EXCEPT !.fallback = "shut"] /\ Untouched
    /\ UNCHANGED <<world, wanted, stale, refresh, older>>

\* The same for a load that is no longer the newest: its identity was
\* checked before the await, and is not checked again.
StaleSettles ==
    /\ stale.phase \in {"lost", "refused"}
    /\ stale' = Idle
    /\ Settle([stale EXCEPT !.fallback = "shut"], conn)
    /\ UNCHANGED <<world, wanted, load, refresh, older>>

\* The request fails: no answer (also after 10 s), an error, or a 401.
CatchLoad(phase, c) ==
    LET l == [load EXCEPT !.phase = phase] IN
    IF l.fallback = "reading" THEN load' = l /\ Keep(c) ELSE load' = Idle /\ Settle(l, c)

InFlight(phase) == phase \in {"threads", "messages", "answered"}

LoadLost ==
    /\ InFlight(load.phase)
    /\ IF link = "up" THEN Upset ELSE UNCHANGED upsets
    /\ CatchLoad("lost", MarkedOffline)
    /\ UNCHANGED <<log, due, link, wanted, stale, refresh, older>>

LoadRefused ==
    /\ InFlight(load.phase) /\ link = "up" /\ Upset
    /\ CatchLoad("refused", MarkedOnline)
    /\ UNCHANGED <<log, due, link, wanted, stale, refresh, older>>

LoadDenied ==
    /\ InFlight(load.phase) /\ link = "up" /\ Upset
    /\ load' = [load EXCEPT !.phase = "denied"]
    /\ UNCHANGED <<log, due, link, wanted, stale, refresh, older>>
    /\ Untouched

\* refreshSession could not reach the server either: nothing more happens.
SessionUnknown ==
    /\ \/ /\ load.phase = "denied" /\ load' = Idle /\ UNCHANGED stale
       \/ /\ stale.phase = "denied" /\ stale' = Idle /\ UNCHANGED load
    /\ scars' = scars \union {"unchecked"}
    /\ UNCHANGED <<world, wanted, page, conn, refresh, older, stream, store>>

-----------------------------------------------------------------------------
(* Refreshes of the shown thread. *)

Ask == refresh' = [phase |-> "asked", thread |-> page.thread, snap |-> NoSnap]

Probe ==
    /\ Status = "offline" /\ page.status = "ready" /\ conn.hint
    /\ refresh.phase = "idle" /\ Ask
    /\ UNCHANGED <<world, wanted, load, stale, older>> /\ Untouched

\* Mutant of HealthFallback: a stream that was given up is not made up for.
HealthFallbackOpenOnly ==
    /\ CanUseBackend /\ stream.state = "open"
    /\ refresh.phase = "idle" /\ Ask
    /\ UNCHANGED <<world, wanted, load, stale, older>> /\ Untouched

HealthFallback ==
    /\ CanUseBackend /\ stream.thread # NoThread
    /\ refresh.phase = "idle" /\ Ask
    /\ UNCHANGED <<world, wanted, load, stale, older>> /\ Untouched

\* A resync while a refresh is on its way leaves it at that.
Resync(c) ==
    IF page.cached \/ page.snap = NoSnap
    THEN LoadInitialChat(c) /\ UNCHANGED refresh
    ELSE /\ IF refresh.phase = "idle" THEN Ask ELSE UNCHANGED refresh
         /\ UNCHANGED <<load, stale>>
         /\ Keep(c)

\* The tab becomes visible.
Resume ==
    /\ page.status # "gone" /\ Upset
    /\ LET c == [conn EXCEPT !.hint = Navigator, !.browser = @ /\ Navigator] IN
       IF conn.browser \/ conn.hint THEN Resync(c) ELSE Keep(c) /\ UNCHANGED <<load, stale, refresh>>
    /\ UNCHANGED <<log, due, link, wanted, older>>

\* A push of the shown thread reaches the page instead of a notification.
PushMessage ==
    /\ page.status = "ready" /\ page.snap.msgs # {} /\ link = "up" /\ Upset
    /\ refresh.phase = "idle" /\ Ask
    /\ UNCHANGED <<log, due, link, wanted, load, stale, older>> /\ Untouched

RefreshAnswered ==
    /\ refresh.phase = "asked" /\ link = "up"
    /\ refresh' = [refresh EXCEPT !.phase = "answered", !.snap = Latest(refresh.thread)]
    /\ UNCHANGED <<world, wanted, load, stale, older>> /\ Untouched

\* Mutant of Refreshed: the thread of the answer is not compared with the selected one.
RefreshedAny(t, new) ==
    Ready(page.thread, FALSE, IF page.status = "ready" THEN MergeRealtime(page.snap, new) ELSE new)

\* Mutant of Refreshed: the page keeps the mark of a cached one, as with older messages.
RefreshedStillCached(t, new) ==
    IF page.thread # t THEN page
    ELSE Ready(t, page.cached,
               IF page.status = "ready" THEN MergeRealtime(page.snap, new) ELSE new)

\* The page after a snapshot of thread t, if it still shows that thread.
Refreshed(t, new) ==
    IF page.thread # t THEN page
    ELSE Ready(t, FALSE, IF page.status = "ready" THEN MergeRealtime(page.snap, new) ELSE new)

RefreshArrives ==
    /\ refresh.phase = "answered" /\ link = "up"
    /\ refresh' = NoRequest
    /\ Show(Refreshed(refresh.thread, refresh.snap), MarkedOnline,
            IF page.thread = refresh.thread
            THEN Mark("torn", Skips(page.snap, refresh.snap))
            ELSE Mark("stray", OnCopy))
    /\ UNCHANGED <<world, wanted, load, stale, older>>

RefreshFails ==
    /\ refresh.phase # "idle"
    /\ refresh' = NoRequest
    /\ \/ (IF link = "up" THEN Upset ELSE UNCHANGED upsets) /\ Keep(MarkedOffline)
       \/ link = "up" /\ Upset /\ Untouched
    /\ UNCHANGED <<log, due, link, wanted, load, stale, older>>

-----------------------------------------------------------------------------
(* Older messages. *)

HandleLoadOlderMessages ==
    /\ page.status = "ready" /\ page.snap.cursor # 0
    /\ CanUseBackend /\ older = NoOlder
    /\ older' = [thread |-> page.thread, cursor |-> page.snap.cursor]
    /\ UNCHANGED <<world, wanted, load, stale, refresh>> /\ Untouched

\* A page of older messages joins the thread it was asked for.
WithOlder(cached) ==
    IF page.status = "ready" /\ page.thread = older.thread
    THEN Ready(page.thread, cached, MergeOlder(page.snap, Window(older.thread, older.cursor)))
    ELSE page

Tear ==
    Mark("torn", page.status = "ready" /\ page.thread = older.thread
                 /\ Misses(page.snap, older.cursor))

OlderArrives ==
    /\ older # NoOlder /\ link = "up"
    /\ older' = NoOlder
    /\ LET p == WithOlder(FALSE) IN
       Put(p, MarkedOnline, Tear \union Mark("stray", p.status = "ready" /\ p.cached),
           [Saved(p) EXCEPT !.olderPages = @ \union {older}], stream)
    /\ UNCHANGED <<world, wanted, load, stale, refresh>>

\* No answer: the page the device has kept of an earlier request will do.
OlderFails ==
    /\ older # NoOlder
    /\ older' = NoOlder
    /\ \/ /\ IF link = "up" THEN Upset ELSE UNCHANGED upsets
          /\ IF older \in store.olderPages
             THEN Show(WithOlder(page.cached), MarkedOffline, Tear)
             ELSE Keep(MarkedOffline)
       \/ link = "up" /\ Upset /\ Untouched
    /\ UNCHANGED <<log, due, link, wanted, load, stale, refresh>>

-----------------------------------------------------------------------------
(* The stream of snapshots. *)

StreamOpens ==
    /\ stream.state = "connecting" /\ link = "up"
    /\ Put(page, MarkedOnline, {}, store, [stream EXCEPT !.state = "open"])
    /\ UNCHANGED <<world, wanted, requests>>

\* The server refuses the stream (too many of them): the browser gives up.
StreamRefused ==
    /\ stream.state = "connecting" /\ link = "up" /\ Upset
    /\ stream' = [stream EXCEPT !.state = "closed"]
    /\ UNCHANGED <<log, due, link, wanted, page, conn, requests, store, scars>>

\* The connection of the stream breaks; the browser opens it again.
StreamBreaks ==
    /\ stream.state = "open" /\ Upset
    /\ stream' = [stream EXCEPT !.state = "connecting", !.events = <<>>]
    /\ UNCHANGED <<log, due, link, wanted, page, conn, requests, store, scars>>

OnMessages ==
    /\ stream.events # <<>>
    /\ LET new == Head(stream.events) IN
       Put(Ready(page.thread, FALSE, MergeRealtime(page.snap, new)), MarkedOnline,
           Mark("torn", Skips(page.snap, new)),
           Saved(Ready(page.thread, FALSE, MergeRealtime(page.snap, new))),
           [stream EXCEPT !.events = Tail(@)])
    /\ UNCHANGED <<world, wanted, requests>>

-----------------------------------------------------------------------------
(* The world. *)

NewMessage(t) ==
    /\ log[t] < EndLog[t] /\ Upset
    /\ log' = [log EXCEPT ![t] = @ + 1]
    /\ due' = due \union {t}
    /\ UNCHANGED <<link, wanted, page, conn, requests, stream, store, scars>>

\* publishThreadMessages: whoever is subscribed gets the snapshot of this
\* moment, one waiting at a time; nobody else ever does.
Publish(t) ==
    /\ t \in due
    /\ due' = due \ {t}
    /\ IF stream.state = "open" /\ stream.thread = t /\ link = "up"
       THEN stream.events = <<>> /\ stream' = [stream EXCEPT !.events = <<Latest(t)>>]
       ELSE UNCHANGED stream
    /\ UNCHANGED <<log, link, wanted, page, conn, requests, store, scars, upsets>>

LoseLink ==
    /\ link = "up" /\ Upset
    /\ link' = "lost"
    /\ UNCHANGED <<log, due, wanted, page, conn, requests, stream, store, scars>>

\* The browser notices: the "offline" event.
GoOffline ==
    /\ link # "down" /\ page.status # "gone" /\ Upset
    /\ link' = "down"
    /\ conn' = [conn EXCEPT !.hint = FALSE, !.browser = FALSE]
    /\ stream' = IF stream.state = "open"
                 THEN [stream EXCEPT !.state = "connecting", !.events = <<>>] ELSE stream
    /\ UNCHANGED <<log, due, wanted, page, requests, store, scars>>

\* The link is back, with the "online" event if the browser had noticed.
ComeBack ==
    /\ link # "up"
    /\ link' = "up"
    /\ IF link = "down" /\ page.status # "gone"
       THEN Resync([conn EXCEPT !.hint = TRUE, !.browser = TRUE])
       ELSE UNCHANGED <<load, stale, refresh>> /\ Untouched
    /\ UNCHANGED <<log, due, wanted, older, upsets>>

\* Another request of the page (information, media, search, unread counts,
\* availability) is answered, or is not.
OtherRequest ==
    /\ page.status # "gone" /\ Upset
    /\ \/ link = "up" /\ Show(page, MarkedOnline, Mark("stray", OnCopy))
       \/ Keep(MarkedOffline)
    /\ UNCHANGED <<log, due, link, wanted, requests>>

SelectThread(t) ==
    /\ page.status # "gone" /\ t # wanted /\ Upset
    /\ wanted' = t
    /\ UNCHANGED <<log, due, link, page, conn, requests, stream, store, scars>>

Retry ==
    /\ page.status = "error" /\ Upset
    /\ LoadInitialChat(conn)
    /\ UNCHANGED <<log, due, link, wanted, refresh, older>>

NoPage == [status |-> "gone", thread |-> NoThread, cached |-> FALSE, snap |-> NoSnap]

\* A 401 to any request: refreshSession finds the session ended.
SessionEnds ==
    /\ link = "up"
    /\ \/ load.phase = "denied" \/ stale.phase = "denied"
       \/ (refresh.phase # "idle" \/ older # NoOlder) /\ upsets < MaxUpsets
    /\ load' = Idle /\ stale' = Idle /\ refresh' = NoRequest /\ older' = NoOlder
    /\ Show(NoPage, conn, {})
    /\ UNCHANGED <<world, wanted>>

\* readStartupChatFallback: the copy of the last shown thread, unless the
\* address names another one.
Startup ==
    LET r == store.startup IN
    IF r.thread # NoThread /\ wanted \in {NoThread, r.thread}
    THEN Ready(r.thread, TRUE, r.snap)
    ELSE [status |-> "loading", thread |-> NoThread, cached |-> FALSE, snap |-> NoSnap]

\* The page is closed and opened again.
Reload ==
    /\ Upset
    /\ LET p == Startup IN
       /\ page' = p /\ scars' = {x \in scars : x = "torn"}
       /\ load' = [Idle EXCEPT !.phase = "threads", !.initial = TRUE, !.prefer = p.thread,
                               !.thread = p.thread, !.fallback = "reading", !.hint = Navigator]
    /\ conn' = [hint |-> Navigator, browser |-> Navigator,
                reach |-> IF Navigator THEN "connecting" ELSE "offline"]
    /\ stale' = Idle /\ refresh' = NoRequest /\ older' = NoOlder
    /\ stream' = Connected(stream, NoThread)
    /\ UNCHANGED <<log, due, link, wanted, store>>

-----------------------------------------------------------------------------
PageInit ==
    /\ log = StartLog /\ due = {} /\ link = "up" /\ wanted = NoThread
    /\ page = [status |-> "loading", thread |-> NoThread, cached |-> FALSE, snap |-> NoSnap]
    /\ conn = [hint |-> TRUE, browser |-> TRUE, reach |-> "connecting"]
    /\ load = [Idle EXCEPT !.phase = "threads", !.initial = TRUE, !.fallback = "reading",
                           !.hint = TRUE]
    /\ stale = Idle /\ refresh = NoRequest /\ older = NoOlder
    /\ stream = [thread |-> NoThread, state |-> "closed", events |-> <<>>]
    /\ store = [active |-> NoThread, snaps |-> [t \in Threads |-> NoSnap],
                startup |-> [thread |-> NoThread, snap |-> NoSnap], olderPages |-> {}]
    /\ scars = {} /\ upsets = 0

PageNext ==
    \/ HandleSelectThread \/ ThreadsAnswered \/ MessagesAnswered \/ LoadArrives
    \/ OpenCachedChatFallback \/ FallbackShut \/ StaleSettles
    \/ LoadLost \/ LoadRefused \/ LoadDenied \/ SessionUnknown \/ SessionEnds
    \/ Probe \/ HealthFallback \/ Resume \/ PushMessage
    \/ RefreshAnswered \/ RefreshArrives \/ RefreshFails
    \/ HandleLoadOlderMessages \/ OlderArrives \/ OlderFails
    \/ StreamOpens \/ StreamRefused \/ StreamBreaks \/ OnMessages
    \/ \E t \in Threads : NewMessage(t) \/ Publish(t) \/ SelectThread(t)
    \/ LoseLink \/ GoOffline \/ ComeBack \/ OtherRequest \/ Retry \/ Reload

PageSpec == PageInit /\ [][PageNext]_pageVars

\* The effects and timers of the page run, a request is answered or given up
\* after ten seconds, the network comes back.  Steps of the first kind are
\* finitely many once nobody disturbs the page; the refreshes take turns.
Advance ==
    \/ HandleSelectThread \/ ThreadsAnswered \/ MessagesAnswered \/ LoadArrives
    \/ FallbackShut \/ StaleSettles \/ SessionUnknown \/ OlderArrives \/ OnMessages \/ ComeBack
KeepFresh == Probe \/ HealthFallback \/ RefreshAnswered \/ RefreshArrives

PageFairness == WF_pageVars(Advance) /\ WF_pageVars(KeepFresh)

PageFairSpec == PageSpec /\ PageFairness

-----------------------------------------------------------------------------
(* Properties. *)

\* Every variable of the page keeps its type.
PageTypeOK ==
    /\ log \in [Threads -> 0..MaxMessages] /\ due \subseteq Threads
    /\ link \in {"up", "lost", "down"} /\ wanted \in Threads \union {NoThread}
    /\ page \in Pages /\ load \in Loads /\ stale \in Loads
    /\ conn \in [hint : BOOLEAN, browser : BOOLEAN, reach : {"connecting", "offline", "online"}]
    /\ refresh \in [phase : {"idle", "asked", "answered"}, thread : Threads \union {NoThread},
                    snap : Shown \union {NoSnap}]
    /\ older \in [thread : Threads \union {NoThread}, cursor : 0..MaxMessages]
    /\ stream \in [thread : Threads \union {NoThread}, state : {"closed", "connecting", "open"},
                   events : Seq(Shown)]
    /\ store \in [active : Threads \union {NoThread}, snaps : [Threads -> Shown \union {NoSnap}],
                  startup : [thread : Threads \union {NoThread}, snap : Shown \union {NoSnap}],
                  olderPages : SUBSET [thread : Threads, cursor : Numbers]]
    /\ scars \subseteq {"torn", "stray", "unchecked"} /\ upsets \in 0..MaxUpsets

\* Whatever answers arrive late, from the server, the stream or the device,
\* the messages shown are those of the selected thread, and so are the ones
\* kept on the device for a thread.
TranscriptOfSelected ==
    /\ page.status = "ready" => page.snap.thread = page.thread
    /\ \A t \in Threads : store.snaps[t].thread \in {NoThread, t}
    /\ store.startup.snap.thread = store.startup.thread

\* No message is lost from sight: one that is older than the newest shown is
\* shown itself or comes with the next pages of older messages; so it is with
\* the copies on the device, bounded as they are.  Not so once a snapshot
\* skipped messages, a page of older ones met another transcript, or a copy
\* was cut below a gap.
Complete(s) == \A i \in Numbers : (\E j \in s.msgs : i < j) => i \in s.msgs \/ i < s.cursor
OlderReachable ==
    "torn" \notin scars =>
        /\ Complete(page.snap) /\ Complete(store.startup.snap)
        /\ \A t \in Threads : Complete(store.snaps[t])

\* A page that counts as online shows what came from the server, not the copy
\* of the device, unless a load is still on its way, or another request was
\* answered while the copy was shown.
OnlineIsLive ==
    CanUseBackend /\ OnCopy =>
        "stray" \in scars \/ load.phase # "idle" \/ stale.phase # "idle"

\* Once the disturbances end, the page comes to show the newest message of its
\* thread, online, and stays so.  The exceptions: the error screen (it waits
\* for the user), a session that ended or could not be checked, a thread
\* without a conversation (no stream is opened), and the stray page above.
UpToDate ==
    /\ page.status = "ready" /\ ~page.cached /\ CanUseBackend
    /\ log[page.thread] \in page.snap.msgs
Excused ==
    \/ page.status \in {"error", "gone"}
    \/ "unchecked" \in scars
    \/ page.status = "ready" /\ page.snap.msgs = {}
    \/ "stray" \in scars /\ CanUseBackend
PageCatchesUp == <>[](UpToDate \/ Excused)

=============================================================================
