--------------------------- MODULE ClientSession ---------------------------
(***************************************************************************)
(* Who is signed in, in one tab of the portal (AuthSessionProvider).  A    *)
(* tab starts with what localStorage says, asks the server at once, reads  *)
(* the offline store beside it and has a deadline of eight seconds; a      *)
(* check that is not the latest attempt must not decide anything.  Writes  *)
(* of checks and logins go through one queue; signing out does not.        *)
(*                                                                         *)
(* One host, one tenant, one tab.  Every request may fail before or after  *)
(* the server has handled it, every access to the store may fail or hang,  *)
(* and the tab may be reloaded between any two steps.  Expiry and clock    *)
(* of a cached snapshot are a choice at each reading.                      *)
(***************************************************************************)
EXTENDS Naturals, Sequences

CONSTANTS
    Users,
    NoUser,
    Waiting,      \* the answer of a reading that is not there yet
    MaxAttempts,  \* bound: checks and logins
    MaxReloads,   \* bound: times the tab is opened again
    MaxFailures   \* bound: accesses to the store or logouts that fail, lost sessions

ASSUME SessionAssumption ==
    /\ {NoUser, "failed", "error"} \cap Users = {}
    /\ NoUser \notin {"failed", "error"}
    /\ Waiting \notin [who : Users \cup {NoUser}, scope : Users \cup {NoUser}]
    /\ MaxAttempts \in Nat

VARIABLES
    session,      \* server: the user of the tab's cookie
    store,        \* the device: identity, snapshots, signout mark, startup mirror
    page,         \* the provider's state
    mount,        \* scope of the startup session the tab was opened with
    attempt,      \* startupAttemptRef
    timer,        \* attempt whose deadline of eight seconds is set, or 0
    check,        \* every attempt: its request, its reading of the store, its outcome
    queue,        \* the mutation chain: attempts whose writes wait or run
    exit,         \* signing out, or removing the device's data
    entering,     \* user whose login was accepted and is being answered
    reloads, failures,
    gone,         \* history: users who have signed out and not logged in since
    excused       \* history: those among them whose sign-out met a check or had no scope

tab == <<mount, attempt, reloads>>
history == <<failures, gone, excused>>
sessionVars == <<session, store, page, mount, attempt, timer, check, queue, exit,
                 entering, reloads, failures, gone, excused>>

Attempts == 1 .. MaxAttempts
Opt == Users \cup {NoUser}
Blank == [online |-> "done", answer |-> NoUser, target |-> NoUser, pending |-> NoUser,
          reading |-> "done", scope |-> NoUser, found |-> Waiting,
          only |-> FALSE, allow |-> FALSE]
NoExit == [pc |-> "idle", user |-> NoUser, scope |-> NoUser, crossed |-> FALSE]
Nobody == [who |-> NoUser, scope |-> NoUser]
Ended(c) == [c EXCEPT !.online = "done", !.answer = NoUser, !.target = NoUser, !.pending = NoUser]
Page(status, user, source, scope) ==
    [status |-> status, user |-> user, source |-> source, scope |-> scope]

Fault == failures < MaxFailures /\ failures' = failures + 1
Current(a) == attempt = a
Busy == \E a \in Attempts : check[a].online # "done" \/ check[a].reading # "done"
Crossing == [exit EXCEPT !.crossed = (exit.pc # "idle")]

\* an attempt uses its reading while it is the latest one and the page waits for it
NoReading(c) == [c EXCEPT !.only = FALSE, !.allow = FALSE, !.found = Nobody]
Superseded == [a \in Attempts |-> IF Current(a) THEN NoReading(check[a]) ELSE check[a]]

\* resolveCurrentSession up to its first await, from page p
Resolve(p, checks) ==
    LET a == attempt + 1
        waits == p.status # "authenticated"
    IN  /\ a \in Attempts
        /\ attempt' = a
        /\ timer' = IF waits THEN a ELSE 0
        /\ page' = IF waits THEN [p EXCEPT !.status = "checking"] ELSE p
        /\ check' = [checks EXCEPT ![a] =
               [Blank EXCEPT !.online = "asked", !.reading = "read", !.only = waits,
                             !.found = IF waits THEN Waiting ELSE Nobody]]

\* the tab is opened: the mirror in localStorage may show the user at once
Opened(mirror) ==
    IF mirror = NoUser THEN Page("checking", NoUser, "none", NoUser)
    ELSE Page("authenticated", mirror, "cached", mirror)

SessionInit ==
    /\ session \in Opt
    /\ \E u \in Opt :
           store = [identity |-> u, snapshots |-> {u} \ {NoUser}, signout |-> NoUser, startup |-> u]
    /\ page = Page("closed", NoUser, "none", NoUser)
    /\ mount = NoUser
    /\ attempt = 0 /\ timer = 0
    /\ check = [a \in Attempts |-> Blank]
    /\ queue = <<>>
    /\ exit = NoExit
    /\ entering = NoUser
    /\ reloads = 0 /\ failures = 0
    /\ gone = {} /\ excused = {}

Open ==
    /\ reloads <= MaxReloads
    /\ reloads' = reloads + 1
    /\ \E mirror \in {NoUser, store.startup} :
           /\ mount' = mirror
           /\ Resolve(Opened(mirror), [a \in Attempts |-> Blank])
    /\ queue' = <<>> /\ exit' = NoExit /\ entering' = NoUser
    /\ UNCHANGED <<session, store, history>>

\* retry buttons, and every request of the chat that is refused with 401
Refresh ==
    /\ page.status \in {"authenticated", "error", "session_check_required"}
    /\ entering = NoUser
    /\ Resolve(page, Superseded)
    /\ exit' = Crossing
    /\ UNCHANGED <<session, store, mount, queue, entering, reloads, history>>

Expire ==
    /\ session # NoUser /\ session' = NoUser
    /\ Fault
    /\ UNCHANGED <<store, page, timer, check, queue, exit, entering, tab, gone, excused>>
-----------------------------------------------------------------------------
(* The reading of the offline store that every check starts.               *)

Found(a, who, scope) ==
    [check EXCEPT ![a].reading = "done", ![a].scope = NoUser,
                  ![a].found = IF @ = Waiting THEN [who |-> who, scope |-> scope] ELSE @]

\* the mark, the identity, its mark and its snapshot are read one after the other; as each
\* of them can only forbid the opening they are one step here.  Whether the snapshot is
\* valid is the clock's choice; a snapshot that has seen less of the clock is written
\* again in a second transaction, if it is still the same, and mirrored
ReadStore(a) ==
    /\ check[a].reading = "read"
    /\ LET u == store.identity IN
       IF store.signout # NoUser THEN check' = Found(a, NoUser, store.signout)
       ELSE \/ check' = Found(a, NoUser, u)
            \/ /\ u \in store.snapshots
               /\ \/ check' = Found(a, u, u)
                  \/ check' = [check EXCEPT ![a].reading = "observe", ![a].scope = u]
    /\ UNCHANGED <<session, store, page, timer, queue, exit, entering, tab, history>>

ObserveClock(a) ==
    LET u == check[a].scope IN
    /\ check[a].reading = "observe"
    /\ \E who \in {u, NoUser} : check' = Found(a, who, u)
    /\ store' \in {store} \cup {[store EXCEPT !.startup = w] : w \in {u} \cap store.snapshots}
    /\ UNCHANGED <<session, page, timer, queue, exit, entering, tab, history>>

ReadFails(a) ==
    /\ check[a].reading # "done"
    /\ Fault
    /\ check' = Found(a, NoUser, check[a].scope)
    /\ UNCHANGED <<session, store, page, timer, queue, exit, entering, tab,
                   gone, excused>>

\* one second is over: the reading counts as empty and goes on by itself
ReadDeadline(a) ==
    /\ check[a].reading # "done" /\ check[a].found = Waiting
    /\ check' = [check EXCEPT ![a].found = Nobody]
    /\ UNCHANGED <<session, store, page, timer, queue, exit, entering, tab, history>>

UseCached(a, flag) ==
    LET f == check[a].found
        opens == Current(a) /\ page.status = "checking" /\ (f.who # NoUser \/ flag = "allow")
    IN  /\ check[a][flag] /\ f # Waiting
        /\ check' = [check EXCEPT ![a] = IF opens THEN NoReading(@) ELSE [@ EXCEPT ![flag] = FALSE]]
        /\ IF opens
           THEN /\ page' = IF f.who # NoUser THEN Page("authenticated", f.who, "cached", f.who)
                           ELSE Page("session_check_required", NoUser, "none", f.scope)
                /\ timer' = 0
           ELSE UNCHANGED <<page, timer>>
        /\ UNCHANGED <<session, store, queue, exit, entering, tab, history>>

\* what a check that is allowed to ask for a connection does when it cannot go on
OpenCached(a) == \E flag \in {"only", "allow"} : UseCached(a, flag)

\* mutant: the deadline of the screen only clears itself
DeadlineSilent ==
    /\ timer # 0 /\ timer' = 0
    /\ UNCHANGED <<session, store, page, check, queue, exit, entering, tab, history>>

Deadline ==
    /\ timer # 0
    /\ timer' = 0
    /\ check' = [check EXCEPT ![timer].allow = @ \/ (Current(timer) /\ page.status = "checking")]
    /\ UNCHANGED <<session, store, page, queue, exit, entering, tab, history>>
-----------------------------------------------------------------------------
(* The request of a check, and what its answer leads to.                   *)

Serve(a) ==
    /\ check[a].online = "asked"
    /\ \E answer \in {session, "failed", "error"} :
           /\ check' = [check EXCEPT ![a].online = "answered", ![a].answer = answer]
           /\ IF answer = "error" THEN Fault ELSE UNCHANGED failures
    /\ UNCHANGED <<session, store, page, timer, queue, exit, entering, tab,
                   gone, excused>>

Enqueue(a, op, target) ==
    /\ check' = [check EXCEPT ![a].online = op, ![a].target = target]
    /\ queue' = Append(queue, a)

AnswerLate(a) ==
    /\ ~Current(a)
    /\ check' = [check EXCEPT ![a] = Ended(@)]
    /\ UNCHANGED <<page, timer, queue>>

AnswerFailed(a) ==
    /\ Current(a) /\ check[a].answer = "failed"
    /\ check' = [check EXCEPT ![a] =
           [Ended(@) EXCEPT !.allow = check[a].allow \/ page.status = "checking"]]
    /\ UNCHANGED <<page, timer, queue>>

AnswerError(a) ==
    /\ Current(a) /\ check[a].answer = "error"
    /\ check' = [check EXCEPT ![a] = NoReading(Ended(@))]
    /\ page' = Page("error", NoUser, "none", page.scope)
    /\ timer' = 0
    /\ UNCHANGED queue

AnswerNobody(a) ==
    /\ Current(a) /\ check[a].answer = NoUser
    /\ check' = [check EXCEPT ![a].online = "identity", ![a].pending = store.signout]
    /\ UNCHANGED <<page, timer, queue>>

\* mutant: the mark of a sign-out is not looked at
AnswerUserSaves(a) ==
    /\ Current(a) /\ check[a].answer \in Users
    /\ Enqueue(a, "save", check[a].answer)
    /\ UNCHANGED <<page, timer>>

AnswerUser(a) ==
    LET u == check[a].answer IN
    /\ Current(a) /\ u \in Users
    /\ Enqueue(a, IF store.signout = u THEN "leave" ELSE "save", u)
    /\ UNCHANGED <<page, timer>>

Deliver(a) ==
    /\ check[a].online = "answered"
    /\ AnswerLate(a) \/ AnswerFailed(a) \/ AnswerError(a) \/ AnswerNobody(a) \/ AnswerUser(a)
    /\ UNCHANGED <<session, store, exit, entering, tab, history>>

\* nobody is signed in: whose data the device holds
ReadIdentity(a) ==
    /\ check[a].online = "identity"
    /\ Enqueue(a, "reject", IF check[a].pending # NoUser THEN check[a].pending
                            ELSE IF store.identity # NoUser THEN store.identity ELSE mount)
    /\ UNCHANGED <<session, store, page, timer, exit, entering, tab, history>>
-----------------------------------------------------------------------------
(* The mutation chain: the attempt at its head writes.                     *)

Without(u, s) == [s EXCEPT !.identity = IF @ = u THEN NoUser ELSE @,
                           !.snapshots = @ \ {u}, !.startup = NoUser]
Unmarked(u, s) == [s EXCEPT !.signout = IF @ = u THEN NoUser ELSE @]

StepTo(a, pc) == check' = [check EXCEPT ![a].online = pc] /\ UNCHANGED queue
Leave(a, pc) == check' = [check EXCEPT ![a].online = pc] /\ queue' = Tail(queue)

WriteRejected(a) ==
    LET c == check[a] IN
    /\ \/ /\ c.online = "reject" /\ (~Current(a) \/ c.target = NoUser)
          /\ Leave(a, "rejected") /\ UNCHANGED store
       \/ /\ c.online = "reject" /\ Current(a) /\ c.target # NoUser /\ c.pending = NoUser
          /\ store' = Without(c.target, store)
          /\ Leave(a, "rejected")
       \/ /\ c.online = "reject" /\ Current(a) /\ c.pending # NoUser
          /\ store' = Unmarked(c.target, Without(c.target, store))
          /\ StepTo(a, "unblock")
       \/ /\ c.online = "unblock"
          /\ store' = [store EXCEPT !.signout = NoUser]
          /\ Leave(a, "rejected")
    /\ UNCHANGED session

\* the sign-out the device has remembered is told to the server first
WriteLeave(a) ==
    LET c == check[a] IN
    \/ /\ c.online = "leave" /\ ~Current(a)
       /\ Leave(a, "stuck") /\ UNCHANGED <<session, store>>
    \/ /\ c.online = "leave" /\ Current(a)
       /\ session' = NoUser
       /\ StepTo(a, "clear") /\ UNCHANGED store
    \/ /\ c.online = "clear"
       /\ store' = Unmarked(c.target, Without(c.target, store))
       /\ StepTo(a, "unmark") /\ UNCHANGED session
    \/ /\ c.online = "unmark"
       /\ store' = [store EXCEPT !.signout = NoUser]
       /\ Leave(a, "left") /\ UNCHANGED session

\* three accesses; the last one deletes the mark and mirrors the session in localStorage
WriteSession(a) ==
    LET c == check[a] IN
    /\ \/ /\ c.online = "save"
          /\ store' = [store EXCEPT !.identity = c.target]
          /\ StepTo(a, "snapshot")
       \/ /\ c.online = "snapshot"
          /\ store' = [store EXCEPT !.snapshots = @ \cup {c.target}]
          /\ StepTo(a, "mirror")
       \/ /\ c.online = "mirror"
          /\ store' = [store EXCEPT !.signout = NoUser, !.startup = c.target]
          /\ Leave(a, "saved")
    /\ UNCHANGED session

Write ==
    /\ queue # <<>>
    /\ WriteRejected(Head(queue)) \/ WriteLeave(Head(queue)) \/ WriteSession(Head(queue))
    /\ UNCHANGED <<page, timer, exit, entering, tab, history>>

\* a transaction that fails is undone, but the mirror is deleted all the same
Undone == [store EXCEPT !.startup = NoUser]

\* an access fails, or the logout does, or only its answer; a session that cannot be
\* saved is valid all the same, but without a scope
WriteFails ==
    /\ queue # <<>> /\ Fault
    /\ LET a == Head(queue)
           c == check[a]
       IN  /\ queue' = Tail(queue)
           /\ \/ /\ c.online \in {"reject", "unblock"} /\ Current(a) /\ c.target # NoUser
                 /\ check' = [check EXCEPT ![a].online = "rejected", ![a].pending = NoUser]
                 /\ store' = IF c.online = "reject" THEN Undone ELSE store
                 /\ UNCHANGED session
              \/ /\ c.online = "leave" /\ Current(a)
                 /\ check' = [check EXCEPT ![a].online = "stuck"]
                 /\ session' \in {session, NoUser}
                 /\ UNCHANGED store
              \/ /\ c.online \in {"clear", "unmark"}
                 /\ check' = [check EXCEPT ![a].online = "stuck"]
                 /\ store' = IF c.online = "clear" THEN Undone ELSE store
                 /\ UNCHANGED session
              \/ /\ c.online \in {"save", "snapshot", "mirror"}
                 /\ check' = [check EXCEPT ![a].online = "saved", ![a].target = NoUser]
                 /\ UNCHANGED <<session, store>>
    /\ UNCHANGED <<page, timer, exit, entering, tab, gone, excused>>

Outcome(c) ==
    CASE c.online = "saved" -> Page("authenticated", c.answer, "online", c.target)
      [] c.online = "left" -> Page("unauthenticated", NoUser, "none", NoUser)
      [] c.online = "stuck" -> Page("session_check_required", NoUser, "none", c.target)
      [] c.online = "rejected" ->
             Page("unauthenticated", NoUser, "none", IF c.pending # NoUser THEN NoUser ELSE c.target)

Settle(a) ==
    /\ check[a].online \in {"saved", "left", "stuck", "rejected"}
    /\ check' = [check EXCEPT ![a] = NoReading(Ended(@))]
    /\ IF Current(a) THEN page' = Outcome(check[a]) /\ timer' = 0
       ELSE UNCHANGED <<page, timer>>
    /\ UNCHANGED <<session, store, queue, exit, entering, tab, history>>
-----------------------------------------------------------------------------
(* Logging in, signing out, removing the device's data.                    *)

LoginAccepted(u) ==
    /\ page.status \notin {"closed", "checking", "authenticated"}
    /\ entering = NoUser /\ exit.pc = "idle"
    /\ session' = u /\ entering' = u
    /\ gone' = gone \ {u} /\ excused' = excused \ {u}
    /\ UNCHANGED <<store, page, timer, check, queue, exit, failures, tab>>

\* completeAuthenticatedSession: an attempt of its own, which only saves
LoginAnswered ==
    LET a == attempt + 1 IN
    /\ entering # NoUser /\ a \in Attempts
    /\ attempt' = a /\ timer' = 0
    /\ check' = [Superseded EXCEPT ![a] =
           [Blank EXCEPT !.online = "save", !.answer = entering, !.target = entering]]
    /\ queue' = Append(queue, a)
    /\ entering' = NoUser
    /\ exit' = Crossing
    /\ UNCHANGED <<session, store, page, mount, reloads, history>>

StartExit(pc, user) ==
    /\ exit.pc = "idle" /\ entering = NoUser
    /\ exit' = [pc |-> pc, user |-> user, scope |-> page.scope, crossed |-> Busy]
    /\ UNCHANGED <<session, store, page, timer, check, queue, entering, tab, history>>

SignOut == page.status = "authenticated" /\ StartExit("logout", page.user)
RemoveData ==
    /\ page.status = "session_check_required" /\ page.scope # NoUser
    /\ StartExit("mark", page.scope)

Exited(status, scope) ==
    /\ page' = Page(status, NoUser, "none", scope)
    /\ exit' = NoExit
    /\ gone' = gone \cup {exit.user}
    /\ excused' = IF exit.crossed \/ exit.scope # exit.user THEN excused \cup {exit.user}
                  ELSE excused

\* a sign-out ends the session first; a removal is for a device without a connection,
\* and leaves a mark that lets the next check end the session
Exit ==
    /\ \/ /\ exit.pc = "logout" /\ exit.scope = NoUser
          /\ session' = NoUser
          /\ Exited("unauthenticated", NoUser)
          /\ UNCHANGED store
       \/ /\ exit.pc = "logout" /\ exit.scope # NoUser
          /\ session' = NoUser
          /\ exit' = [exit EXCEPT !.pc = "markOut"]
          /\ UNCHANGED <<store, page, gone, excused>>
       \/ /\ exit.pc \in {"mark", "markOut"}
          /\ store' = [store EXCEPT !.signout = exit.scope]
          /\ exit' = [exit EXCEPT !.pc = IF @ = "mark" THEN "clear" ELSE "clearOut"]
          /\ UNCHANGED <<session, page, gone, excused>>
       \/ /\ exit.pc \in {"clear", "clearOut"}
          /\ store' = Without(exit.scope, store)
          /\ IF exit.pc = "clear" THEN Exited("session_check_required", exit.scope)
             ELSE Exited("unauthenticated", NoUser)
          /\ UNCHANGED session
    /\ UNCHANGED <<timer, check, queue, entering, failures, tab>>

\* the logout or an access fails: the page stays as it is
ExitFails ==
    /\ exit.pc # "idle" /\ Fault
    /\ exit' = NoExit
    /\ session' \in IF exit.pc = "logout" THEN {session, NoUser} ELSE {session}
    /\ store' = IF exit.pc \in {"clear", "clearOut"} THEN Undone ELSE store
    /\ UNCHANGED <<page, timer, check, queue, entering, tab, gone, excused>>
-----------------------------------------------------------------------------
SessionNext ==
    \/ Open \/ Refresh \/ Expire \/ Deadline \/ Write \/ WriteFails
    \/ \E a \in Attempts :
          \/ ReadStore(a) \/ ObserveClock(a) \/ ReadFails(a) \/ ReadDeadline(a) \/ OpenCached(a)
          \/ Serve(a) \/ Deliver(a) \/ ReadIdentity(a) \/ Settle(a)
    \/ \E u \in Users : LoginAccepted(u)
    \/ LoginAnswered \/ SignOut \/ RemoveData \/ Exit \/ ExitFails

\* Timers fire, and what they have made possible runs to its end: the deadline of the
\* screen, that of a reading, and the opening from the cache, which needs no answer.
\* No request, no access to the store and no queue is assumed to come to an end.
SessionFairness ==
    /\ WF_sessionVars(Deadline)
    /\ \A a \in Attempts : WF_sessionVars(ReadDeadline(a)) /\ WF_sessionVars(OpenCached(a))

SessionSpec == SessionInit /\ [][SessionNext]_sessionVars /\ SessionFairness

Inside(u) == page.status = "authenticated" /\ page.user = u

\* Who has signed out, or removed the data of the device, does not come back in without
\* a login, whatever is reloaded, fails or is still to be told to the server (the order of
\* signOut and removeLocalDeviceData, and the sign-out record that resolveCurrentSession
\* looks at); except those whose sign-out met a check that was under way.
SignedOutStaysOut == \A u \in gone \ excused :
    ~Inside(u) /\ (session = u => store.signout = u)

\* The same without the exception: a late answer of the server cannot overwrite a newer
\* state (05-frontend-pwa.md:62-65, audit of 2026-07-13).
SignedOutForGood == \A u \in gone : ~Inside(u)

\* The screen that waits for the first answer goes away, whatever hangs
\* (BOOT_ONLINE_REQUIRED_MS and withBootReadDeadline).
BootSettles == page.status = "checking" ~> page.status # "checking"
============================================================================
