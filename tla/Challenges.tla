---------------------------- MODULE Challenges ----------------------------
(***************************************************************************)
(* What the four flows that prove an email address with a mailed code      *)
(* share: the rows of verification_records (portal_admin_login_challenges  *)
(* for administrators), the requests that store and mail a code, and the   *)
(* requests that finish a verified challenge.  One tenant, one email; the  *)
(* flow is fixed in the initial state.                                     *)
(*                                                                         *)
(* Every transaction of these flows takes pg_advisory_xact_lock on the     *)
(* purpose and the email before it reads anything, so it is one action;    *)
(* the clock is read before the lock, so a transaction works with a time   *)
(* that may have passed.  A code is named by the request that made it; the *)
(* hash, the address and the wording of the mail are left out.             *)
(***************************************************************************)
EXTENDS Naturals, FiniteSets

CONSTANTS
    Requests,     \* the requests for a code, each made once
    Finishers,    \* the requests that finish a challenge (acceptLegal, setPassword of the set-up)
    NoRequest,    \* no code
    MaxNow,       \* bound of the clock
    Ttl,          \* lifetime of a code (15 minutes)
    Cooldown,     \* time between two codes (60 seconds)
    TokenTtl,     \* lifetime of a continuation token (15 minutes)
    MaxAttempts,  \* wrong codes a challenge survives, plus one (5)
    MaxWait,      \* bound of the time a verification waits for the lock
    MaxTokens,    \* bound of the continuation tokens issued
    MaxVersion,   \* bound of the versions of a legal document
    MaxEvents     \* bound of the events from outside and of the requests that stop half-way

ASSUME BoundsAssumption ==
    /\ IsFiniteSet(Requests)
    /\ NoRequest \notin Requests
    /\ {Ttl, Cooldown, TokenTtl, MaxAttempts, MaxVersion} \subseteq Nat \ {0}
    /\ {MaxNow, MaxWait, MaxTokens, MaxEvents} \subseteq Nat

VARIABLES
    flow,       \* which flow the rows belong to
    now,        \* the clock
    rows,       \* the table, by id (ids grow with the insertions)
    req,        \* the requests for a code
    finish,     \* the requests that finish a challenge
    delivered,  \* the codes in the mailbox
    tokens,     \* continuation tokens issued so far
    account,    \* the portal user of the email: "none", "active", "inactive"
    contact,    \* does Chatwoot know a contact with the email
    password,   \* who set the password of the user
    proofUntil, \* emailProofExpiresAt of the session that asks for a setup
    legal,      \* active version of each legal document, 0 before the first
    accepted,   \* portal_legal_acceptances of the user: pairs of versions
    uses,       \* how often a code has opened a session or set a password
    guesses,    \* wrong codes entered while a code was the pending one
    lost,       \* requests that have stopped half-way
    events      \* events from outside so far

table == <<rows, tokens>>
identity == <<account, contact, proofUntil>>
law == <<legal, accepted>>
vars == <<flow, now, rows, req, finish, delivered, tokens, account, contact,
          password, proofUntil, legal, accepted, uses, guesses, lost, events>>

Flows == {"login", "setup", "reset", "admin"}
RowIds == 1 .. Cardinality(Requests)
Documents == {"terms", "privacy"}
Versions == [Documents -> 0 .. MaxVersion]
Active == {"pending", "sending"}
Stored == {"sending", "pending", "verified", "consumed", "expired", "invalidated"}
InFlight == {"begun", "ready", "hashed", "mailing", "refused", "mailed"}
NoId == 0

NoRow == [status |-> "none", code |-> NoRequest, expires |-> 0, resend |-> 0,
          attempts |-> 0, user |-> FALSE, contact |-> FALSE,
          token |-> 0, tokenExpires |-> 0]
Idle == [pc |-> "new", at |-> 0, contact |-> FALSE, id |-> NoId, previous |-> NoRow]
NoFinish == [pc |-> "idle", at |-> 0, token |-> 0, from |-> [d \in Documents |-> 0],
             seen |-> [d \in Documents |-> 0], read |-> {}]

----------------------------------------------------------------------------
(* The queries and updates of the repositories.                            *)

WithStatus(S) == {i \in RowIds : rows[i].status \in S}
Latest(S) == IF WithStatus(S) = {} THEN NoId
             ELSE CHOOSE i \in WithStatus(S) : \A j \in WithStatus(S) : j <= i
NextId == CHOOSE i \in RowIds : /\ rows[i].status = "none"
                                /\ \A j \in RowIds : j < i => rows[j].status # "none"

Expired(row, at) == row.expires <= at
ResendLocked(row, at) == row.resend > at

Fresh(r, status) ==
    [NoRow EXCEPT !.status = status, !.code = r, !.expires = req[r].at + Ttl,
                  !.resend = req[r].at + Cooldown]

SetStatus(i, status) == [rows EXCEPT ![i].status = status]
\* the other columns of a row that is over are not read again
Close(i, status) == [rows EXCEPT ![i] = [NoRow EXCEPT !.status = status, !.code = rows[i].code]]
\* a mistake: the condition of the DELETE matches nothing
DeleteNothing(i) == rows
Delete(i) == [rows EXCEPT ![i] = [NoRow EXCEPT !.status = "deleted"]]

\* a mistake: the clean-up looks at the id only, not at the code in the row
OwnsById(r) ==
    LET i == Latest(Stored)
    IN  i # NoId /\ i = req[r].id /\ rows[i].status = "pending"

\* the latest row is still the one request r stored
Owns(r) ==
    LET i == Latest(Stored)
    IN  /\ i # NoId
        /\ i = req[r].id
        /\ rows[i].status = "pending"
        /\ rows[i].code = r

\* a wrong code: counted, and the row is invalidated with the last attempt
WrongCode(i) ==
    LET n == rows[i].attempts + 1
    IN  /\ rows' = IF n >= MaxAttempts THEN Close(i, "invalidated")
                   ELSE [rows EXCEPT ![i].attempts = n]
        /\ guesses' = [guesses EXCEPT ![rows[i].code] = @ + 1]

\* the pending row becomes verified and a continuation token is issued
IssueToken(i, at) ==
    /\ tokens < MaxTokens
    /\ tokens' = tokens + 1
    /\ rows' = [rows EXCEPT ![i].status = "verified", ![i].token = tokens + 1,
                            ![i].tokenExpires = at + TokenTtl]

Grant(code) == uses' = [uses EXCEPT ![code] = @ + 1]

\* with the last step of a request its local variables are gone
Goto(r, pc) == req' = [req EXCEPT ![r] = IF pc = "done" THEN [Idle EXCEPT !.pc = "done"]
                                         ELSE [@ EXCEPT !.pc = pc]]

\* the request has stored its code in row i, over a copy of what was there
Store(r, i, previous, mailed) ==
    IF mailed THEN req' = [req EXCEPT ![r].pc = "mailing", ![r].contact = FALSE, ![r].id = i,
                                      ![r].previous = previous]
    ELSE Goto(r, "done")

Leave(f) == finish' = [finish EXCEPT ![f] = NoFinish]
Disturb == events < MaxEvents /\ events' = events + 1
Times == {at \in 0 .. now : at + MaxWait >= now}

----------------------------------------------------------------------------
(* The mail and the requests.                                              *)

Begin(r) ==
    /\ req[r].pc = "new"
    /\ req' = [req EXCEPT ![r].pc = "begun", ![r].at = now]
    /\ UNCHANGED <<flow, now, table, finish, delivered, identity, password, law,
                   uses, guesses, lost, events>>

MailAccepted(r) ==
    /\ req[r].pc = "mailing"
    /\ delivered' = delivered \cup {r}
    /\ Goto(r, IF flow = "admin" THEN "mailed" ELSE "done")
    /\ UNCHANGED <<flow, now, table, finish, identity, password, law, uses,
                   guesses, lost, events>>

\* the SMTP session fails, before or after the server has taken the message
MailRefused(r) ==
    /\ req[r].pc = "mailing"
    /\ delivered' \in {delivered, delivered \cup {r}}
    /\ Goto(r, "refused")
    /\ UNCHANGED <<flow, now, table, finish, identity, password, law, uses,
                   guesses, lost, events>>

\* the process stops or the database refuses: nothing more of the request runs
Lose(r) ==
    /\ req[r].pc \in InFlight
    /\ Disturb
    /\ lost' = lost \cup {r}
    /\ Goto(r, "done")
    /\ UNCHANGED <<flow, now, table, finish, delivered, identity, password, law,
                   uses, guesses>>

BeginFinish(f, token) ==
    /\ finish[f].pc = "idle"
    /\ finish' = [finish EXCEPT ![f] = [NoFinish EXCEPT !.pc = "begun", !.at = now,
                                                        !.token = token, !.from = legal]]
    /\ UNCHANGED <<flow, now, table, req, delivered, identity, password, law,
                   uses, guesses, lost, events>>

Tick ==
    /\ now < MaxNow
    /\ now' = now + 1
    /\ UNCHANGED <<flow, table, req, finish, delivered, identity, password, law,
                   uses, guesses, lost, events>>

\* the operator creates the user from the command line, active or not, with a password
CreateUser ==
    /\ account = "none"
    /\ Disturb
    /\ account' \in {"active", "inactive"}
    /\ password' = "elsewhere"
    /\ UNCHANGED <<flow, now, table, req, finish, delivered, contact,
                   proofUntil, law, uses, guesses, lost>>

\* the operator switches is_active off in the database
Deactivate ==
    /\ account = "active"
    /\ Disturb
    /\ account' = "inactive"
    /\ UNCHANGED <<flow, now, table, req, finish, delivered, contact, password,
                   proofUntil, law, uses, guesses, lost>>

Init ==
    /\ flow \in Flows
    /\ now = 0
    /\ rows = [i \in RowIds |-> NoRow]
    /\ req = [r \in Requests |-> Idle]
    /\ finish = [f \in Finishers |-> NoFinish]
    /\ delivered = {}
    /\ tokens = 0
    /\ account \in (IF flow = "setup" THEN {"active"} ELSE {"none", "active"})
    /\ contact \in (IF flow = "login" THEN BOOLEAN ELSE {FALSE})
    /\ password = "none"
    /\ proofUntil \in (IF flow = "setup" THEN {0, 1} ELSE {0})
    /\ legal \in (IF flow = "login" THEN {[d \in Documents |-> 0], [d \in Documents |-> 1]}
                  ELSE {[d \in Documents |-> 0]})
    /\ accepted \in (IF flow = "login" /\ account = "active" /\ legal["terms"] = 1
                     THEN {{}, {legal}} ELSE {{}})
    /\ uses = [r \in Requests |-> 0]
    /\ guesses = [r \in Requests |-> 0]
    /\ lost = {}
    /\ events = 0

Row ==
    [status : Stored \cup {"none", "deleted"}, code : Requests \cup {NoRequest},
     expires : Nat, resend : Nat, attempts : 0 .. MaxAttempts,
     user : BOOLEAN, contact : BOOLEAN, token : Nat, tokenExpires : Nat]

TypeOK ==
    /\ flow \in Flows
    /\ now \in Nat
    /\ rows \in [RowIds -> Row]
    /\ req \in [Requests -> [pc : InFlight \cup {"new", "done"}, at : Nat,
                             contact : BOOLEAN, id : RowIds \cup {NoId}, previous : Row]]
    /\ finish \in [Finishers -> [pc : {"idle", "begun", "checked"}, at : Nat, token : Nat,
                                 from : Versions, seen : Versions, read : SUBSET Documents]]
    /\ delivered \subseteq Requests
    /\ tokens \in Nat
    /\ account \in {"none", "active", "inactive"}
    /\ contact \in BOOLEAN
    /\ password \in {"none", "elsewhere", "set"}
    /\ proofUntil \in Nat
    /\ legal \in Versions
    /\ accepted \subseteq Versions
    /\ uses \in [Requests -> Nat]
    /\ guesses \in [Requests -> Nat]
    /\ lost \subseteq Requests
    /\ events \in 0 .. MaxEvents
============================================================================
