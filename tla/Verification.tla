---------------------------- MODULE Verification ----------------------------
(***************************************************************************)
(* The four flows with a mailed code, and what they promise.  The flow is  *)
(* chosen in the initial state; its transactions interleave with the mails *)
(* in flight, with requests that stop half-way and with the clock.         *)
(***************************************************************************)
EXTENDS CodeLogin, PasswordSetup, PasswordReset, AdminChallenge

Next ==
    \/ \E r \in Requests : Begin(r) \/ MailAccepted(r) \/ MailRefused(r) \/ Lose(r)
    \/ flow \in {"login", "setup"} /\ \E f \in Finishers, t \in 1 .. tokens : BeginFinish(f, t)
    \/ Tick
    \/ Deactivate
    \/ flow = "login" /\ LoginNext
    \/ flow = "setup" /\ SetupNext
    \/ flow = "reset" /\ ResetNext
    \/ flow = "admin" /\ AdminNext

Spec == Init /\ [][Next]_vars

\* two transactions for one email never leave two codes that could both be entered
OneActive == flow # "reset" => Cardinality(WithStatus(Active)) <= 1

\* a code opens one session, or sets one password
OneUse == \A r \in Requests : uses[r] <= 1

\* a portal user's code that was guessed wrong too often is never accepted, restored
\* copies included; an administrator's may be, for the error that answers a wrong code
\* rolls its count back (docs/findings/F-SEC-002)
GuessesCounted ==
    flow # "admin" =>
        /\ \A i \in WithStatus({"pending"}) : rows[i].attempts = guesses[rows[i].code]
        /\ \A r \in Requests : uses[r] > 0 => guesses[r] < MaxAttempts

Quiet == lost = {} /\ \A r \in Requests : req[r].pc \in {"new", "done"}

\* nobody is made to wait for a mail that will not come, unless a fresh proof has put
\* a younger challenge over the one that waits: the clean-up looks at the latest row only
NoWaitForLostMail ==
    Quiet => \A i \in WithStatus(Active) :
        /\ rows[i].status = "pending"
        /\ \/ rows[i].code \in delivered
           \/ ~rows[i].user /\ ~rows[i].contact
           \/ ~ResendLocked(rows[i], now)
           \/ flow = "setup" /\ i # Latest(Stored)

Enterable(r) == r \in delivered /\ req[r].pc = "done" /\ r \notin lost
    /\ \E i \in RowIds : i = Latest({"pending"}) /\ rows[i].code = r

\* a code that was mailed stays good until it is used, too old, guessed at too often,
\* useless for its user, or replaced by a younger one
DeliveredCodeStands ==
    [][\A r \in Requests : flow # "reset" /\ Enterable(r) =>
        LET i == Latest({"pending"})
            row == rows'[i]
        IN  \/ row.code = r /\ row.status \in {"pending", "verified", "consumed"}
            \/ row.code = r /\ row.status = "expired" /\ rows[i].expires <= now
            \/ row.code = r /\ row.status = "invalidated"
                 /\ (guesses'[r] = MaxAttempts \/ account # "active")
            \/ row.code # r /\ row.expires > rows[i].expires
      ]_vars

\* who logs in has accepted documents that were in force during the request or later
SessionCovered ==
    [][flow = "login" /\ uses' # uses =>
        \/ legal \in accepted
        \/ \E f \in Finishers :
               /\ finish[f] # finish'[f]
               /\ finish[f].seen \in accepted'
               /\ \A d \in Documents : finish[f].from[d] <= finish[f].seen[d]
                                       /\ finish[f].seen[d] > 0
      ]_vars

\* a set-up never overwrites a password, whoever has set it in the meantime
SetupKeepsPassword ==
    [][flow = "setup" /\ uses' # uses => password = "none"]_vars
============================================================================
