----------------------------- MODULE CodeLogin -----------------------------
(***************************************************************************)
(* Login with a mailed code: modules/passwordless-login.  A request for a  *)
(* code runs two transactions, with a look at the user and at Chatwoot in  *)
(* between, and mails the code in the background; a failed mail puts back  *)
(* the code that was replaced.  A right code opens a session if the user   *)
(* has accepted the active legal documents, and else gives a continuation  *)
(* token that acceptLegal exchanges for one.                               *)
(***************************************************************************)
EXTENDS Challenges

loginRest == <<flow, now, contact, password, proofUntil, legal, delivered, lost, events>>

\* transaction one: an answer without a mail while the resend lock holds
PreflightLogin(r) ==
    LET i == Latest({"pending"})
        at == req[r].at
    IN  /\ req[r].pc = "begun"
        /\ IF i # NoId /\ Expired(rows[i], at)
           THEN rows' = Close(i, "expired") ELSE rows' = rows
        /\ Goto(r, IF i # NoId /\ ~Expired(rows[i], at) /\ ResendLocked(rows[i], at)
                   THEN "done" ELSE "ready")
        /\ UNCHANGED <<loginRest, account, accepted, finish, tokens, uses, guesses>>

\* the user is looked up, and Chatwoot is asked only when there is none
ObserveLogin(r) ==
    /\ req[r].pc = "ready"
    /\ req' = [req EXCEPT ![r].pc = "hashed",
                          ![r].contact = account = "none" /\ contact]
    /\ UNCHANGED <<loginRest, account, accepted, finish, rows, tokens, uses, guesses>>

\* a mistake: an expired row is left pending beside the new one
StoreLoginBeside(r) ==
    LET i == Latest({"pending"})
        at == req[r].at
        live == i # NoId /\ ~Expired(rows[i], at)
        row == [Fresh(r, "pending") EXCEPT !.user = account = "active"]
    IN  /\ req[r].pc = "hashed"
        /\ ~live
        /\ rows' = [rows EXCEPT ![NextId] = row]
        /\ Store(r, NextId, NoRow, row.user)
        /\ UNCHANGED <<loginRest, account, accepted, finish, tokens, uses, guesses>>

\* transaction two: the pending row is replaced, or a row is inserted
StoreLogin(r) ==
    LET i == Latest({"pending"})
        at == req[r].at
        live == i # NoId /\ ~Expired(rows[i], at)
        row == [Fresh(r, "pending") EXCEPT !.user = account = "active",
                                           !.contact = account = "none" /\ req[r].contact]
    IN  /\ req[r].pc = "hashed"
        /\ \/ /\ live /\ ResendLocked(rows[i], at)
              /\ rows' = rows
              /\ Goto(r, "done")
           \/ /\ live /\ ~ResendLocked(rows[i], at)
              /\ rows' = [rows EXCEPT ![i] = row]
              /\ Store(r, i, rows[i], row.user \/ row.contact)
           \/ /\ ~live
              /\ rows' = [(IF i = NoId THEN rows ELSE Close(i, "expired"))
                            EXCEPT ![NextId] = row]
              /\ Store(r, NextId, NoRow, row.user \/ row.contact)
        /\ UNCHANGED <<loginRest, account, accepted, finish, tokens, uses, guesses>>

\* a mistake: the restored code starts with no attempts
CleanupLoginForgets(r) ==
    /\ req[r].pc = "refused"
    /\ rows' = IF Owns(r) /\ req[r].previous # NoRow
               THEN [rows EXCEPT ![req[r].id] = [req[r].previous EXCEPT !.attempts = 0]]
               ELSE rows
    /\ Goto(r, "done")
    /\ UNCHANGED <<loginRest, account, accepted, finish, tokens, uses, guesses>>

\* cleanupFailedLoginDelivery: only while the row is the one this request stored
CleanupLogin(r) ==
    /\ req[r].pc = "refused"
    /\ rows' = CASE ~Owns(r) -> rows
                 [] Owns(r) /\ req[r].previous # NoRow ->
                        [rows EXCEPT ![req[r].id] = req[r].previous]
                 [] OTHER -> Delete(req[r].id)
    /\ Goto(r, "done")
    /\ UNCHANGED <<loginRest, account, accepted, finish, tokens, uses, guesses>>

\* a mistake: any acceptance will do
AcceptedOnce == accepted # {}
\* has the user accepted the pair of versions that is active now
Accepted == legal \in accepted

VerifyLogin(entry, at) ==
    LET i == Latest({"pending"})
        row == rows[i]
        right == ~Expired(row, at) /\ entry = row.code
        known == row.user /\ account = "active"
    IN  /\ i # NoId
        /\ \/ /\ Expired(row, at)
              /\ rows' = Close(i, "expired")
              /\ UNCHANGED <<tokens, uses, guesses>>
           \/ /\ ~Expired(row, at) /\ entry # row.code
              /\ WrongCode(i)
              /\ UNCHANGED <<tokens, uses>>
           \/ /\ right /\ ~known /\ ~(~row.user /\ row.contact)
              /\ rows' = Close(i, "invalidated")
              /\ UNCHANGED <<tokens, uses, guesses>>
           \/ /\ right /\ known /\ Accepted
              /\ rows' = Close(i, "consumed")
              /\ Grant(row.code)
              /\ UNCHANGED <<tokens, guesses>>
           \/ /\ right
              /\ \/ known /\ ~Accepted /\ \A d \in Documents : legal[d] # 0
                 \/ ~row.user /\ row.contact
              /\ IssueToken(i, at)
              /\ UNCHANGED <<uses, guesses>>
        /\ UNCHANGED <<loginRest, account, accepted, finish, req>>

\* acceptLegal reads the versions with two queries, in either order
ReadDocument(f, d) ==
    /\ finish[f].pc = "begun"
    /\ d \notin finish[f].read
    /\ finish' = [finish EXCEPT ![f].read = @ \cup {d}, ![f].seen[d] = legal[d]]
    /\ UNCHANGED <<loginRest, account, accepted, req, rows, tokens, uses, guesses>>

AcceptLegal(f) ==
    LET i == Latest({"verified"})
        row == rows[i]
        here == finish[f]
        valid == i # NoId /\ row.tokenExpires > here.at /\ row.token = here.token
        user == IF account = "none" /\ row.contact THEN "active" ELSE account
    IN  /\ here.pc = "begun"
        /\ here.read = Documents
        /\ \/ /\ i # NoId /\ (\A d \in Documents : here.seen[d] # 0)
                    => row.tokenExpires > here.at /\ row.token # here.token
              /\ UNCHANGED <<rows, account, accepted, uses>>
           \/ /\ \A d \in Documents : here.seen[d] # 0
              /\ i # NoId
              /\ row.tokenExpires <= here.at \/ (valid /\ user # "active")
              /\ rows' = Close(i, "invalidated")
              /\ UNCHANGED <<account, accepted, uses>>
           \/ /\ \A d \in Documents : here.seen[d] # 0
              /\ valid /\ user = "active"
              /\ account' = user
              /\ accepted' = accepted \cup {here.seen}
              /\ rows' = Close(i, "consumed")
              /\ Grant(row.code)
        /\ Leave(f)
        /\ UNCHANGED <<loginRest, req, tokens, guesses>>

\* an administrator uploads a document: the active version is archived (legal-documents)
UploadDocument(d) ==
    /\ legal[d] < MaxVersion
    /\ Disturb
    /\ legal' = [legal EXCEPT ![d] = @ + 1]
    /\ UNCHANGED <<flow, now, table, req, finish, delivered, identity, password,
                   accepted, uses, guesses, lost>>

LoginNext ==
    \/ \E r \in Requests : PreflightLogin(r) \/ ObserveLogin(r) \/ StoreLogin(r)
                           \/ CleanupLogin(r)
    \/ \E at \in Times, entry \in delivered \cup {NoRequest} : VerifyLogin(entry, at)
    \/ \E f \in Finishers : AcceptLegal(f) \/ \E d \in Documents : ReadDocument(f, d)
    \/ \E d \in Documents : UploadDocument(d)
    \/ CreateUser
============================================================================
