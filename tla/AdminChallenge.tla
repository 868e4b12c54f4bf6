--------------------------- MODULE AdminChallenge ---------------------------
(***************************************************************************)
(* Login of a tenant administrator with a mailed code: modules/            *)
(* tenant-admin/adminAuthService.  The challenge is "sending" from the     *)
(* transaction that stores it until the mail server has answered, and      *)
(* nobody else gets a code meanwhile.  verifyAdminLoginCode throws inside  *)
(* its transaction whenever it refuses, so a refusal writes nothing: an    *)
(* expired challenge stays pending and a wrong code is not counted         *)
(* (docs/findings/F-SEC-002), so that it can be followed by any number     *)
(* of others and by the right one.                                         *)
(***************************************************************************)
EXTENDS Challenges

adminRest == <<flow, now, identity, password, law, delivered, finish, tokens,
               guesses, lost, events>>

\* Chatwoot is asked first; only an administrator of the account gets further
RefuseAdmin(r) ==
    /\ req[r].pc = "new"
    /\ Goto(r, "done")
    /\ UNCHANGED <<adminRest, rows, uses>>

StoreAdmin(r) ==
    LET i == Latest(Active)
        at == req[r].at
        live == i # NoId /\ ~Expired(rows[i], at)
        row == [Fresh(r, "sending") EXCEPT !.user = TRUE]
    IN  /\ req[r].pc = "begun"
        /\ \/ /\ i # NoId
              /\ rows[i].status = "pending" => live /\ ResendLocked(rows[i], at)
              /\ rows' = rows
              /\ Goto(r, "done")
           \/ /\ i # NoId /\ rows[i].status = "pending"
              /\ live /\ ~ResendLocked(rows[i], at)
              /\ rows' = [rows EXCEPT ![i] = row]
              /\ Store(r, i, rows[i], TRUE)
           \/ /\ i # NoId => rows[i].status = "pending" /\ ~live
              /\ rows' = [(IF i = NoId THEN rows ELSE Close(i, "expired"))
                            EXCEPT ![NextId] = row]
              /\ Store(r, NextId, NoRow, TRUE)
        /\ UNCHANGED <<adminRest, uses>>

MarkAdmin(r) ==
    /\ req[r].pc = "mailed"
    /\ rows' = IF rows[req[r].id].status = "sending"
               THEN SetStatus(req[r].id, "pending") ELSE rows
    /\ Goto(r, "done")
    /\ UNCHANGED <<adminRest, uses>>

CleanupAdmin(r) ==
    /\ req[r].pc = "refused"
    /\ rows' = IF req[r].previous # NoRow
               THEN [rows EXCEPT ![req[r].id] = req[r].previous]
               ELSE Delete(req[r].id)
    /\ Goto(r, "done")
    /\ UNCHANGED <<adminRest, uses>>

\* a mistake: the session is created and the challenge stays pending
VerifyAdminAgain(entry, at) ==
    LET i == Latest({"pending"})
    IN  /\ i # NoId
        /\ ~Expired(rows[i], at)
        /\ entry = rows[i].code
        /\ Grant(rows[i].code)
        /\ UNCHANGED <<adminRest, rows, req>>

VerifyAdmin(entry, at) ==
    LET i == Latest({"pending"})
        row == rows[i]
    IN  /\ i # NoId
        /\ ~Expired(row, at)
        /\ row.attempts < MaxAttempts
        /\ entry = row.code
        /\ rows' = Close(i, "verified")
        /\ Grant(row.code)
        /\ UNCHANGED <<adminRest, req>>

\* a wrong code: the increment of the attempts is rolled back by the error that
\* answers it; `guesses` counts on up to MaxAttempts, the bound of this history
WrongAdmin(entry, at) ==
    LET i == Latest({"pending"})
        row == rows[i]
    IN  /\ i # NoId
        /\ ~Expired(row, at)
        /\ row.attempts < MaxAttempts
        /\ entry # row.code
        /\ guesses[row.code] < MaxAttempts
        /\ guesses' = [guesses EXCEPT ![row.code] = @ + 1]
        /\ UNCHANGED <<flow, now, identity, password, law, delivered, finish, table, req,
                       uses, lost, events>>

AdminNext ==
    \/ \E r \in Requests : RefuseAdmin(r) \/ StoreAdmin(r) \/ MarkAdmin(r)
                           \/ CleanupAdmin(r)
    \/ \E at \in Times, entry \in delivered \cup {NoRequest} :
           VerifyAdmin(entry, at) \/ WrongAdmin(entry, at)
============================================================================
