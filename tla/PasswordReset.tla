--------------------------- MODULE PasswordReset ---------------------------
(***************************************************************************)
(* A forgotten password is replaced: modules/password-reset.  The code is  *)
(* stored in one transaction, hash included, and mailed in the background. *)
(* Unlike the other flows the clean-up after a failed mail does not look   *)
(* whether the row still holds its code, and its update has no condition   *)
(* on the status of the row.                                               *)
(***************************************************************************)
EXTENDS Challenges

resetRest == <<flow, now, identity, law, delivered, lost, events>>

StoreReset(r) ==
    LET i == Latest({"pending"})
        at == req[r].at
        live == i # NoId /\ ~Expired(rows[i], at)
        row == [Fresh(r, "pending") EXCEPT !.user = account = "active"]
    IN  /\ req[r].pc = "begun"
        /\ \/ /\ live /\ ResendLocked(rows[i], at)
              /\ rows' = rows
              /\ Goto(r, "done")
           \/ /\ live /\ ~ResendLocked(rows[i], at)
              /\ rows' = [rows EXCEPT ![i] = row]
              /\ Store(r, i, rows[i], row.user)
           \/ /\ ~live
              /\ rows' = [(IF i = NoId THEN rows ELSE Close(i, "expired"))
                            EXCEPT ![NextId] = row]
              /\ Store(r, NextId, NoRow, row.user)
        /\ UNCHANGED <<resetRest, tokens, finish, password, uses, guesses>>

\* cleanupFailedResetDelivery: whatever the row holds by now; a row that was deleted
\* makes replacePendingReset throw, and nothing is written
CleanupReset(r) ==
    LET i == req[r].id
    IN  /\ req[r].pc = "refused"
        /\ rows' = CASE rows[i].status = "deleted" -> rows
                     [] rows[i].status # "deleted" /\ req[r].previous # NoRow ->
                            [rows EXCEPT ![i] = req[r].previous]
                     [] OTHER -> Delete(i)
        /\ Goto(r, "done")
        /\ UNCHANGED <<resetRest, tokens, finish, password, uses, guesses>>

\* a row without a user is never mailed, so nobody enters its code
ConfirmReset(entry, at) ==
    LET i == Latest({"pending"})
        row == rows[i]
    IN  /\ i # NoId
        /\ \/ /\ Expired(row, at)
              /\ rows' = Close(i, "expired")
              /\ UNCHANGED <<tokens, guesses>>
           \/ /\ ~Expired(row, at) /\ entry # row.code
              /\ WrongCode(i)
              /\ UNCHANGED tokens
           \/ /\ ~Expired(row, at) /\ entry = row.code /\ row.user
              /\ IssueToken(i, at)
              /\ UNCHANGED guesses
        /\ UNCHANGED <<resetRest, req, finish, password, uses>>

\* setPassword in one transaction; the sessions of the user are deleted with it
SetResetPassword(token, at) ==
    LET i == Latest({"verified"})
        row == rows[i]
        valid == row.tokenExpires > at /\ row.token = token
    IN  /\ i # NoId
        /\ \/ /\ row.tokenExpires <= at \/ (valid /\ account # "active")
              /\ rows' = Close(i, "invalidated")
              /\ UNCHANGED <<password, uses>>
           \/ /\ valid /\ account = "active"
              /\ password' = "set"
              /\ rows' = Close(i, "consumed")
              /\ Grant(row.code)
        /\ UNCHANGED <<resetRest, req, finish, tokens, guesses>>

ResetNext ==
    \/ \E r \in Requests : StoreReset(r) \/ CleanupReset(r)
    \/ \E at \in Times, entry \in delivered \cup {NoRequest} : ConfirmReset(entry, at)
    \/ \E at \in Times, token \in 1 .. tokens : SetResetPassword(token, at)
    \/ CreateUser
============================================================================
