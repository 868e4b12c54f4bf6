--------------------------- MODULE PasswordSetup ---------------------------
(***************************************************************************)
(* A signed-in user without a password sets one: modules/password-setup.   *)
(* A session whose email proof is fresh gets a verified challenge at once; *)
(* else a code is stored and mailed while the user waits.  setPassword     *)
(* validates the challenge, hashes the password outside the transaction,   *)
(* and validates again in the transaction that writes it.                  *)
(***************************************************************************)
EXTENDS Challenges

setupRest == <<flow, now, identity, law, delivered, lost, events>>

\* ensureActivePasswordlessUser, on the locked row of the user
Passwordless == account = "active" /\ password = "none"

FreshProof(r) == proofUntil > req[r].at

\* createVerifiedSetup: the challenge starts verified, there is no code to enter
FreshSetup(r) ==
    /\ req[r].pc = "begun"
    /\ FreshProof(r)
    /\ \/ /\ ~Passwordless
          /\ UNCHANGED table
       \/ /\ Passwordless
          /\ tokens < MaxTokens
          /\ tokens' = tokens + 1
          /\ rows' = [rows EXCEPT ![NextId] =
                [NoRow EXCEPT !.status = "verified", !.code = r, !.user = TRUE,
                              !.expires = req[r].at + TokenTtl, !.resend = req[r].at,
                              !.token = tokens + 1, !.tokenExpires = req[r].at + TokenTtl]]
    /\ Goto(r, "done")
    /\ UNCHANGED <<setupRest, finish, password, uses, guesses>>

\* readPasswordSetupRequestPreflight, outside any transaction; the code is hashed after it
PreflightSetup(r) ==
    LET i == Latest(Stored)
        locked == /\ i # NoId
                  /\ rows[i].status = "pending"
                  /\ ~Expired(rows[i], req[r].at)
                  /\ ResendLocked(rows[i], req[r].at)
    IN  /\ req[r].pc = "begun"
        /\ ~FreshProof(r)
        /\ Goto(r, IF Passwordless /\ ~locked THEN "hashed" ELSE "done")
        /\ UNCHANGED <<setupRest, table, finish, password, uses, guesses>>

StoreSetup(r) ==
    LET i == Latest({"pending"})
        at == req[r].at
        live == i # NoId /\ ~Expired(rows[i], at)
        row == [Fresh(r, "pending") EXCEPT !.user = TRUE]
    IN  /\ req[r].pc = "hashed"
        /\ \/ /\ ~Passwordless \/ (live /\ ResendLocked(rows[i], at))
              /\ rows' = rows
              /\ Goto(r, "done")
           \/ /\ Passwordless /\ live /\ ~ResendLocked(rows[i], at)
              /\ rows' = [rows EXCEPT ![i] = row]
              /\ Store(r, i, rows[i], TRUE)
           \/ /\ Passwordless /\ ~live
              /\ rows' = [(IF i = NoId THEN rows ELSE Close(i, "expired"))
                            EXCEPT ![NextId] = row]
              /\ Store(r, NextId, NoRow, TRUE)
        /\ UNCHANGED <<setupRest, tokens, finish, password, uses, guesses>>

\* cleanupFailedDelivery: only while the row is the one this request stored
CleanupSetup(r) ==
    /\ req[r].pc = "refused"
    /\ rows' = CASE ~Owns(r) -> rows
                 [] Owns(r) /\ req[r].previous # NoRow ->
                        [rows EXCEPT ![req[r].id] = req[r].previous]
                 [] OTHER -> Delete(req[r].id)
    /\ Goto(r, "done")
    /\ UNCHANGED <<setupRest, tokens, finish, password, uses, guesses>>

ConfirmSetup(entry, at) ==
    LET i == Latest({"pending"})
        row == rows[i]
    IN  /\ Passwordless
        /\ i # NoId
        /\ \/ /\ Expired(row, at)
              /\ rows' = Close(i, "expired")
              /\ UNCHANGED <<tokens, guesses>>
           \/ /\ ~Expired(row, at) /\ entry # row.code
              /\ WrongCode(i)
              /\ UNCHANGED tokens
           \/ /\ ~Expired(row, at) /\ entry = row.code
              /\ IssueToken(i, at)
              /\ UNCHANGED guesses
        /\ UNCHANGED <<setupRest, req, finish, password, uses>>

\* a mistake: the user is not looked at again
SetupReadyAlready(f) ==
    LET i == Latest({"verified"})
    IN  /\ i # NoId
        /\ rows[i].tokenExpires > finish[f].at
        /\ rows[i].token = finish[f].token

\* validateVerifiedSetup: a challenge that can no longer be completed is invalidated
SetupReady(f) ==
    LET i == Latest({"verified"})
    IN  /\ Passwordless
        /\ i # NoId
        /\ rows[i].tokenExpires > finish[f].at
        /\ rows[i].token = finish[f].token

SetupRefused(f) ==
    LET i == Latest({"verified"})
        over == /\ i # NoId
                /\ account = "active"
                /\ password # "none" \/ rows[i].tokenExpires <= finish[f].at
    IN  /\ rows' = IF over THEN Close(i, "invalidated") ELSE rows
        /\ Leave(f)

\* setPassword, first transaction
CheckSetup(f) ==
    /\ finish[f].pc = "begun"
    /\ \/ /\ SetupReady(f)
          /\ finish' = [finish EXCEPT ![f].pc = "checked"]
          /\ UNCHANGED rows
       \/ /\ ~SetupReady(f)
          /\ SetupRefused(f)
    /\ UNCHANGED <<setupRest, req, tokens, password, uses, guesses>>

\* setPassword, second transaction: the password, the challenge, the session
SetSetupPassword(f) ==
    LET i == Latest({"verified"})
    IN  /\ finish[f].pc = "checked"
        /\ \/ /\ SetupReady(f)
              /\ password' = "set"
              /\ rows' = Close(i, "consumed")
              /\ Grant(rows[i].code)
              /\ Leave(f)
           \/ /\ ~SetupReady(f)
              /\ SetupRefused(f)
              /\ UNCHANGED <<password, uses>>
        /\ UNCHANGED <<setupRest, req, tokens, guesses>>

\* a password reset of the same user is completed; it holds another advisory lock
ResetElsewhere ==
    /\ account = "active"
    /\ Disturb
    /\ password' = "elsewhere"
    /\ UNCHANGED <<flow, now, identity, law, delivered, lost, table, req, finish, uses, guesses>>

SetupNext ==
    \/ \E r \in Requests : FreshSetup(r) \/ PreflightSetup(r) \/ StoreSetup(r)
                           \/ CleanupSetup(r)
    \/ \E at \in Times, entry \in delivered \cup {NoRequest} : ConfirmSetup(entry, at)
    \/ \E f \in Finishers : CheckSetup(f) \/ SetSetupPassword(f)
    \/ ResetElsewhere
============================================================================
