------------------------- MODULE VerificationProofs -------------------------
(***************************************************************************)
(* Proofs about Verification, for any number of requests and any bounds:   *)
(* a code is in one place, a row that can still be entered or the copy a   *)
(* request keeps to put it back; a code that was used is nowhere.          *)
(***************************************************************************)
EXTENDS Verification, FiniteSetTheorems, NaturalFacts, TLAPS

ReqType == [pc : InFlight \cup {"new", "done"}, at : Nat, contact : BOOLEAN,
            id : RowIds \cup {NoId}, previous : Row]
FinishType == [pc : {"idle", "begun", "checked"}, at : Nat, token : Nat,
               from : Versions, seen : Versions, read : SUBSET Documents]

\* the request has not stored its code
Unsent == {"new", "begun", "ready", "hashed"}
Past == {r \in Requests : req[r].pc \notin Unsent}
Kept(r) == req[r].previous # NoRow
\* a row whose code may still open something
Open == IF flow = "admin" THEN {"sending", "pending"} ELSE {"sending", "pending", "verified"}

-----------------------------------------------------------------------------
(* Types.                                                                  *)

LEMMA IdsFinite ==
    /\ Cardinality(Requests) \in Nat
    /\ RowIds \subseteq Nat /\ NoId \notin RowIds
  BY BoundsAssumption, FS_CardinalityType DEF RowIds, NoId

LEMMA LatestIs ==
    ASSUME NEW S
    PROVE  \/ Latest(S) = NoId /\ WithStatus(S) = {}
           \/ /\ Latest(S) \in RowIds /\ Latest(S) # NoId
              /\ rows[Latest(S)].status \in S
              /\ \A j \in WithStatus(S) : j <= Latest(S)
  <1>1. CASE WithStatus(S) = {}
    BY <1>1 DEF Latest
  <1>2. CASE WithStatus(S) # {}
    <2>1. WithStatus(S) \subseteq 1 .. Cardinality(Requests)
      BY DEF WithStatus, RowIds
    <2>2. \E i \in WithStatus(S) : \A j \in WithStatus(S) : j <= i
      BY <1>2, <2>1, IdsFinite, GreatestBelow
    <2>3. Latest(S) \in WithStatus(S) /\ \A j \in WithStatus(S) : j <= Latest(S)
      BY <1>2, <2>2 DEF Latest
    <2> QED
      BY <2>3, IdsFinite DEF WithStatus
  <1> QED
    BY <1>1, <1>2

LEMMA NoRowTyped == NoRow \in Row /\ NoRow.attempts = 0 /\ NoRow.status = "none"
  BY BoundsAssumption DEF NoRow, Row, Stored

LEMMA FreshTyped ==
    ASSUME TypeOK, NEW r \in Requests, NEW s \in Stored
    PROVE  /\ Fresh(r, s) \in Row
           /\ Fresh(r, s).status = s /\ Fresh(r, s).code = r /\ Fresh(r, s).attempts = 0
  <1>1. req[r].at + Ttl \in Nat /\ req[r].at + Cooldown \in Nat
    BY BoundsAssumption DEF TypeOK
  <1>2. Fresh(r, s) = [NoRow EXCEPT !.status = s, !.code = r, !.expires = req[r].at + Ttl,
                                    !.resend = req[r].at + Cooldown]
    BY DEF Fresh
  <1> DEFINE base == [NoRow EXCEPT !.status = s, !.code = r]
  <1>3. base \in Row /\ base.status = s /\ base.code = r /\ base.attempts = 0
    BY NoRowTyped DEF Row
  <1>4. Fresh(r, s) = [base EXCEPT !.expires = req[r].at + Ttl, !.resend = req[r].at + Cooldown]
    BY <1>2, NoRowTyped DEF Row
  <1> HIDE DEF base
  <1>5. ASSUME NEW a \in Nat, NEW b \in Nat,
               Fresh(r, s) = [base EXCEPT !.expires = a, !.resend = b]
        PROVE  /\ Fresh(r, s) \in Row
               /\ Fresh(r, s).status = s /\ Fresh(r, s).code = r /\ Fresh(r, s).attempts = 0
    BY <1>3, <1>5 DEF Row
  <1> QED
    BY <1>1, <1>4, <1>5

\* what closing and deleting a row write
LEMMA CloseIs ==
    ASSUME TypeOK, NEW i \in RowIds, NEW s \in Stored
    PROVE  /\ Close(i, s) \in [RowIds -> Row]
           /\ Close(i, s)[i].status = s /\ Close(i, s)[i].code = rows[i].code
           /\ \A j \in RowIds : j # i => Close(i, s)[j] = rows[j]
  <1>1. rows[i].code \in Requests \cup {NoRequest} /\ rows \in [RowIds -> Row]
    BY DEF TypeOK, Row
  <1>2. /\ [NoRow EXCEPT !.status = s, !.code = rows[i].code] \in Row
        /\ [NoRow EXCEPT !.status = s, !.code = rows[i].code].status = s
        /\ [NoRow EXCEPT !.status = s, !.code = rows[i].code].code = rows[i].code
    BY <1>1, NoRowTyped DEF Row
  <1> QED
    BY <1>1, <1>2 DEF Close

LEMMA DeleteIs ==
    ASSUME TypeOK, NEW i \in RowIds
    PROVE  /\ Delete(i) \in [RowIds -> Row]
           /\ Delete(i)[i].status = "deleted"
           /\ \A j \in RowIds : j # i => Delete(i)[j] = rows[j]
  <1>1. rows \in [RowIds -> Row]
    BY DEF TypeOK
  <1>2. /\ [NoRow EXCEPT !.status = "deleted"] \in Row
        /\ [NoRow EXCEPT !.status = "deleted"].status = "deleted"
    BY NoRowTyped DEF Row
  <1> QED
    BY <1>1, <1>2 DEF Delete

LEMMA GotoIs ==
    ASSUME TypeOK, NEW r \in Requests, NEW pc \in InFlight \cup {"new", "done"}, Goto(r, pc)
    PROVE  /\ req' \in [Requests -> ReqType]
           /\ req'[r].pc = pc
           /\ req'[r].previous = NoRow \/ req'[r].previous = req[r].previous
           /\ pc = "done" => req'[r].previous = NoRow
           /\ pc # "done" => req'[r].previous = req[r].previous /\ req'[r].id = req[r].id
           /\ \A q \in Requests : q # r => req'[q] = req[q]
  <1>1. req \in [Requests -> ReqType]
    BY DEF TypeOK, ReqType
  <1>2. CASE pc = "done"
    <2>1. req' = [req EXCEPT ![r] = [Idle EXCEPT !.pc = "done"]]
      BY <1>2 DEF Goto
    <2>2. [Idle EXCEPT !.pc = "done"] \in ReqType /\ [Idle EXCEPT !.pc = "done"].previous = NoRow
      BY NoRowTyped DEF Idle, ReqType, NoId
    <2> QED
      BY <1>1, <1>2, <2>1, <2>2 DEF Idle
  <1>3. CASE pc # "done"
    <2>1. req' = [req EXCEPT ![r].pc = pc]
      BY <1>3 DEF Goto
    <2> QED
      BY <1>1, <1>3, <2>1 DEF ReqType
  <1> QED
    BY <1>2, <1>3

LEMMA StoreIs ==
    ASSUME TypeOK, NEW r \in Requests, NEW i \in RowIds, NEW row \in Row, NEW mailed,
           Store(r, i, row, mailed)
    PROVE  /\ req' \in [Requests -> ReqType]
           /\ req'[r].pc \in {"mailing", "done"}
           /\ req'[r].pc = "done" => req'[r].previous = NoRow
           /\ req'[r].pc = "mailing" => req'[r].previous = row /\ req'[r].id = i
           /\ \A q \in Requests : q # r => req'[q] = req[q]
  <1>1. req \in [Requests -> ReqType]
    BY DEF TypeOK, ReqType
  <1>2. CASE mailed
    <2>1. req' = [req EXCEPT ![r].pc = "mailing", ![r].contact = FALSE, ![r].id = i,
                             ![r].previous = row]
      BY <1>2 DEF Store
    <2>2. "mailing" \in InFlight
      BY DEF InFlight
    <2>3. req'[r] = [req[r] EXCEPT !.pc = "mailing", !.contact = FALSE, !.id = i, !.previous = row]
      BY <1>1, <2>1
    <2>4. \A q \in Requests : q # r => req'[q] = req[q]
      BY <1>1, <2>1
    <2>5. req'[r] \in ReqType /\ req'[r].pc = "mailing" /\ req'[r].previous = row /\ req'[r].id = i
      <3>1. req[r] \in ReqType
        BY <1>1
      <3>2. req'[r] \in ReqType
        BY <2>2, <2>3, <3>1 DEF ReqType
      <3> QED
        BY <2>3, <3>1, <3>2 DEF ReqType
    <2>6. req' \in [Requests -> ReqType]
      BY <1>1, <2>1, <2>4, <2>5
    <2> QED
      BY <2>4, <2>5, <2>6
  <1>3. CASE ~mailed
    <2>1. Goto(r, "done")
      BY <1>3 DEF Store
    <2> QED
      BY <2>1, GotoIs DEF InFlight
  <1> QED
    BY <1>2, <1>3

-----------------------------------------------------------------------------
(* The invariant.                                                          *)

\* the rows that were inserted are the first ones, and each is of a request that has stored
Filled ==
    \E n \in Nat : /\ \A i \in RowIds : rows[i].status # "none" <=> i <= n
                   /\ n <= Cardinality(Past)

\* a code that may still be entered: stored, not used, and its wrong guesses are counted,
\* unless they were an administrator's
Fit(row) ==
    /\ row.code \in Requests
    /\ req[row.code].pc \notin Unsent
    /\ uses[row.code] = 0
    /\ flow # "admin" => /\ guesses[row.code] < MaxAttempts
                         /\ row.status = "pending" => row.attempts = guesses[row.code]

Codes ==
    /\ \A i \in RowIds : rows[i].status \in Open => Fit(rows[i])
    /\ \A r \in Requests : Kept(r) => req[r].previous.status = "pending" /\ Fit(req[r].previous)
    /\ \A i, j \in RowIds : rows[i].status \in Open /\ rows[j].status \in Open
                                /\ rows[i].code = rows[j].code => i = j
    /\ \A i \in RowIds, r \in Requests : rows[i].status \in Open /\ Kept(r)
                                             => rows[i].code # req[r].previous.code
    /\ \A r, s \in Requests : Kept(r) /\ Kept(s) /\ req[r].previous.code = req[s].previous.code
                                  => r = s
    /\ \A r \in Requests : req[r].pc \in Unsent => uses[r] = 0 /\ guesses[r] = 0 /\ ~Kept(r)
    /\ \A r \in Requests : /\ uses[r] \in {0, 1}
                           /\ flow # "admin" /\ uses[r] = 1 => guesses[r] < MaxAttempts

\* one row can be entered; what an administrator's request is mailing stays in sending
InMail == {"mailing", "refused", "mailed"}
Sends(r) == /\ req[r].id \in RowIds
            /\ rows[req[r].id].status = "sending"
            /\ rows[req[r].id].code = r
OneLive ==
    /\ flow # "reset" => \A i, j \in RowIds : rows[i].status \in Active /\ rows[j].status \in Active
                                                  => i = j
    /\ flow = "admin" => \A r \in Requests : req[r].pc \in InMail => Sends(r)
    /\ flow # "admin" => \A i \in RowIds : rows[i].status # "sending"
    /\ \A r \in Requests : req[r].pc \in InMail => /\ req[r].id \in RowIds
                                                   /\ rows[req[r].id].status # "none"

Inv == TypeOK /\ Filled /\ Codes /\ OneLive

LEMMA PastFinite == IsFiniteSet(Past) /\ Cardinality(Past) \in Nat
  BY BoundsAssumption, FS_Subset, FS_CardinalityType DEF Past

\* a row that is inserted takes the first free id, which exists for a request that has not stored
LEMMA NextIdIs ==
    ASSUME TypeOK, Filled, NEW r \in Requests, req[r].pc \in Unsent
    PROVE  /\ NextId \in RowIds /\ rows[NextId].status = "none"
           /\ \A j \in RowIds : j < NextId <=> rows[j].status # "none"
           /\ NextId <= Cardinality(Past) + 1
  <1>1. PICK n \in Nat : /\ \A i \in RowIds : rows[i].status # "none" <=> i <= n
                         /\ n <= Cardinality(Past)
    BY DEF Filled
  <1>2. Past \subseteq Requests \ {r}
    BY DEF Past
  <1>3. Cardinality(Past) <= Cardinality(Requests) - 1
    <2>1. IsFiniteSet(Requests \ {r}) /\ Cardinality(Requests \ {r}) = Cardinality(Requests) - 1
      BY BoundsAssumption, FS_RemoveElement
    <2>2. Cardinality(Past) <= Cardinality(Requests \ {r})
      BY <1>2, <2>1, FS_Subset
    <2> QED
      BY <2>1, <2>2
  <1>4. n + 1 \in RowIds
    BY <1>1, <1>3, PastFinite, IdsFinite DEF RowIds
  <1>5. rows[n + 1].status = "none" /\ \A j \in RowIds : j < n + 1 => rows[j].status # "none"
    BY <1>1, <1>4, IdsFinite
  <1>6. /\ NextId \in RowIds /\ rows[NextId].status = "none"
        /\ \A j \in RowIds : j < NextId => rows[j].status # "none"
    BY <1>4, <1>5 DEF NextId
  <1>7. NextId = n + 1
    BY <1>4, <1>5, <1>6, IdsFinite
  <1> QED
    BY <1>1, <1>6, <1>7, IdsFinite, PastFinite

LEMMA FilledKept ==
    ASSUME Filled, \A i \in RowIds : rows'[i].status = "none" <=> rows[i].status = "none",
           \A r \in Requests : req[r].pc \notin Unsent => req'[r].pc \notin Unsent
    PROVE  Filled'
  <1>1. Past \subseteq Past' /\ IsFiniteSet(Past') /\ Cardinality(Past') \in Nat
    BY BoundsAssumption, FS_Subset, FS_CardinalityType DEF Past
  <1>2. Cardinality(Past) <= Cardinality(Past')
    BY <1>1, FS_Subset
  <1>3. PICK n \in Nat : /\ \A i \in RowIds : rows[i].status # "none" <=> i <= n
                         /\ n <= Cardinality(Past)
    BY DEF Filled
  <1>4. n <= Cardinality(Past')
    BY <1>1, <1>2, <1>3, PastFinite
  <1>5. \A i \in RowIds : rows'[i].status # "none" <=> i <= n
    BY <1>3
  <1> QED
    BY <1>4, <1>5 DEF Filled

LEMMA FilledNext ==
    ASSUME TypeOK, Filled, NEW r \in Requests, req[r].pc \in Unsent, req'[r].pc \notin Unsent,
           \A q \in Requests : q # r => req'[q] = req[q],
           rows'[NextId].status # "none",
           \A i \in RowIds : i # NextId => (rows'[i].status = "none" <=> rows[i].status = "none")
    PROVE  Filled'
  <1>1. Past' = Past \cup {r} /\ r \notin Past
    BY DEF Past
  <1>2. Cardinality(Past') = Cardinality(Past) + 1
    BY <1>1, PastFinite, FS_AddElement
  <1>3. /\ NextId \in RowIds
        /\ \A j \in RowIds : j < NextId <=> rows[j].status # "none"
        /\ NextId <= Cardinality(Past) + 1
    BY NextIdIs
  <1>4. \A i \in RowIds : rows'[i].status # "none" <=> i <= NextId
    BY <1>3, IdsFinite
  <1> QED
    BY <1>2, <1>3, <1>4, IdsFinite DEF Filled

-----------------------------------------------------------------------------
(* What a step may do to the codes.                                        *)

\* nothing, or a row is closed, or it changes its status and keeps its code
Moved(i) ==
    \/ rows'[i] = rows[i]
    \/ /\ rows[i].status # "none"
       /\ rows'[i].status \in {"expired", "invalidated", "deleted"}
    \/ /\ IF flow = "admin" THEN rows[i].status = "sending" /\ rows'[i].status = "pending"
          ELSE rows[i].status = "pending" /\ rows'[i].status = "verified"
       /\ rows'[i].code = rows[i].code

\* the request does not store, and what it is mailing for an administrator stays
Steady(r) ==
    /\ req[r].pc \notin Unsent => req'[r].pc \notin Unsent
    /\ Kept(r)' => req'[r].previous = req[r].previous
    /\ req[r].pc \in Unsent => ~Kept(r)'
    /\ req'[r].pc \in InMail => /\ req[r].pc \in InMail /\ req'[r].id = req[r].id
                                /\ flow = "admin" => rows'[req[r].id] = rows[req[r].id]

LEMMA KeepInv ==
    ASSUME Inv, TypeOK', UNCHANGED <<flow, uses, guesses>>,
           \A i \in RowIds : Moved(i),
           \A r \in Requests : Steady(r)
    PROVE  Inv'
  <1>1. Filled'
    BY FilledKept DEF Inv, Moved, Steady
  <1>2. Open' = Open /\ flow' = flow /\ uses' = uses /\ guesses' = guesses
    BY DEF Open
  <1>3. \A i \in RowIds : rows'[i].status \in Open =>
            rows[i].status \in Open /\ rows'[i].code = rows[i].code
            /\ (flow # "admin" /\ rows'[i].status = "pending" => rows'[i] = rows[i])
    BY DEF Moved, Open
  <1>4. \A r \in Requests : Kept(r)' => Kept(r) /\ req'[r].previous = req[r].previous
    BY DEF Kept, Steady
  <1>5. \A row, old : Fit(old) /\ row.code = old.code
                      /\ (flow # "admin" /\ row.status = "pending" => row = old) => Fit(row)'
    BY <1>2 DEF Fit, Steady
  <1>6. Codes'
    <2>1. \A i \in RowIds : rows'[i].status \in Open => Fit(rows[i])'
      BY <1>3, <1>5 DEF Inv, Codes
    <2>2. \A r \in Requests : Kept(r)' => req'[r].previous.status = "pending"
                                          /\ Fit(req[r].previous)'
      BY <1>4, <1>5 DEF Inv, Codes
    <2>3. /\ \A i, j \in RowIds : rows'[i].status \in Open /\ rows'[j].status \in Open
                                    /\ rows'[i].code = rows'[j].code => i = j
          /\ \A i \in RowIds, r \in Requests : rows'[i].status \in Open /\ Kept(r)'
                                             => rows'[i].code # req'[r].previous.code
          /\ \A r, s \in Requests : Kept(r)' /\ Kept(s)'
                                    /\ req'[r].previous.code = req'[s].previous.code => r = s
      BY <1>3, <1>4 DEF Inv, Codes
    <2>4. \A r \in Requests : req'[r].pc \in Unsent => uses[r] = 0 /\ guesses[r] = 0 /\ ~Kept(r)'
      BY DEF Inv, Codes, Steady
    <2> QED
      BY <1>2, <2>1, <2>2, <2>3, <2>4 DEF Inv, Codes
  <1>7. OneLive'
    <2>1. \A i \in RowIds : rows'[i].status \in Active => rows[i].status \in Active
      BY DEF Moved, Active
    <2>2. ASSUME flow = "admin", NEW r \in Requests, req'[r].pc \in InMail
          PROVE  Sends(r)'
      BY <2>2 DEF Inv, OneLive, Sends, Steady
    <2>3. flow # "admin" => \A i \in RowIds : rows'[i].status # "sending"
      BY DEF Inv, OneLive, Moved
    <2>4. \A r \in Requests : req'[r].pc \in InMail => /\ req'[r].id \in RowIds
                                                     /\ rows'[req'[r].id].status # "none"
      BY DEF Inv, OneLive, Moved, Steady
    <2> QED
      BY <2>1, <2>2, <2>3, <2>4, <1>2 DEF Inv, OneLive
  <1> QED
    BY <1>1, <1>6, <1>7 DEF Inv

\* a wrong code: the row it was entered for counts it or is over
LEMMA GuessInv ==
    ASSUME Inv, TypeOK', flow # "admin", NEW i \in RowIds, rows[i].status = "pending",
           guesses' = [guesses EXCEPT ![rows[i].code] = @ + 1],
           UNCHANGED <<flow, uses, req>>,
           \A j \in RowIds : j # i => rows'[j] = rows[j],
           \/ rows'[i].status = "invalidated"
           \/ /\ rows'[i].status = "pending" /\ rows'[i].code = rows[i].code
              /\ rows'[i].attempts = rows[i].attempts + 1
              /\ rows[i].attempts + 1 < MaxAttempts
    PROVE  Inv'
  <1> DEFINE c == rows[i].code
  <1>1. Filled'
    BY FilledKept DEF Inv
  <1>2. Open' = Open /\ "pending" \in Open /\ "invalidated" \notin Open
    BY DEF Open
  <1>3. c \in Requests /\ rows[i].attempts = guesses[c] /\ uses[c] = 0 /\ req[c].pc \notin Unsent
    BY <1>2 DEF Inv, Codes, Fit
  <1>4. guesses \in [Requests -> Nat] /\ guesses'[c] = guesses[c] + 1
        /\ \A r \in Requests : r # c => guesses'[r] = guesses[r]
    BY <1>3 DEF Inv, TypeOK
  <1> HIDE DEF c
  <1>5. \A row : Fit(row) /\ row.code # c => Fit(row)'
    BY <1>4 DEF Fit
  <1>6. Codes'
    <2>1. ASSUME NEW j \in RowIds, rows'[j].status \in Open PROVE Fit(rows[j])'
      <3>1. CASE j = i
        BY <1>2, <1>3, <1>4, <2>1, <3>1 DEF Fit, c
      <3>2. CASE j # i
        BY <1>2, <1>5, <2>1, <3>2 DEF Inv, Codes, c
      <3> QED
        BY <3>1, <3>2
    <2>2. \A r \in Requests : Kept(r)' => req'[r].previous.status = "pending"
                                          /\ Fit(req[r].previous)'
      BY <1>2, <1>5 DEF Inv, Codes, Kept, c
    <2>3. \A j \in RowIds : rows'[j].status \in Open => rows[j].status \in Open
                                                        /\ rows'[j].code = rows[j].code
      BY <1>2
    <2>4. \A r \in Requests : uses'[r] = uses[r] /\ (uses[r] = 1 => guesses'[r] = guesses[r])
                              /\ (req[r].pc \in Unsent => guesses'[r] = guesses[r])
      BY <1>3, <1>4
    <2> QED
      BY <1>2, <2>1, <2>2, <2>3, <2>4 DEF Inv, Codes, Kept
  <1>7. OneLive'
    <2>1. \A j \in RowIds : rows'[j].status \in Active => rows[j].status \in Active
      BY DEF Active
    <2> QED
      BY <2>1 DEF Inv, OneLive, Active
  <1> QED
    BY <1>1, <1>6, <1>7 DEF Inv

\* a code is used: its row is closed with the same transaction
LEMMA UseInv ==
    ASSUME Inv, TypeOK', NEW i \in RowIds, rows[i].status \in Open,
           flow = "admin" => rows[i].status = "pending",
           Grant(rows[i].code), UNCHANGED <<flow, guesses, req>>,
           rows'[i].status \notin Open \cup Active \cup {"none"},
           \A j \in RowIds : j # i => rows'[j] = rows[j]
    PROVE  Inv'
  <1> DEFINE c == rows[i].code
  <1>1. Filled'
    <2>1. rows[i].status # "none"
      BY DEF Open
    <2> QED
      BY <2>1, FilledKept DEF Inv
  <1>2. Open' = Open
    BY DEF Open
  <1>3. /\ c \in Requests /\ uses[c] = 0 /\ req[c].pc \notin Unsent
        /\ flow # "admin" => guesses[c] < MaxAttempts
    BY DEF Inv, Codes, Fit
  <1>4. uses'[c] = 1 /\ \A r \in Requests : r # c => uses'[r] = uses[r]
    BY <1>3 DEF Inv, TypeOK, Grant
  <1> HIDE DEF c
  <1>5. \A row : Fit(row) /\ row.code # c => Fit(row)'
    BY <1>4 DEF Fit
  <1>6. \A j \in RowIds : rows'[j].status \in Open => /\ rows[j].status \in Open
                                                      /\ rows'[j] = rows[j] /\ rows[j].code # c
    BY DEF Inv, Codes, c
  <1>7. Codes'
    <2>1. \A j \in RowIds : rows'[j].status \in Open => Fit(rows[j])'
      BY <1>5, <1>6 DEF Inv, Codes
    <2>2. \A r \in Requests : Kept(r)' => req'[r].previous.status = "pending"
                                          /\ Fit(req[r].previous)'
      BY <1>5 DEF Inv, Codes, Kept, c
    <2>3. \A r \in Requests : /\ uses'[r] \in {0, 1}
                              /\ flow # "admin" /\ uses'[r] = 1 => guesses[r] < MaxAttempts
                              /\ (req[r].pc \in Unsent => uses'[r] = 0)
      BY <1>3, <1>4 DEF Inv, Codes
    <2> QED
      BY <1>2, <1>6, <2>1, <2>2, <2>3 DEF Inv, Codes, Kept
  <1>8. OneLive'
    <2>1. \A j \in RowIds : rows'[j].status \in Active => rows'[j] = rows[j]
      OBVIOUS
    <2>2. ASSUME flow = "admin", NEW r \in Requests, req[r].pc \in InMail PROVE Sends(r)'
      BY <2>2 DEF Inv, OneLive, Sends
    <2> QED
      BY <2>1, <2>2 DEF Inv, OneLive, Active
  <1> QED
    BY <1>1, <1>7, <1>8 DEF Inv

\* a request stores its code in row k, over a copy of a pending row, or in a new row
LEMMA StoreInv ==
    ASSUME Inv, TypeOK', NEW r \in Requests, NEW k \in RowIds, req[r].pc \in Unsent,
           UNCHANGED <<flow, uses, guesses>>,
           \/ /\ k = NextId
              /\ flow # "reset" /\ rows'[k].status \in Active =>
                     \A j \in RowIds : j # k => rows'[j].status \notin Active
           \/ rows[k].status = "pending",
           rows'[k].code = r, rows'[k].attempts = 0,
           \/ rows'[k].status = "pending" /\ flow # "admin"
           \/ rows'[k].status = "sending" /\ flow = "admin"
           \/ rows'[k].status = "verified" /\ flow = "setup",
           \A j \in RowIds : j # k => rows'[j] = rows[j] \/ /\ rows[j].status = "pending"
                                                            /\ rows'[j].status = "expired",
           \A q \in Requests : q # r => req'[q] = req[q],
           req'[r].pc \notin Unsent,
           req'[r].pc \in InMail => req'[r].id = k,
           Kept(r)' => rows[k].status = "pending" /\ req'[r].previous = rows[k]
    PROVE  Inv'
  <1>1. Open' = Open /\ {"pending", "sending"} \subseteq Open
        /\ (flow # "admin" => "verified" \in Open) /\ "expired" \notin Open /\ "none" \notin Open
    BY DEF Open
  <1>2. Filled'
    <2>1. CASE k = NextId
      BY <2>1, FilledNext DEF Inv
    <2>2. CASE rows[k].status = "pending"
      BY <2>2, FilledKept DEF Inv
    <2> QED
      BY <2>1, <2>2
  <1>3. \A row : Fit(row) => Fit(row)' /\ row.code # r
    BY DEF Fit
  <1>4. uses[r] = 0 /\ guesses[r] = 0 /\ MaxAttempts \in Nat /\ MaxAttempts > 0
    BY BoundsAssumption DEF Inv, Codes
  <1>5. \A j \in RowIds : j # k /\ rows'[j].status \in Open => rows'[j] = rows[j]
    BY <1>1
  <1>6. rows'[k].status \in Open
    BY <1>1
  <1>7. Codes'
    <2>1. ASSUME NEW j \in RowIds, rows'[j].status \in Open PROVE Fit(rows[j])'
      <3>1. CASE j = k
        BY <1>4, <3>1 DEF Fit
      <3>2. CASE j # k
        BY <1>3, <1>5, <2>1, <3>2 DEF Inv, Codes
      <3> QED
        BY <3>1, <3>2
    <2>2. ASSUME NEW q \in Requests, Kept(q)'
          PROVE  req'[q].previous.status = "pending" /\ Fit(req[q].previous)'
                 /\ req'[q].previous.code # r
      <3>1. CASE q = r
        BY <1>1, <1>3, <2>2, <3>1 DEF Inv, Codes
      <3>2. CASE q # r
        BY <1>3, <2>2, <3>2 DEF Inv, Codes, Kept
      <3> QED
        BY <3>1, <3>2
    <2>3. ASSUME NEW i \in RowIds, NEW j \in RowIds, rows'[i].status \in Open,
                 rows'[j].status \in Open, rows'[i].code = rows'[j].code
          PROVE  i = j
      <3>1. \A l \in RowIds : l # k /\ rows'[l].status \in Open => rows'[l].code # r
        BY <1>3, <1>5 DEF Inv, Codes
      <3> QED
        BY <2>3, <3>1, <1>5 DEF Inv, Codes
    <2>4. ASSUME NEW i \in RowIds, NEW q \in Requests, rows'[i].status \in Open, Kept(q)'
          PROVE  rows'[i].code # req'[q].previous.code
      <3>1. CASE i = k
        BY <2>2, <2>4, <3>1
      <3>2. CASE i # k /\ q = r
        BY <1>1, <1>5, <2>4, <3>2 DEF Inv, Codes
      <3>3. CASE i # k /\ q # r
        BY <1>5, <2>4, <3>3 DEF Inv, Codes, Kept
      <3> QED
        BY <3>1, <3>2, <3>3
    <2>5. ASSUME NEW q \in Requests, NEW s \in Requests, Kept(q)', Kept(s)',
                 req'[q].previous.code = req'[s].previous.code
          PROVE  q = s
      <3>1. \A x \in Requests : x # r /\ Kept(x)' => Kept(x) /\ req'[x] = req[x]
        BY DEF Kept
      <3>2. \A x \in Requests : x # r /\ Kept(x)' /\ Kept(r)'
                                  => req'[r].previous.code # req'[x].previous.code
        BY <1>1, <3>1 DEF Inv, Codes
      <3> QED
        BY <2>5, <3>1, <3>2 DEF Inv, Codes
    <2>6. \A q \in Requests : req'[q].pc \in Unsent => uses[q] = 0 /\ guesses[q] = 0 /\ ~Kept(q)'
      BY DEF Inv, Codes, Kept
    <2> QED
      BY <1>1, <2>1, <2>2, <2>3, <2>4, <2>5, <2>6 DEF Inv, Codes
  <1>8. OneLive'
    <2>1. ASSUME flow # "reset", NEW i \in RowIds, NEW j \in RowIds,
                 rows'[i].status \in Active, rows'[j].status \in Active
          PROVE  i = j
      <3>1. \A l \in RowIds : l # k /\ rows'[l].status \in Active => rows[l].status \in Active
        BY DEF Active
      <3>2. \A l \in RowIds : l # k => ~(rows'[l].status \in Active /\ rows'[k].status \in Active)
        BY <2>1, <3>1 DEF Inv, OneLive, Active
      <3> QED
        BY <2>1, <3>1, <3>2 DEF Inv, OneLive
    <2>2. ASSUME flow = "admin", NEW q \in Requests, req'[q].pc \in InMail PROVE Sends(q)'
      <3>1. CASE q = r
        BY <2>2, <3>1 DEF Sends
      <3>2. CASE q # r
        <4>1. Sends(q) /\ req'[q] = req[q]
          BY <2>2, <3>2 DEF Inv, OneLive
        <4>2. rows[k].status \in {"none", "pending"}
          BY NextIdIs DEF Inv
        <4> QED
          BY <4>1, <4>2 DEF Sends
      <3> QED
        BY <3>1, <3>2
    <2>3. flow # "admin" => \A i \in RowIds : rows'[i].status # "sending"
      BY DEF Inv, OneLive
    <2>4. \A q \in Requests : req'[q].pc \in InMail => /\ req'[q].id \in RowIds
                                                     /\ rows'[req'[q].id].status # "none"
      BY DEF Inv, OneLive
    <2> QED
      BY <2>1, <2>2, <2>3, <2>4 DEF Inv, OneLive
  <1> QED
    BY <1>2, <1>7, <1>8 DEF Inv

\* a request puts its copy back, over a row that is no longer there or that it stored itself
LEMMA RestoreInv ==
    ASSUME Inv, TypeOK', NEW r \in Requests, NEW k \in RowIds, req[r].pc = "refused", Kept(r),
           UNCHANGED <<flow, uses, guesses>>,
           rows[k].status \notin {"none"},
           flow # "reset" => rows[k].status \in Active,
           flow = "admin" => rows[k].code = r,
           rows'[k] = req[r].previous,
           \A j \in RowIds : j # k => rows'[j] = rows[j],
           \A q \in Requests : q # r => req'[q] = req[q],
           req'[r].pc = "done", ~Kept(r)'
    PROVE  Inv'
  <1>1. Open' = Open
    BY DEF Open
  <1>2. req[r].previous.status = "pending" /\ req[r].pc \notin Unsent
    BY DEF Inv, Codes, Unsent
  <1>3. Filled'
    BY <1>2, FilledKept DEF Inv, Unsent
  <1>4. \A row : Fit(row) => Fit(row)'
    BY <1>2 DEF Fit, Unsent
  <1>5. \A q \in Requests : Kept(q)' => q # r /\ Kept(q) /\ req'[q] = req[q]
    BY DEF Kept
  <1>6. Codes'
    <2>1. ASSUME NEW j \in RowIds, rows'[j].status \in Open PROVE Fit(rows[j])'
      BY <1>4, <2>1 DEF Inv, Codes
    <2>2. \A q \in Requests : Kept(q)' => req'[q].previous.status = "pending"
                                          /\ Fit(req[q].previous)'
      BY <1>4, <1>5 DEF Inv, Codes
    <2>3. /\ \A i, j \in RowIds : rows'[i].status \in Open /\ rows'[j].status \in Open
                                    /\ rows'[i].code = rows'[j].code => i = j
          /\ \A i \in RowIds, q \in Requests : rows'[i].status \in Open /\ Kept(q)'
                                             => rows'[i].code # req'[q].previous.code
          /\ \A q, s \in Requests : Kept(q)' /\ Kept(s)'
                                    /\ req'[q].previous.code = req'[s].previous.code => q = s
      BY <1>5 DEF Inv, Codes
    <2>4. \A q \in Requests : req'[q].pc \in Unsent => uses[q] = 0 /\ guesses[q] = 0 /\ ~Kept(q)'
      BY <1>5 DEF Inv, Codes, Unsent
    <2> QED
      BY <1>1, <2>1, <2>2, <2>3, <2>4 DEF Inv, Codes
  <1>7. OneLive'
    <2>1. flow # "reset" => \A j \in RowIds : rows'[j].status \in Active => rows[j].status \in Active
      BY <1>2 DEF Active
    <2>2. ASSUME flow = "admin", NEW q \in Requests, req'[q].pc \in InMail PROVE Sends(q)'
      <3>1. q # r /\ Sends(q) /\ req'[q] = req[q]
        BY <2>2 DEF Inv, OneLive, InMail
      <3> QED
        BY <2>2, <3>1 DEF Sends
    <2>3. flow # "admin" => \A j \in RowIds : rows'[j].status # "sending"
      BY <1>2 DEF Inv, OneLive
    <2>4. \A q \in Requests : req'[q].pc \in InMail => /\ req'[q].id \in RowIds
                                                     /\ rows'[req'[q].id].status # "none"
      BY <1>2 DEF Inv, OneLive, InMail
    <2> QED
      BY <2>1, <2>2, <2>3, <2>4 DEF Inv, OneLive
  <1> QED
    BY <1>3, <1>6, <1>7 DEF Inv

-----------------------------------------------------------------------------
(* What the flows have in common.                                          *)

OthersTyped ==
    /\ flow \in Flows
    /\ now \in Nat
    /\ finish \in [Finishers -> FinishType]
    /\ delivered \subseteq Requests
    /\ account \in {"none", "active", "inactive"}
    /\ contact \in BOOLEAN
    /\ password \in {"none", "elsewhere", "set"}
    /\ proofUntil \in Nat
    /\ legal \in Versions
    /\ accepted \subseteq Versions
    /\ lost \subseteq Requests
    /\ events \in 0 .. MaxEvents

LEMMA Typed ==
    ASSUME OthersTyped',
           rows' \in [RowIds -> Row], req' \in [Requests -> ReqType], tokens' \in Nat,
           uses' \in [Requests -> Nat], guesses' \in [Requests -> Nat]
    PROVE  TypeOK'
  BY DEF TypeOK, OthersTyped, ReqType, FinishType

LEMMA WasTyped ==
    ASSUME Inv
    PROVE  /\ rows \in [RowIds -> Row] /\ req \in [Requests -> ReqType] /\ tokens \in Nat
           /\ uses \in [Requests -> Nat] /\ guesses \in [Requests -> Nat]
           /\ OthersTyped
  BY DEF Inv, TypeOK, OthersTyped, ReqType, FinishType

LEMMA NoFinishTyped == NoFinish \in FinishType
  <1>1. [d \in Documents |-> 0] \in Versions
    BY BoundsAssumption DEF Versions
  <1> QED
    BY <1>1 DEF NoFinish, FinishType

\* a step beside the rows and the requests
LEMMA AsideInv ==
    ASSUME Inv, OthersTyped', UNCHANGED <<flow, rows, tokens, req, uses, guesses>>
    PROVE  Inv'
  <1>1. TypeOK'
    BY Typed, WasTyped
  <1>2. \A r \in Requests : Steady(r)
    BY DEF Steady, Kept, Inv, Codes
  <1> QED
    BY <1>1, <1>2, KeepInv DEF Moved

LEMMA GotoSteady ==
    ASSUME Inv, NEW r \in Requests, NEW pc \in InFlight \cup {"new", "done"}, Goto(r, pc),
           pc \in InMail => req[r].pc \in InMail,
           req[r].pc \notin Unsent => pc \notin Unsent,
           flow = "admin" => \A q \in Requests : q # r /\ req[q].pc \in InMail
                                 => rows'[req[q].id] = rows[req[q].id],
           flow = "admin" /\ pc \in InMail => rows'[req[r].id] = rows[req[r].id]
    PROVE  req' \in [Requests -> ReqType] /\ \A q \in Requests : Steady(q)
  <1>1. TypeOK /\ "done" \notin InMail
    BY DEF Inv, InMail
  <1>2. /\ req' \in [Requests -> ReqType]
        /\ req'[r].pc = pc
        /\ req'[r].previous = NoRow \/ req'[r].previous = req[r].previous
        /\ pc # "done" => req'[r].previous = req[r].previous /\ req'[r].id = req[r].id
        /\ \A q \in Requests : q # r => req'[q] = req[q]
    BY <1>1, GotoIs
  <1>3. Steady(r)
    BY <1>1, <1>2 DEF Steady, Kept, Inv, Codes
  <1>4. \A q \in Requests : q # r => Steady(q)
    BY <1>2 DEF Steady, Kept, Inv, Codes
  <1> QED
    BY <1>2, <1>3, <1>4

\* a step of a request that leaves the rows alone
LEMMA GotoInv ==
    ASSUME Inv, OthersTyped', NEW r \in Requests, NEW pc \in InFlight \cup {"new", "done"},
           Goto(r, pc), UNCHANGED <<flow, rows, tokens, uses, guesses>>,
           pc \in InMail => req[r].pc \in InMail,
           req[r].pc \notin Unsent => pc \notin Unsent
    PROVE  Inv'
  <1>1. req' \in [Requests -> ReqType] /\ \A q \in Requests : Steady(q)
    BY GotoSteady
  <1>2. TypeOK'
    BY <1>1, Typed, WasTyped
  <1> QED
    BY <1>1, <1>2, KeepInv DEF Moved

\* a row is closed on the way
LEMMA ShutInv ==
    ASSUME Inv, OthersTyped', NEW i \in RowIds, rows[i].status # "none", flow # "admin",
           NEW s \in {"expired", "invalidated"}, rows' = Close(i, s),
           UNCHANGED <<flow, tokens, uses, guesses>>,
           req' \in [Requests -> ReqType], \A q \in Requests : Steady(q)
    PROVE  Inv'
  <1>1. /\ rows' \in [RowIds -> Row]
        /\ rows'[i].status = s
        /\ \A j \in RowIds : j # i => rows'[j] = rows[j]
    BY CloseIs DEF Inv, Stored
  <1>2. TypeOK'
    BY <1>1, Typed, WasTyped
  <1> QED
    BY <1>1, <1>2, KeepInv DEF Moved

LEMMA SameReq ==
    ASSUME Inv, UNCHANGED req, flow # "admin"
    PROVE  req' \in [Requests -> ReqType] /\ \A q \in Requests : Steady(q)
  BY DEF Inv, TypeOK, ReqType, Steady, Kept, Codes

LEMMA WrongInv ==
    ASSUME Inv, OthersTyped', NEW i \in RowIds, rows[i].status = "pending", flow # "admin",
           WrongCode(i), UNCHANGED <<flow, tokens, req, uses>>
    PROVE  Inv'
  <1>1. rows[i].code \in Requests /\ rows[i].attempts \in 0 .. MaxAttempts
    BY DEF Inv, Codes, Open, Fit, TypeOK, Row
  <1>2. rows \in [RowIds -> Row] /\ MaxAttempts \in Nat /\ guesses \in [Requests -> Nat]
    BY BoundsAssumption DEF Inv, TypeOK
  <1>3. guesses' = [guesses EXCEPT ![rows[i].code] = @ + 1] /\ guesses' \in [Requests -> Nat]
    BY <1>1, <1>2 DEF WrongCode
  <1>4. /\ rows' \in [RowIds -> Row]
        /\ \A j \in RowIds : j # i => rows'[j] = rows[j]
        /\ \/ rows'[i].status = "invalidated"
           \/ /\ rows'[i].status = "pending" /\ rows'[i].code = rows[i].code
              /\ rows'[i].attempts = rows[i].attempts + 1
              /\ rows[i].attempts + 1 < MaxAttempts
    <2>1. CASE rows[i].attempts + 1 >= MaxAttempts
      <3>1. rows' = Close(i, "invalidated")
        BY <2>1 DEF WrongCode
      <3> QED
        BY <3>1, CloseIs DEF Inv, Stored
    <2>2. CASE rows[i].attempts + 1 < MaxAttempts
      <3>1. rows' = [rows EXCEPT ![i].attempts = rows[i].attempts + 1]
        BY <1>1, <1>2, <2>2 DEF WrongCode
      <3>2. rows[i].attempts + 1 \in 0 .. MaxAttempts
        BY <1>1, <1>2, <2>2
      <3> QED
        BY <1>2, <2>2, <3>1, <3>2 DEF Row
    <2> QED
      BY <1>1, <1>2, <2>1, <2>2
  <1>5. TypeOK'
    BY <1>3, <1>4, Typed, WasTyped
  <1> QED
    BY <1>3, <1>4, <1>5, GuessInv

LEMMA TokenInv ==
    ASSUME Inv, OthersTyped', NEW i \in RowIds, rows[i].status = "pending", flow # "admin",
           NEW at \in Nat, IssueToken(i, at), UNCHANGED <<flow, req, uses, guesses>>
    PROVE  Inv'
  <1>1. rows \in [RowIds -> Row] /\ tokens + 1 \in Nat /\ at + TokenTtl \in Nat
    BY BoundsAssumption DEF Inv, TypeOK
  <1>2. rows' = [rows EXCEPT ![i].status = "verified", ![i].token = tokens + 1,
                             ![i].tokenExpires = at + TokenTtl]
    BY DEF IssueToken
  <1>3. \A j \in RowIds : j # i => rows'[j] = rows[j]
    BY <1>1, <1>2
  <1>4. rows'[i] = [rows[i] EXCEPT !.status = "verified", !.token = tokens + 1,
                                   !.tokenExpires = at + TokenTtl]
    BY <1>1, <1>2
  <1>5. rows'[i] \in Row /\ rows'[i].status = "verified" /\ rows'[i].code = rows[i].code
    BY <1>1, <1>4 DEF Row, Stored
  <1>6. rows' \in [RowIds -> Row]
    BY <1>1, <1>2, <1>3, <1>5
  <1>7. TypeOK'
    BY <1>1, <1>6, Typed, WasTyped DEF IssueToken
  <1> QED
    BY <1>3, <1>5, <1>7, SameReq, KeepInv DEF Moved

LEMMA SpendInv ==
    ASSUME Inv, OthersTyped', NEW i \in RowIds, rows[i].status \in Open,
           flow = "admin" => rows[i].status = "pending",
           NEW s, s = IF flow = "admin" THEN "verified" ELSE "consumed",
           rows' = Close(i, s), Grant(rows[i].code), UNCHANGED <<flow, tokens, req, guesses>>
    PROVE  Inv'
  <1>1. s \in Stored /\ s \notin Open \cup Active \cup {"none"}
    BY DEF Stored, Open, Active
  <1>2. /\ rows' \in [RowIds -> Row]
        /\ rows'[i].status = s
        /\ \A j \in RowIds : j # i => rows'[j] = rows[j]
    BY <1>1, CloseIs DEF Inv
  <1>3. uses' \in [Requests -> Nat]
    <2>1. rows[i].code \in Requests
      BY DEF Inv, Codes, Fit
    <2> QED
      BY <2>1, WasTyped DEF Grant
  <1>4. TypeOK'
    BY <1>2, <1>3, Typed, WasTyped
  <1> QED
    BY <1>1, <1>2, <1>4, UseInv

\* what a request writes for its code
Ours(row, r) ==
    /\ row \in Row /\ row.code = r /\ row.attempts = 0
    /\ row.status = IF flow = "admin" THEN "sending" ELSE "pending"

LEMMA PutInv ==
    ASSUME Inv, OthersTyped', NEW r \in Requests, req[r].pc \in Unsent,
           NEW i \in RowIds, rows[i].status = "pending", NEW row, Ours(row, r), NEW m,
           rows' = [rows EXCEPT ![i] = row], Store(r, i, rows[i], m),
           UNCHANGED <<flow, tokens, uses, guesses>>
    PROVE  Inv'
  <1>1. TypeOK /\ rows[i] \in Row
    BY DEF Inv, TypeOK
  <1>2. /\ req' \in [Requests -> ReqType]
        /\ req'[r].pc \in {"mailing", "done"}
        /\ req'[r].pc = "done" => req'[r].previous = NoRow
        /\ req'[r].pc = "mailing" => req'[r].previous = rows[i] /\ req'[r].id = i
        /\ \A q \in Requests : q # r => req'[q] = req[q]
    BY <1>1, StoreIs
  <1>3. /\ rows' \in [RowIds -> Row] /\ rows'[i] = row
        /\ \A j \in RowIds : j # i => rows'[j] = rows[j]
    BY WasTyped DEF Ours
  <1>4. TypeOK'
    BY <1>2, <1>3, Typed, WasTyped
  <1>5. req'[r].pc \notin Unsent /\ (req'[r].pc \in InMail => req'[r].id = i)
        /\ (Kept(r)' => req'[r].previous = rows[i])
    BY <1>2 DEF Unsent, InMail, Kept
  <1> QED
    BY <1>2, <1>3, <1>4, <1>5, StoreInv DEF Ours

\* over nothing, or with the row that has expired closed
LEMMA InsertInv ==
    ASSUME Inv, OthersTyped', NEW r \in Requests, req[r].pc \in Unsent,
           NEW i, i = NoId \/ (i \in RowIds /\ rows[i].status = "pending"),
           i = NoId => \A j \in RowIds : rows[j].status \notin Active,
           NEW row, Ours(row, r), NEW m,
           rows' = [(IF i = NoId THEN rows ELSE Close(i, "expired")) EXCEPT ![NextId] = row],
           Store(r, NextId, NoRow, m), UNCHANGED <<flow, tokens, uses, guesses>>
    PROVE  Inv'
  <1>1. /\ TypeOK /\ NextId \in RowIds /\ rows[NextId].status = "none"
    BY NextIdIs DEF Inv
  <1>2. /\ req' \in [Requests -> ReqType]
        /\ req'[r].pc \in {"mailing", "done"}
        /\ req'[r].previous = NoRow
        /\ req'[r].pc = "mailing" => req'[r].id = NextId
        /\ \A q \in Requests : q # r => req'[q] = req[q]
    BY <1>1, StoreIs, NoRowTyped
  <1> DEFINE base == IF i = NoId THEN rows ELSE Close(i, "expired")
  <1>3. /\ base \in [RowIds -> Row]
        /\ \A j \in RowIds : j # i => base[j] = rows[j]
        /\ i # NoId => base[i].status = "expired"
    BY <1>1, CloseIs, WasTyped, IdsFinite DEF Stored
  <1>4. rows' = [base EXCEPT ![NextId] = row]
    OBVIOUS
  <1> HIDE DEF base
  <1>5. /\ rows' \in [RowIds -> Row] /\ rows'[NextId] = row
        /\ \A j \in RowIds : j # NextId => rows'[j] = base[j]
    BY <1>1, <1>3, <1>4 DEF Ours
  <1>6. \A j \in RowIds : j # NextId => \/ rows'[j] = rows[j]
                                        \/ rows[j].status = "pending" /\ rows'[j].status = "expired"
    BY <1>3, <1>5, IdsFinite
  <1>7. flow # "reset" => \A j \in RowIds : j # NextId => rows'[j].status \notin Active
    <2> SUFFICES ASSUME flow # "reset", NEW j \in RowIds, j # NextId, rows'[j].status \in Active
                 PROVE  FALSE
      OBVIOUS
    <2>1. j # i /\ rows[j].status \in Active
      BY <1>3, <1>5, IdsFinite DEF Active
    <2>2. i \in RowIds /\ rows[i].status \in Active
      BY <2>1 DEF Active
    <2> QED
      BY <2>1, <2>2 DEF Inv, OneLive
  <1>8. TypeOK'
    BY <1>2, <1>5, Typed, WasTyped
  <1>9. req'[r].pc \notin Unsent /\ (req'[r].pc \in InMail => req'[r].id = NextId) /\ ~Kept(r)'
    BY <1>2 DEF Unsent, InMail, Kept
  <1> QED
    BY <1>1, <1>2, <1>5, <1>6, <1>7, <1>8, <1>9, StoreInv DEF Ours

\* the copy is put back
LEMMA BackInv ==
    ASSUME Inv, OthersTyped', NEW r \in Requests, req[r].pc = "refused", Kept(r),
           flow # "reset" => rows[req[r].id].status \in Active,
           flow = "admin" => rows[req[r].id].code = r,
           rows' = [rows EXCEPT ![req[r].id] = req[r].previous],
           Goto(r, "done"), UNCHANGED <<flow, tokens, uses, guesses>>
    PROVE  Inv'
  <1>1. req[r].id \in RowIds /\ rows[req[r].id].status # "none"
    BY DEF Inv, OneLive, InMail
  <1>2. /\ req' \in [Requests -> ReqType]
        /\ req'[r].pc = "done" /\ req'[r].previous = NoRow
        /\ \A q \in Requests : q # r => req'[q] = req[q]
    BY GotoIs DEF Inv
  <1>3. req[r].previous \in Row
    BY WasTyped DEF ReqType
  <1>4. /\ rows' \in [RowIds -> Row]
        /\ rows'[req[r].id] = req[r].previous
        /\ \A j \in RowIds : j # req[r].id => rows'[j] = rows[j]
    BY <1>1, <1>3, WasTyped
  <1>5. TypeOK'
    BY <1>2, <1>4, Typed, WasTyped
  <1>6. ~Kept(r)'
    BY <1>2 DEF Kept
  <1> QED
    BY <1>1, <1>2, <1>4, <1>5, <1>6, RestoreInv

\* the row that was inserted is deleted
LEMMA DropInv ==
    ASSUME Inv, OthersTyped', NEW r \in Requests, req[r].pc = "refused",
           flow = "admin" => rows[req[r].id].code = r,
           rows' = Delete(req[r].id), Goto(r, "done"), UNCHANGED <<flow, tokens, uses, guesses>>
    PROVE  Inv'
  <1>1. req[r].id \in RowIds /\ rows[req[r].id].status # "none"
    BY DEF Inv, OneLive, InMail
  <1>2. /\ rows' \in [RowIds -> Row] /\ rows'[req[r].id].status = "deleted"
        /\ \A j \in RowIds : j # req[r].id => rows'[j] = rows[j]
    BY <1>1, DeleteIs DEF Inv
  <1>3. flow = "admin" => \A q \in Requests : q # r /\ req[q].pc \in InMail
                                 => rows'[req[q].id] = rows[req[q].id]
    BY <1>2 DEF Inv, OneLive, Sends
  <1>4. req' \in [Requests -> ReqType] /\ \A q \in Requests : Steady(q)
    BY <1>3, GotoSteady DEF InMail, Unsent
  <1>5. TypeOK'
    BY <1>2, <1>4, Typed, WasTyped
  <1> QED
    BY <1>1, <1>2, <1>4, <1>5, KeepInv DEF Moved

\* a clean-up that looks whether the row is still its own
LEMMA CleanInv ==
    ASSUME Inv, OthersTyped', flow \in {"login", "setup"}, NEW r \in Requests,
           req[r].pc = "refused",
           rows' = CASE ~Owns(r) -> rows
                     [] Owns(r) /\ req[r].previous # NoRow ->
                            [rows EXCEPT ![req[r].id] = req[r].previous]
                     [] OTHER -> Delete(req[r].id),
           Goto(r, "done"), UNCHANGED <<flow, tokens, uses, guesses>>
    PROVE  Inv'
  <1>1. CASE ~Owns(r)
    BY <1>1, GotoInv DEF InMail, Unsent
  <1>2. CASE Owns(r) /\ Kept(r)
    <2>1. rows[req[r].id].status \in Active
      BY <1>2 DEF Owns, Active
    <2>2. rows' = [rows EXCEPT ![req[r].id] = req[r].previous]
      BY <1>2 DEF Kept
    <2> QED
      BY <1>2, <2>1, <2>2, BackInv
  <1>3. CASE Owns(r) /\ ~Kept(r)
    <2>1. rows' = Delete(req[r].id)
      BY <1>3 DEF Kept
    <2> QED
      BY <2>1, DropInv
  <1> QED
    BY <1>1, <1>2, <1>3

LEMMA PendingIs ==
    ASSUME Inv, NEW i, i = Latest({"pending"})
    PROVE  /\ i = NoId \/ (i \in RowIds /\ rows[i].status = "pending")
           /\ i # NoId => i \in RowIds /\ rows[i].status = "pending"
           /\ i = NoId /\ flow # "admin" => \A j \in RowIds : rows[j].status \notin Active
  <1>1. \/ i = NoId /\ WithStatus({"pending"}) = {}
        \/ i # NoId /\ i \in RowIds /\ rows[i].status = "pending"
    BY LatestIs
  <1> QED
    BY <1>1 DEF WithStatus, Active, Inv, OneLive

LEMMA VerifiedIs ==
    ASSUME Inv, NEW i, i = Latest({"verified"}), i # NoId, flow # "admin"
    PROVE  i \in RowIds /\ rows[i].status = "verified" /\ rows[i].status \in Open
  <1>1. i \in RowIds /\ rows[i].status = "verified"
    BY LatestIs
  <1> QED
    BY <1>1 DEF Open

LEMMA OursIs ==
    ASSUME Inv, NEW r \in Requests, NEW u \in BOOLEAN, NEW c \in BOOLEAN, flow # "admin"
    PROVE  /\ Ours([Fresh(r, "pending") EXCEPT !.user = u, !.contact = c], r)
           /\ Ours([Fresh(r, "pending") EXCEPT !.user = u], r)
  <1> DEFINE f == Fresh(r, "pending")
  <1>1. f \in Row /\ f.status = "pending" /\ f.code = r /\ f.attempts = 0
    BY FreshTyped DEF Inv, Stored
  <1> HIDE DEF f
  <1>2. Ours([f EXCEPT !.user = u, !.contact = c], r)
    BY <1>1 DEF Ours, Row
  <1>3. Ours([f EXCEPT !.user = u], r)
    BY <1>1 DEF Ours, Row
  <1> QED
    BY <1>2, <1>3 DEF f

\* the two ways StoreLogin, StoreSetup and StoreReset write a row
LEMMA StoredInv ==
    ASSUME Inv, OthersTyped', flow # "admin", NEW r \in Requests, req[r].pc \in Unsent,
           NEW i, i = Latest({"pending"}), NEW row, Ours(row, r), NEW m,
           UNCHANGED <<flow, tokens, uses, guesses>>,
           \/ i # NoId /\ rows' = [rows EXCEPT ![i] = row] /\ Store(r, i, rows[i], m)
           \/ /\ rows' = [(IF i = NoId THEN rows ELSE Close(i, "expired")) EXCEPT ![NextId] = row]
              /\ Store(r, NextId, NoRow, m)
    PROVE  Inv'
  <1>1. CASE i # NoId /\ rows' = [rows EXCEPT ![i] = row] /\ Store(r, i, rows[i], m)
    BY <1>1, PendingIs, PutInv
  <1>2. CASE /\ rows' = [(IF i = NoId THEN rows ELSE Close(i, "expired")) EXCEPT ![NextId] = row]
             /\ Store(r, NextId, NoRow, m)
    BY <1>2, PendingIs, InsertInv
  <1> QED
    BY <1>1, <1>2

\* an entry: the row is too old, the code is wrong, or a token is issued
LEMMA EnteredInv ==
    ASSUME Inv, OthersTyped', flow # "admin", NEW i, i = Latest({"pending"}), i # NoId,
           NEW at \in Nat, UNCHANGED <<flow, req, uses>>,
           \/ rows' = Close(i, "expired") /\ UNCHANGED <<tokens, guesses>>
           \/ WrongCode(i) /\ UNCHANGED tokens
           \/ IssueToken(i, at) /\ UNCHANGED guesses
    PROVE  Inv'
  <1>1. i \in RowIds /\ rows[i].status = "pending"
    BY PendingIs
  <1>2. CASE rows' = Close(i, "expired") /\ UNCHANGED <<tokens, guesses>>
    BY <1>1, <1>2, ShutInv, SameReq
  <1>3. CASE WrongCode(i) /\ UNCHANGED tokens
    BY <1>1, <1>3, WrongInv
  <1>4. CASE IssueToken(i, at) /\ UNCHANGED guesses
    BY <1>1, <1>4, TokenInv
  <1> QED
    BY <1>2, <1>3, <1>4

-----------------------------------------------------------------------------
(* The actions.                                                            *)

LEMMA MailsInv ==
    ASSUME Inv, NEW r \in Requests, Begin(r) \/ MailAccepted(r) \/ MailRefused(r) \/ Lose(r)
    PROVE  Inv'
  <1>1. CASE Begin(r)
    <2>1. req' = [req EXCEPT ![r].pc = "begun", ![r].at = now] /\ req[r].pc = "new"
      BY <1>1 DEF Begin
    <2>2. /\ req' \in [Requests -> ReqType]
          /\ req'[r].pc = "begun" /\ req'[r].previous = req[r].previous
          /\ \A q \in Requests : q # r => req'[q] = req[q]
      <3>1. req'[r] = [req[r] EXCEPT !.pc = "begun", !.at = now] /\ now \in Nat
            /\ \A q \in Requests : q # r => req'[q] = req[q]
        BY <2>1, WasTyped DEF OthersTyped
      <3>2. req[r] \in ReqType /\ "begun" \in InFlight
        BY WasTyped DEF InFlight
      <3>3. req'[r] \in ReqType /\ req'[r].pc = "begun" /\ req'[r].previous = req[r].previous
        BY <3>1, <3>2 DEF ReqType
      <3> QED
        BY <2>1, <3>1, <3>3, WasTyped
    <2>3. OthersTyped' /\ UNCHANGED <<flow, rows, tokens, uses, guesses>>
      BY <1>1, WasTyped DEF Begin, OthersTyped, table, identity, law
    <2>4. TypeOK'
      BY <2>2, <2>3, Typed, WasTyped
    <2>5. \A q \in Requests : Steady(q)
      BY <2>1, <2>2, <2>3 DEF Steady, Kept, Inv, Codes, Unsent, InMail
    <2> QED
      BY <2>3, <2>4, <2>5, KeepInv DEF Moved
  <1>2. CASE MailAccepted(r)
    <2>1. OthersTyped' /\ UNCHANGED <<flow, rows, tokens, uses, guesses>>
      BY <1>2, WasTyped DEF MailAccepted, OthersTyped, table, identity, law
    <2>2. PICK pc \in {"mailed", "done"} : Goto(r, pc)
      BY <1>2 DEF MailAccepted
    <2> QED
      BY <1>2, <2>1, <2>2, GotoInv DEF MailAccepted, InMail, Unsent, InFlight
  <1>3. CASE MailRefused(r)
    <2>1. OthersTyped' /\ UNCHANGED <<flow, rows, tokens, uses, guesses>>
      BY <1>3, WasTyped DEF MailRefused, OthersTyped, table, identity, law
    <2> QED
      BY <1>3, <2>1, GotoInv DEF MailRefused, InMail, Unsent, InFlight
  <1>4. CASE Lose(r)
    <2>1. OthersTyped' /\ UNCHANGED <<flow, rows, tokens, uses, guesses>>
      BY <1>4, WasTyped, BoundsAssumption DEF Lose, Disturb, OthersTyped, table, identity, law
    <2> QED
      BY <1>4, <2>1, GotoInv DEF Lose, InMail, Unsent
  <1> QED
    BY <1>1, <1>2, <1>3, <1>4

LEMMA OutsideInv ==
    ASSUME Inv, \/ Tick \/ Deactivate \/ CreateUser \/ ResetElsewhere
                \/ \E d \in Documents : UploadDocument(d)
                \/ \E f \in Finishers, t \in 1 .. tokens : BeginFinish(f, t)
                \/ \E f \in Finishers, d \in Documents : ReadDocument(f, d)
    PROVE  Inv'
  <1>1. CASE Tick
    BY <1>1, WasTyped, AsideInv DEF Tick, OthersTyped, table, identity, law
  <1>2. CASE Deactivate \/ CreateUser \/ ResetElsewhere
    BY <1>2, WasTyped, BoundsAssumption, AsideInv
    DEF Deactivate, CreateUser, ResetElsewhere, Disturb, OthersTyped, table, identity, law
  <1>3. ASSUME NEW d \in Documents, UploadDocument(d) PROVE Inv'
    <2>1. legal' \in Versions /\ events' \in 0 .. MaxEvents
      <3>1. legal \in Versions /\ legal' = [legal EXCEPT ![d] = legal[d] + 1] /\ legal[d] < MaxVersion
            /\ events \in 0 .. MaxEvents
        BY <1>3, WasTyped DEF UploadDocument, OthersTyped
      <3> QED
        BY <1>3, <3>1, BoundsAssumption DEF UploadDocument, Disturb, Versions
    <2> QED
      BY <1>3, <2>1, WasTyped, AsideInv DEF UploadDocument, OthersTyped, table, identity
  <1>4. ASSUME NEW f \in Finishers, NEW t \in 1 .. tokens, BeginFinish(f, t) PROVE Inv'
    <2>1. finish' \in [Finishers -> FinishType]
      <3>1. [NoFinish EXCEPT !.pc = "begun", !.at = now, !.token = t, !.from = legal] \in FinishType
        <4>1. now \in Nat /\ t \in Nat /\ legal \in Versions
          BY WasTyped DEF OthersTyped
        <4>2. ASSUME NEW x \in FinishType
              PROVE  [x EXCEPT !.pc = "begun", !.at = now, !.token = t, !.from = legal] \in FinishType
          BY <4>1 DEF FinishType
        <4> QED
          BY <4>2, NoFinishTyped
      <3> QED
        BY <1>4, <3>1, WasTyped DEF BeginFinish, OthersTyped
    <2> QED
      BY <1>4, <2>1, WasTyped, AsideInv DEF BeginFinish, OthersTyped, table, identity, law
  <1>5. ASSUME NEW f \in Finishers, NEW d \in Documents, ReadDocument(f, d) PROVE Inv'
    <2>1. finish' \in [Finishers -> FinishType]
      <3>1. /\ finish \in [Finishers -> FinishType] /\ legal[d] \in 0 .. MaxVersion
            /\ finish' = [finish EXCEPT ![f].read = @ \cup {d}, ![f].seen[d] = legal[d]]
        BY <1>5, WasTyped DEF ReadDocument, OthersTyped, Versions
      <3>2. finish'[f] = [finish[f] EXCEPT !.read = @ \cup {d}, !.seen[d] = legal[d]]
            /\ \A g \in Finishers : g # f => finish'[g] = finish[g]
        BY <3>1
      <3> DEFINE l == [finish[f].seen EXCEPT ![d] = legal[d]]
                 s == finish[f].read \cup {d}
      <3>3. l \in Versions /\ s \in SUBSET Documents /\ finish[f] \in FinishType
        BY <3>1 DEF FinishType, Versions
      <3>4. finish'[f] = [finish[f] EXCEPT !.read = s, !.seen = l]
        BY <3>1, <3>2 DEF FinishType
      <3> HIDE DEF l, s
      <3>5. finish'[f] \in FinishType
        BY <3>3, <3>4 DEF FinishType
      <3> QED
        BY <3>1, <3>2, <3>5
    <2> QED
      BY <1>5, <2>1, WasTyped, AsideInv DEF ReadDocument, OthersTyped, loginRest
  <1> QED
    BY <1>1, <1>2, <1>3, <1>4, <1>5

LEMMA RequestsOfLogin ==
    ASSUME Inv, flow = "login", NEW r \in Requests,
           PreflightLogin(r) \/ ObserveLogin(r) \/ StoreLogin(r) \/ CleanupLogin(r)
    PROVE  Inv'
  <1> DEFINE i == Latest({"pending"})
  <1>1. CASE PreflightLogin(r)
    <2>1. OthersTyped' /\ UNCHANGED <<flow, tokens, uses, guesses>>
      BY <1>1, WasTyped DEF PreflightLogin, OthersTyped, loginRest
    <2>2. PICK pc \in {"done", "ready"} : Goto(r, pc)
      BY <1>1 DEF PreflightLogin
    <2>3. req[r].pc = "begun"
      BY <1>1 DEF PreflightLogin
    <2>4. CASE rows' = rows
      BY <2>1, <2>2, <2>3, <2>4, GotoInv DEF InMail, Unsent, InFlight
    <2>5. CASE i # NoId /\ rows' = Close(i, "expired")
      <3>1. i \in RowIds /\ rows[i].status = "pending"
        BY <2>5, PendingIs
      <3>2. req' \in [Requests -> ReqType] /\ \A q \in Requests : Steady(q)
        BY <2>2, <2>3, GotoSteady DEF InMail, Unsent, InFlight
      <3> QED
        BY <2>1, <2>5, <3>1, <3>2, ShutInv
    <2> QED
      BY <1>1, <2>4, <2>5 DEF PreflightLogin
  <1>2. CASE ObserveLogin(r)
    <2>1. OthersTyped' /\ UNCHANGED <<flow, rows, tokens, uses, guesses>>
      BY <1>2, WasTyped DEF ObserveLogin, OthersTyped, loginRest
    <2> DEFINE c == account = "none" /\ contact
    <2>2. req[r].pc = "ready" /\ c \in BOOLEAN
      BY <1>2, WasTyped DEF ObserveLogin, OthersTyped
    <2>3. req' = [req EXCEPT ![r].pc = "hashed", ![r].contact = c]
      BY <1>2 DEF ObserveLogin
    <2> HIDE DEF c
    <2>4. /\ req' \in [Requests -> ReqType]
          /\ req'[r].pc = "hashed" /\ req'[r].previous = req[r].previous
          /\ \A q \in Requests : q # r => req'[q] = req[q]
      <3>1. req'[r] = [req[r] EXCEPT !.pc = "hashed", !.contact = c]
            /\ \A q \in Requests : q # r => req'[q] = req[q]
        BY <2>3, WasTyped
      <3>2. req[r] \in ReqType /\ "hashed" \in InFlight
        BY WasTyped DEF InFlight
      <3>3. req'[r] \in ReqType /\ req'[r].pc = "hashed" /\ req'[r].previous = req[r].previous
        BY <2>2, <3>1, <3>2 DEF ReqType
      <3> QED
        BY <2>3, <3>1, <3>3, WasTyped
    <2>5. TypeOK'
      BY <2>1, <2>4, Typed, WasTyped
    <2>6. \A q \in Requests : Steady(q)
      BY <2>1, <2>2, <2>4 DEF Steady, Kept, Inv, Codes, Unsent, InMail
    <2> QED
      BY <2>1, <2>5, <2>6, KeepInv DEF Moved
  <1>3. CASE StoreLogin(r)
    <2>1. OthersTyped' /\ UNCHANGED <<flow, tokens, uses, guesses>>
      BY <1>3, WasTyped DEF StoreLogin, OthersTyped, loginRest
    <2>2. req[r].pc = "hashed"
      BY <1>3 DEF StoreLogin
    <2>3. CASE rows' = rows /\ Goto(r, "done")
      BY <2>1, <2>2, <2>3, GotoInv DEF InMail, Unsent, InFlight
    <2>4. CASE ~(rows' = rows /\ Goto(r, "done"))
      <3> DEFINE row == [Fresh(r, "pending") EXCEPT !.user = account = "active",
                                                  !.contact = account = "none" /\ req[r].contact]
      <3>1. Ours(row, r)
        <4>1. (account = "active") \in BOOLEAN /\ (account = "none" /\ req[r].contact) \in BOOLEAN
          OBVIOUS
        <4> QED
          BY <4>1, OursIs
      <3>2. PICK m : \/ i # NoId /\ rows' = [rows EXCEPT ![i] = row] /\ Store(r, i, rows[i], m)
                     \/ /\ rows' = [(IF i = NoId THEN rows ELSE Close(i, "expired"))
                                      EXCEPT ![NextId] = row]
                        /\ Store(r, NextId, NoRow, m)
        BY <1>3, <2>4 DEF StoreLogin
      <3> QED
        BY <2>1, <2>2, <3>1, <3>2, StoredInv DEF Unsent
    <2> QED
      BY <2>3, <2>4
  <1>4. CASE CleanupLogin(r)
    <2>1. OthersTyped' /\ UNCHANGED <<flow, tokens, uses, guesses>>
      BY <1>4, WasTyped DEF CleanupLogin, OthersTyped, loginRest
    <2> QED
      BY <1>4, <2>1, CleanInv DEF CleanupLogin
  <1> QED
    BY <1>1, <1>2, <1>3, <1>4

LEMMA VerifyLoginInv ==
    ASSUME Inv, flow = "login", NEW at \in Times, NEW entry, VerifyLogin(entry, at)
    PROVE  Inv'
  <1> DEFINE i == Latest({"pending"})
  <1>1. OthersTyped' /\ UNCHANGED <<flow, req>> /\ i # NoId
    BY WasTyped DEF VerifyLogin, OthersTyped, loginRest
  <1>2. i \in RowIds /\ rows[i].status = "pending" /\ rows[i].status \in Open
    BY <1>1, PendingIs DEF Open
  <1>3. at \in Nat
    BY WasTyped DEF Times, OthersTyped
  <1>4. CASE rows' = Close(i, "invalidated") /\ UNCHANGED <<tokens, uses, guesses>>
    BY <1>1, <1>2, <1>4, ShutInv, SameReq
  <1>5. CASE rows' = Close(i, "consumed") /\ Grant(rows[i].code) /\ UNCHANGED <<tokens, guesses>>
    BY <1>1, <1>2, <1>5, SpendInv
  <1>6. CASE /\ UNCHANGED uses
             /\ \/ rows' = Close(i, "expired") /\ UNCHANGED <<tokens, guesses>>
                \/ WrongCode(i) /\ UNCHANGED tokens
                \/ IssueToken(i, at) /\ UNCHANGED guesses
    BY <1>1, <1>3, <1>6, EnteredInv
  <1> QED
    BY <1>4, <1>5, <1>6 DEF VerifyLogin

LEMMA AcceptLegalInv ==
    ASSUME Inv, flow = "login", NEW f \in Finishers, AcceptLegal(f)
    PROVE  Inv'
  <1> DEFINE i == Latest({"verified"})
  <1>1. finish' \in [Finishers -> FinishType] /\ UNCHANGED <<flow, tokens, req, guesses>>
    BY WasTyped, NoFinishTyped DEF AcceptLegal, Leave, OthersTyped, loginRest
  <1>2. finish[f].seen \in Versions
    BY WasTyped DEF OthersTyped, FinishType
  <1>3. OthersTyped'
    BY <1>1, <1>2, WasTyped DEF AcceptLegal, OthersTyped, loginRest
  <1>4. CASE UNCHANGED <<rows, account, accepted, uses>>
    BY <1>1, <1>3, <1>4, AsideInv
  <1>5. CASE i # NoId /\ rows' = Close(i, "invalidated") /\ UNCHANGED uses
    <2>1. i \in RowIds /\ rows[i].status # "none"
      BY <1>5, VerifiedIs
    <2> QED
      BY <1>1, <1>3, <1>5, <2>1, ShutInv, SameReq
  <1>6. CASE i # NoId /\ rows' = Close(i, "consumed") /\ Grant(rows[i].code)
    <2>1. i \in RowIds /\ rows[i].status \in Open
      BY <1>6, VerifiedIs
    <2> QED
      BY <1>1, <1>3, <1>6, <2>1, SpendInv
  <1> QED
    BY <1>4, <1>5, <1>6 DEF AcceptLegal

LEMMA RequestsOfSetup ==
    ASSUME Inv, flow = "setup", NEW r \in Requests,
           FreshSetup(r) \/ PreflightSetup(r) \/ StoreSetup(r) \/ CleanupSetup(r)
    PROVE  Inv'
  <1> DEFINE i == Latest({"pending"})
  <1>1. CASE FreshSetup(r)
    <2>1. OthersTyped' /\ UNCHANGED <<flow, uses, guesses>> /\ Goto(r, "done") /\ req[r].pc = "begun"
      BY <1>1, WasTyped DEF FreshSetup, OthersTyped, setupRest, identity, law
    <2>2. CASE UNCHANGED table
      BY <2>1, <2>2, GotoInv DEF InMail, Unsent, InFlight, table
    <2>3. CASE /\ tokens' = tokens + 1
               /\ rows' = [rows EXCEPT ![NextId] =
                    [NoRow EXCEPT !.status = "verified", !.code = r, !.user = TRUE,
                                  !.expires = req[r].at + TokenTtl, !.resend = req[r].at,
                                  !.token = tokens + 1, !.tokenExpires = req[r].at + TokenTtl]]
      <3> DEFINE a == req[r].at
                 e == req[r].at + TokenTtl
                 n == tokens + 1
                 row == [NoRow EXCEPT !.status = "verified", !.code = r, !.user = TRUE,
                                      !.expires = e, !.resend = a, !.token = n, !.tokenExpires = e]
      <3>1. a \in Nat /\ e \in Nat /\ n \in Nat /\ tokens' = n
        BY <2>3, WasTyped, BoundsAssumption DEF ReqType
      <3>2. rows' = [rows EXCEPT ![NextId] = row]
        BY <2>3
      <3> HIDE DEF a, e, n
      <3>3. row \in Row /\ row.status = "verified" /\ row.code = r /\ row.attempts = 0
        BY <3>1, NoRowTyped DEF Row, Stored
      <3> HIDE DEF row
      <3>4. NextId \in RowIds
        BY <2>1, NextIdIs DEF Inv, Unsent
      <3>5. /\ rows' \in [RowIds -> Row] /\ rows'[NextId] = row
            /\ \A j \in RowIds : j # NextId => rows'[j] = rows[j]
        BY <3>2, <3>3, <3>4, WasTyped
      <3>6. /\ req' \in [Requests -> ReqType]
            /\ req'[r].pc = "done" /\ req'[r].previous = NoRow
            /\ \A q \in Requests : q # r => req'[q] = req[q]
        BY <2>1, GotoIs DEF Inv
      <3>7. TypeOK'
        BY <2>1, <3>1, <3>5, <3>6, Typed, WasTyped
      <3>8. req[r].pc \in Unsent /\ req'[r].pc \notin Unsent /\ req'[r].pc \notin InMail /\ ~Kept(r)'
        BY <2>1, <3>6 DEF Unsent, InMail, Kept
      <3> QED
        BY <2>1, <3>3, <3>4, <3>5, <3>6, <3>7, <3>8, StoreInv DEF Active
    <2> QED
      BY <1>1, <2>2, <2>3 DEF FreshSetup
  <1>2. CASE PreflightSetup(r)
    <2>1. OthersTyped' /\ UNCHANGED <<flow, rows, tokens, uses, guesses>>
      BY <1>2, WasTyped DEF PreflightSetup, OthersTyped, setupRest, identity, law, table
    <2>2. PICK pc \in {"hashed", "done"} : Goto(r, pc)
      BY <1>2 DEF PreflightSetup
    <2> QED
      BY <1>2, <2>1, <2>2, GotoInv DEF PreflightSetup, InMail, Unsent, InFlight
  <1>3. CASE StoreSetup(r)
    <2>1. OthersTyped' /\ UNCHANGED <<flow, tokens, uses, guesses>>
      BY <1>3, WasTyped DEF StoreSetup, OthersTyped, setupRest, identity, law
    <2>2. req[r].pc = "hashed"
      BY <1>3 DEF StoreSetup
    <2>3. CASE rows' = rows /\ Goto(r, "done")
      BY <2>1, <2>2, <2>3, GotoInv DEF InMail, Unsent, InFlight
    <2>4. CASE ~(rows' = rows /\ Goto(r, "done"))
      <3> DEFINE row == [Fresh(r, "pending") EXCEPT !.user = TRUE]
      <3>1. Ours(row, r)
        BY OursIs
      <3>2. \/ i # NoId /\ rows' = [rows EXCEPT ![i] = row] /\ Store(r, i, rows[i], TRUE)
            \/ /\ rows' = [(IF i = NoId THEN rows ELSE Close(i, "expired")) EXCEPT ![NextId] = row]
               /\ Store(r, NextId, NoRow, TRUE)
        BY <1>3, <2>4 DEF StoreSetup
      <3> QED
        BY <2>1, <2>2, <3>1, <3>2, StoredInv DEF Unsent
    <2> QED
      BY <2>3, <2>4
  <1>4. CASE CleanupSetup(r)
    <2>1. OthersTyped' /\ UNCHANGED <<flow, tokens, uses, guesses>>
      BY <1>4, WasTyped DEF CleanupSetup, OthersTyped, setupRest, identity, law
    <2> QED
      BY <1>4, <2>1, CleanInv DEF CleanupSetup
  <1> QED
    BY <1>1, <1>2, <1>3, <1>4

LEMMA ConfirmSetupInv ==
    ASSUME Inv, flow = "setup", NEW at \in Times, NEW entry, ConfirmSetup(entry, at)
    PROVE  Inv'
  <1>1. OthersTyped' /\ UNCHANGED <<flow, req, uses>>
    BY WasTyped DEF ConfirmSetup, OthersTyped, setupRest, identity, law
  <1>2. at \in Nat
    BY WasTyped DEF Times, OthersTyped
  <1> QED
    BY <1>1, <1>2, EnteredInv DEF ConfirmSetup

LEMMA FinishersOfSetup ==
    ASSUME Inv, flow = "setup", NEW f \in Finishers, CheckSetup(f) \/ SetSetupPassword(f)
    PROVE  Inv'
  <1> DEFINE i == Latest({"verified"})
  <1>1. finish' \in [Finishers -> FinishType]
    <2>1. finish' = [finish EXCEPT ![f].pc = "checked"] \/ finish' = [finish EXCEPT ![f] = NoFinish]
      BY DEF CheckSetup, SetSetupPassword, SetupRefused, Leave
    <2>2. finish \in [Finishers -> FinishType]
      BY WasTyped DEF OthersTyped
    <2>3. CASE finish' = [finish EXCEPT ![f].pc = "checked"]
      BY <2>2, <2>3 DEF FinishType
    <2>4. CASE finish' = [finish EXCEPT ![f] = NoFinish]
      BY <2>2, <2>4, NoFinishTyped
    <2> QED
      BY <2>1, <2>3, <2>4
  <1>2. OthersTyped' /\ UNCHANGED <<flow, tokens, req, guesses>>
    BY <1>1, WasTyped DEF CheckSetup, SetSetupPassword, OthersTyped, setupRest, identity, law
  <1>3. CASE rows' = rows /\ uses' = uses
    BY <1>2, <1>3, AsideInv
  <1>4. CASE i # NoId /\ rows' = Close(i, "invalidated") /\ uses' = uses
    <2>1. i \in RowIds /\ rows[i].status # "none"
      BY <1>4, VerifiedIs
    <2> QED
      BY <1>2, <1>4, <2>1, ShutInv, SameReq
  <1>5. CASE i # NoId /\ rows' = Close(i, "consumed") /\ Grant(rows[i].code)
    <2>1. i \in RowIds /\ rows[i].status \in Open
      BY <1>5, VerifiedIs
    <2> QED
      BY <1>2, <1>5, <2>1, SpendInv
  <1> QED
    BY <1>3, <1>4, <1>5 DEF CheckSetup, SetSetupPassword, SetupReady, SetupRefused

LEMMA ResetsInv ==
    ASSUME Inv, flow = "reset", NEW r \in Requests, StoreReset(r) \/ CleanupReset(r)
    PROVE  Inv'
  <1> DEFINE i == Latest({"pending"})
  <1>1. CASE StoreReset(r)
    <2>1. OthersTyped' /\ UNCHANGED <<flow, tokens, uses, guesses>>
      BY <1>1, WasTyped DEF StoreReset, OthersTyped, resetRest, identity, law
    <2>2. req[r].pc = "begun"
      BY <1>1 DEF StoreReset
    <2>3. CASE rows' = rows /\ Goto(r, "done")
      BY <2>1, <2>2, <2>3, GotoInv DEF InMail, Unsent, InFlight
    <2>4. CASE ~(rows' = rows /\ Goto(r, "done"))
      <3> DEFINE row == [Fresh(r, "pending") EXCEPT !.user = account = "active"]
      <3>1. Ours(row, r)
        BY OursIs
      <3>2. PICK m : \/ i # NoId /\ rows' = [rows EXCEPT ![i] = row] /\ Store(r, i, rows[i], m)
                     \/ /\ rows' = [(IF i = NoId THEN rows ELSE Close(i, "expired"))
                                      EXCEPT ![NextId] = row]
                        /\ Store(r, NextId, NoRow, m)
        BY <1>1, <2>4 DEF StoreReset
      <3> QED
        BY <2>1, <2>2, <3>1, <3>2, StoredInv DEF Unsent
    <2> QED
      BY <2>3, <2>4
  <1>2. CASE CleanupReset(r)
    <2>1. OthersTyped' /\ UNCHANGED <<flow, tokens, uses, guesses>>
      BY <1>2, WasTyped DEF CleanupReset, OthersTyped, resetRest, identity, law
    <2>2. req[r].pc = "refused" /\ Goto(r, "done")
      BY <1>2 DEF CleanupReset
    <2>3. CASE rows' = rows
      BY <2>1, <2>2, <2>3, GotoInv DEF InMail, Unsent, InFlight
    <2>4. CASE Kept(r) /\ rows' = [rows EXCEPT ![req[r].id] = req[r].previous]
      BY <2>1, <2>2, <2>4, BackInv
    <2>5. CASE rows' = Delete(req[r].id)
      BY <2>1, <2>2, <2>5, DropInv
    <2> QED
      BY <1>2, <2>3, <2>4, <2>5 DEF CleanupReset, Kept
  <1> QED
    BY <1>1, <1>2

LEMMA EntriesOfReset ==
    ASSUME Inv, flow = "reset", NEW at \in Times, NEW entry,
           ConfirmReset(entry, at) \/ SetResetPassword(entry, at)
    PROVE  Inv'
  <1> DEFINE i == Latest({"verified"})
  <1>1. OthersTyped' /\ UNCHANGED <<flow, req>>
    BY WasTyped DEF ConfirmReset, SetResetPassword, OthersTyped, resetRest, identity, law
  <1>2. CASE ConfirmReset(entry, at)
    <2>1. at \in Nat
      BY WasTyped DEF Times, OthersTyped
    <2> QED
      BY <1>1, <1>2, <2>1, EnteredInv DEF ConfirmReset
  <1>3. CASE SetResetPassword(entry, at)
    <2>1. i \in RowIds /\ rows[i].status \in Open /\ rows[i].status # "none"
      BY <1>3, VerifiedIs DEF SetResetPassword
    <2>2. CASE rows' = Close(i, "invalidated") /\ UNCHANGED uses
      BY <1>1, <1>3, <2>1, <2>2, ShutInv, SameReq DEF SetResetPassword
    <2>3. CASE rows' = Close(i, "consumed") /\ Grant(rows[i].code)
      BY <1>1, <1>3, <2>1, <2>3, SpendInv DEF SetResetPassword
    <2> QED
      BY <1>3, <2>2, <2>3 DEF SetResetPassword
  <1> QED
    BY <1>2, <1>3

LEMMA AdminInv ==
    ASSUME Inv, flow = "admin", NEW r \in Requests,
           RefuseAdmin(r) \/ StoreAdmin(r) \/ MarkAdmin(r) \/ CleanupAdmin(r)
    PROVE  Inv'
  <1>1. OthersTyped' /\ UNCHANGED <<flow, tokens, uses, guesses>>
    BY WasTyped DEF RefuseAdmin, StoreAdmin, MarkAdmin, CleanupAdmin, OthersTyped, adminRest,
                    identity, law
  <1>2. CASE RefuseAdmin(r)
    BY <1>1, <1>2, GotoInv DEF RefuseAdmin, InMail, Unsent, InFlight
  <1>3. CASE StoreAdmin(r)
    <2> DEFINE i == Latest(Active)
               f == Fresh(r, "sending")
               row == [f EXCEPT !.user = TRUE]
    <2>1. /\ i = NoId \/ i \in RowIds
          /\ i = NoId => \A j \in RowIds : rows[j].status \notin Active
      BY LatestIs DEF WithStatus
    <2>2. req[r].pc \in Unsent
      BY <1>3 DEF StoreAdmin, Unsent
    <2>3. Ours(row, r)
      <3>1. f \in Row /\ f.status = "sending" /\ f.code = r /\ f.attempts = 0
        BY FreshTyped DEF Inv, Stored
      <3> HIDE DEF f
      <3> QED
        BY <3>1 DEF Ours, Row
    <2>4. CASE rows' = rows /\ Goto(r, "done")
      BY <1>1, <2>2, <2>4, GotoInv DEF InMail, Unsent, InFlight
    <2>5. CASE i # NoId /\ rows[i].status = "pending" /\ rows' = [rows EXCEPT ![i] = row]
               /\ Store(r, i, rows[i], TRUE)
      BY <1>1, <2>1, <2>2, <2>3, <2>5, PutInv
    <2>6. CASE /\ i # NoId => rows[i].status = "pending"
               /\ rows' = [(IF i = NoId THEN rows ELSE Close(i, "expired")) EXCEPT ![NextId] = row]
               /\ Store(r, NextId, NoRow, TRUE)
      BY <1>1, <2>1, <2>2, <2>3, <2>6, InsertInv
    <2> QED
      BY <1>3, <2>4, <2>5, <2>6 DEF StoreAdmin
  <1>4. CASE MarkAdmin(r)
    <2> DEFINE k == req[r].id
    <2>1. req[r].pc = "mailed" /\ Sends(r) /\ Goto(r, "done")
      BY <1>4 DEF MarkAdmin, Inv, OneLive, InMail
    <2>2. rows' = [rows EXCEPT ![k].status = "pending"]
      BY <1>4, <2>1 DEF MarkAdmin, Sends, SetStatus
    <2>3. /\ rows' \in [RowIds -> Row]
          /\ rows'[k].status = "pending" /\ rows'[k].code = rows[k].code
          /\ \A j \in RowIds : j # k => rows'[j] = rows[j]
      BY <2>1, <2>2, WasTyped DEF Sends, Row, Stored
    <2>4. \A q \in Requests : q # r /\ req[q].pc \in InMail => rows'[req[q].id] = rows[req[q].id]
      BY <2>1, <2>3, <1>1 DEF Inv, OneLive, Sends
    <2>5. req' \in [Requests -> ReqType] /\ \A q \in Requests : Steady(q)
      BY <2>1, <2>4, GotoSteady DEF InMail, Unsent, InFlight
    <2>6. TypeOK'
      BY <1>1, <2>3, <2>5, Typed, WasTyped
    <2> QED
      BY <1>1, <2>1, <2>3, <2>5, <2>6, KeepInv DEF Moved, Sends
  <1>5. CASE CleanupAdmin(r)
    <2>1. req[r].pc = "refused" /\ Sends(r) /\ Goto(r, "done")
      BY <1>5 DEF CleanupAdmin, Inv, OneLive, InMail
    <2>2. rows[req[r].id].code = r /\ rows[req[r].id].status \in Active
      BY <2>1 DEF Sends, Active
    <2>3. CASE Kept(r)
      BY <1>1, <1>5, <2>1, <2>2, <2>3, BackInv DEF CleanupAdmin, Kept
    <2>4. CASE ~Kept(r)
      BY <1>1, <1>5, <2>1, <2>2, <2>4, DropInv DEF CleanupAdmin, Kept
    <2> QED
      BY <2>3, <2>4
  <1> QED
    BY <1>2, <1>3, <1>4, <1>5

LEMMA VerifyAdminInv ==
    ASSUME Inv, flow = "admin", NEW at, NEW entry, VerifyAdmin(entry, at)
    PROVE  Inv'
  <1>1. OthersTyped' /\ UNCHANGED <<flow, tokens, req, guesses>>
    BY WasTyped DEF VerifyAdmin, OthersTyped, adminRest, identity, law
  <1>2. Latest({"pending"}) \in RowIds /\ rows[Latest({"pending"})].status = "pending"
    BY PendingIs DEF VerifyAdmin
  <1> QED
    BY <1>1, <1>2, SpendInv DEF VerifyAdmin, Open

\* a wrong code of an administrator: nothing but the history of guesses has changed
LEMMA WrongAdminInv ==
    ASSUME Inv, flow = "admin", NEW at, NEW entry, WrongAdmin(entry, at)
    PROVE  Inv'
  <1>1. PICK i : i = Latest({"pending"})
    OBVIOUS
  <1>2. i \in RowIds /\ rows[i].status = "pending"
    BY <1>1, PendingIs DEF WrongAdmin
  <1>3. /\ UNCHANGED <<flow, rows, req, uses, tokens>>
        /\ guesses' = [guesses EXCEPT ![rows[i].code] = @ + 1]
    BY <1>1 DEF WrongAdmin, table
  <1>4. PICK c \in Requests : c = rows[i].code
    BY <1>2 DEF Inv, Codes, Fit, Open
  <1>5. req[c].pc \notin Unsent
    BY <1>2, <1>4 DEF Inv, Codes, Fit, Open
  <1>6. guesses' \in [Requests -> Nat] /\ \A r \in Requests : r # c => guesses'[r] = guesses[r]
    BY <1>3, <1>4 DEF Inv, TypeOK
  <1>7. TypeOK'
    <2>1. OthersTyped' /\ UNCHANGED <<tokens, uses>>
      BY <1>3, WasTyped DEF WrongAdmin, OthersTyped, identity, law
    <2> QED
      BY <1>3, <1>6, <2>1, Typed, WasTyped
  <1>8. Filled'
    BY <1>3, FilledKept DEF Inv
  <1>9. Codes'
    <2>1. \A row : Fit(row) => Fit(row)'
      BY <1>3 DEF Fit
    <2>2. \A r \in Requests : req[r].pc \in Unsent => guesses'[r] = 0
      BY <1>5, <1>6 DEF Inv, Codes
    <2>3. /\ \A j \in RowIds : rows[j].status \in Open => Fit(rows[j])'
          /\ \A r \in Requests : Kept(r) => req[r].previous.status = "pending"
                                             /\ Fit(req[r].previous)'
      BY <1>3, <2>1 DEF Inv, Codes
    <2>4. Open' = Open /\ \A r \in Requests : Kept(r)' = Kept(r)
      BY <1>3 DEF Open, Kept
    <2>5. \A r \in Requests : uses[r] \in {0, 1}
      BY DEF Inv, Codes
    <2> QED
      BY <1>3, <2>2, <2>3, <2>4, <2>5 DEF Inv, Codes
  <1>10. OneLive'
    BY <1>3 DEF Inv, OneLive, Sends
  <1> QED
    BY <1>7, <1>8, <1>9, <1>10 DEF Inv

-----------------------------------------------------------------------------
LEMMA InitInv == Init => Inv
  <1> SUFFICES ASSUME Init PROVE Inv
    OBVIOUS
  <1>1. rows = [i \in RowIds |-> NoRow] /\ req = [r \in Requests |-> Idle]
        /\ uses = [r \in Requests |-> 0] /\ guesses = [r \in Requests |-> 0]
    BY DEF Init
  <1>2. Idle \in ReqType /\ Idle.pc = "new" /\ Idle.previous = NoRow
    BY NoRowTyped DEF Idle, ReqType
  <1>3. legal \in Versions
    <2>1. [d \in Documents |-> 0] \in Versions /\ [d \in Documents |-> 1] \in Versions
      BY BoundsAssumption DEF Versions
    <2> QED
      BY <2>1 DEF Init
  <1>4. TypeOK
    <2>1. OthersTyped
      <3>1. account \in {"none", "active"} /\ contact \in BOOLEAN /\ proofUntil \in {0, 1}
        BY DEF Init
      <3>2. accepted = {} \/ accepted = {legal}
        BY DEF Init
      <3>3. accepted \subseteq Versions
        BY <1>3, <3>2
      <3>4. 0 \in 0 .. MaxEvents
        BY BoundsAssumption
      <3> QED
        BY <1>3, <3>1, <3>3, <3>4, NoFinishTyped DEF Init, OthersTyped, Flows
    <2>2. /\ rows \in [RowIds -> Row] /\ req \in [Requests -> ReqType] /\ tokens \in Nat
          /\ uses \in [Requests -> Nat] /\ guesses \in [Requests -> Nat]
      BY <1>1, <1>2, NoRowTyped DEF Init
    <2> QED
      BY <2>1, <2>2 DEF TypeOK, OthersTyped, ReqType, FinishType
  <1>5. Filled
    <2>1. \A i \in RowIds : rows[i].status # "none" <=> i <= 0
      BY <1>1, NoRowTyped, IdsFinite DEF RowIds
    <2>2. 0 <= Cardinality(Past)
      BY PastFinite
    <2> QED
      BY <2>1, <2>2 DEF Filled
  <1>6. Codes
    BY <1>1, <1>2, NoRowTyped, BoundsAssumption DEF Codes, Kept, Open
  <1>7. OneLive
    BY <1>1, <1>2, NoRowTyped DEF OneLive, InMail, Active
  <1> QED
    BY <1>4, <1>5, <1>6, <1>7 DEF Inv

LEMMA NextInv == Inv /\ [Next]_vars => Inv'
  <1> SUFFICES ASSUME Inv, [Next]_vars PROVE Inv'
    OBVIOUS
  <1>1. CASE \E r \in Requests : Begin(r) \/ MailAccepted(r) \/ MailRefused(r) \/ Lose(r)
    BY <1>1, MailsInv
  <1>2. CASE \E f \in Finishers, t \in 1 .. tokens : BeginFinish(f, t)
    BY <1>2, OutsideInv
  <1>3. CASE Tick \/ Deactivate
    BY <1>3, OutsideInv
  <1>4. CASE flow = "login" /\ LoginNext
    BY <1>4, OutsideInv, RequestsOfLogin, VerifyLoginInv, AcceptLegalInv DEF LoginNext
  <1>5. CASE flow = "setup" /\ SetupNext
    BY <1>5, OutsideInv, RequestsOfSetup, ConfirmSetupInv, FinishersOfSetup DEF SetupNext
  <1>6. CASE flow = "reset" /\ ResetNext
    BY <1>6, OutsideInv, ResetsInv, EntriesOfReset DEF ResetNext
  <1>7. CASE flow = "admin" /\ AdminNext
    BY <1>7, AdminInv, VerifyAdminInv, WrongAdminInv DEF AdminNext
  <1>8. CASE UNCHANGED vars
    BY <1>8, WasTyped, AsideInv DEF vars, OthersTyped
  <1> QED
    BY <1>1, <1>2, <1>3, <1>4, <1>5, <1>6, <1>7, <1>8 DEF Next

\* Every variable of the four flows keeps its type: a row that is read has been inserted, and a
\* request that inserts one finds a free id.
THEOREM TypeCorrect == Spec => []TypeOK
  <1>1. Inv => TypeOK
    BY DEF Inv
  <1> QED
    BY <1>1, InitInv, NextInv, PTL DEF Spec

\* However requests, failed mails, clean-ups and entries interleave, a code of
\* passwordless-login, password-setup or tenant-admin never stands beside another one that
\* could be entered: the transactions that insert a row close the one that has expired.
THEOREM OneActiveAlways == Spec => []OneActive
  <1>1. Inv => OneActive
    <2> SUFFICES ASSUME Inv, flow # "reset" PROVE Cardinality(WithStatus(Active)) <= 1
      BY DEF OneActive
    <2>1. CASE WithStatus(Active) = {}
      BY <2>1, FS_EmptySet
    <2>2. CASE WithStatus(Active) # {}
      <3>1. PICK i \in RowIds : i \in WithStatus(Active)
        BY <2>2 DEF WithStatus
      <3>2. WithStatus(Active) = {i}
        BY <3>1 DEF WithStatus, Inv, OneLive
      <3> QED
        BY <3>2, FS_Singleton
    <2> QED
      BY <2>1, <2>2
  <1> QED
    BY <1>1, InitInv, NextInv, PTL DEF Spec

\* A code opens one session or sets one password, although a clean-up after a failed mail may
\* put a replaced row back (cleanupFailedLoginDelivery, cleanupFailedResetDelivery): its code
\* is in that copy or in a row, and in neither once it was used.
THEOREM CodeUsedOnce == Spec => []OneUse
  <1>1. Inv => OneUse
    BY DEF Inv, Codes, OneUse
  <1> QED
    BY <1>1, InitInv, NextInv, PTL DEF Spec

\* In passwordless-login, password-setup and password-reset wrong entries are counted for
\* the code they were entered against, in the copies that are put back too, and a code with
\* too many of them is never accepted. (verifyAdminLoginCode rolls its count back.)
THEOREM GuessesAlwaysCounted == Spec => []GuessesCounted
  <1>1. Inv => GuessesCounted
    <2> SUFFICES ASSUME Inv, flow # "admin"
                 PROVE  /\ \A i \in WithStatus({"pending"}) : rows[i].attempts = guesses[rows[i].code]
                        /\ \A r \in Requests : uses[r] > 0 => guesses[r] < MaxAttempts
      BY DEF GuessesCounted
    <2>1. \A i \in WithStatus({"pending"}) : rows[i].attempts = guesses[rows[i].code]
      BY DEF Inv, Codes, WithStatus, Open, Fit
    <2>2. \A r \in Requests : uses[r] > 0 => guesses[r] < MaxAttempts
      BY DEF Inv, Codes
    <2> QED
      BY <2>1, <2>2
  <1> QED
    BY <1>1, InitInv, NextInv, PTL DEF Spec

\* Of the steps that record a use only the second transaction of setPassword belongs to a
\* set-up, and it looks at the user again: a set-up never writes over a password, whether
\* the user, an operator or a reset has set it while the challenge was open.
THEOREM PasswordKept == Spec => SetupKeepsPassword
  <1>1. Inv /\ [Next]_vars => [flow = "setup" /\ uses' # uses => password = "none"]_vars
    <2> SUFFICES ASSUME Inv, Next, flow = "setup", uses' # uses PROVE password = "none"
      BY DEF vars
    <2>1. PICK f \in Finishers : SetSetupPassword(f)
      BY DEF Next, Begin, MailAccepted, MailRefused, Lose, BeginFinish, Tick, Deactivate, SetupNext,
             FreshSetup, PreflightSetup, StoreSetup, CleanupSetup, ConfirmSetup, CheckSetup,
             ResetElsewhere
    <2> QED
      BY <2>1 DEF SetSetupPassword, SetupReady, Passwordless
  <1> QED
    BY <1>1, InitInv, NextInv, PTL DEF Spec, SetupKeepsPassword

\* acceptLegal has read no version older than the one that was active when it began
Reads ==
    \A f \in Finishers : finish[f].pc = "begun" =>
        \A d \in Documents : /\ finish[f].from[d] <= legal[d]
                             /\ d \in finish[f].read => finish[f].from[d] <= finish[f].seen[d]

LEMMA ReadsInv == Inv /\ Reads /\ [Next]_vars => Reads'
  <1> SUFFICES ASSUME Inv, Reads, [Next]_vars PROVE Reads'
    OBVIOUS
  <1>1. /\ finish \in [Finishers -> FinishType]
        /\ \A d \in Documents : legal[d] \in Nat
        /\ \A f \in Finishers, d \in Documents : finish[f].from[d] \in Nat
    BY WasTyped, BoundsAssumption DEF OthersTyped, FinishType, Versions
  <1>2. CASE UNCHANGED <<finish, legal>>
    BY <1>2 DEF Reads
  <1>3. ASSUME NEW f \in Finishers, Leave(f) \/ finish' = [finish EXCEPT ![f].pc = "checked"],
               UNCHANGED legal
        PROVE  Reads'
    <2>1. \A g \in Finishers : g # f => finish'[g] = finish[g]
      BY <1>1, <1>3 DEF Leave
    <2>2. finish'[f].pc # "begun"
      BY <1>1, <1>3 DEF Leave, NoFinish, FinishType
    <2> QED
      BY <1>3, <2>1, <2>2 DEF Reads
  <1>4. ASSUME NEW f \in Finishers, NEW t, BeginFinish(f, t) PROVE Reads'
    <2>1. \A g \in Finishers : g # f => finish'[g] = finish[g]
      BY <1>1, <1>4 DEF BeginFinish
    <2>2. finish'[f].from = legal /\ finish'[f].read = {} /\ legal' = legal
      BY <1>1, <1>4 DEF BeginFinish, NoFinish, law
    <2> QED
      BY <1>1, <2>1, <2>2 DEF Reads
  <1>5. ASSUME NEW f \in Finishers, NEW d \in Documents, ReadDocument(f, d) PROVE Reads'
    <2>1. finish' = [finish EXCEPT ![f].read = @ \cup {d}, ![f].seen[d] = legal[d]]
      BY <1>5 DEF ReadDocument
    <2>2. \A g \in Finishers : g # f => finish'[g] = finish[g]
      BY <1>1, <2>1
    <2>3. finish[f].seen \in [Documents -> 0 .. MaxVersion]
      BY <1>1 DEF FinishType, Versions
    <2>4. /\ finish'[f].pc = finish[f].pc /\ finish'[f].from = finish[f].from
          /\ finish'[f].read = finish[f].read \cup {d}
          /\ finish'[f].seen = [finish[f].seen EXCEPT ![d] = legal[d]]
      BY <1>1, <2>1 DEF FinishType
    <2>5. /\ finish'[f].seen[d] = legal[d]
          /\ \A e \in Documents : e # d => finish'[f].seen[e] = finish[f].seen[e]
      BY <2>3, <2>4
    <2>6. legal' = legal
      BY <1>5 DEF ReadDocument, loginRest
    <2>7. finish'[f].pc = "begun" =>
            \A e \in Documents : /\ finish'[f].from[e] <= legal'[e]
                                 /\ e \in finish'[f].read => finish'[f].from[e] <= finish'[f].seen[e]
      BY <2>4, <2>5, <2>6 DEF Reads
    <2> QED
      BY <2>2, <2>6, <2>7 DEF Reads
  <1>6. ASSUME NEW d \in Documents, UploadDocument(d) PROVE Reads'
    <2>1. finish' = finish /\ \A e \in Documents : legal'[e] = legal[e] \/ legal'[e] = legal[e] + 1
      BY <1>6, WasTyped DEF UploadDocument, OthersTyped, Versions
    <2> QED
      BY <1>1, <2>1 DEF Reads
  <1>7. CASE \/ \E r \in Requests : Begin(r) \/ MailAccepted(r) \/ MailRefused(r) \/ Lose(r)
             \/ Tick \/ Deactivate \/ CreateUser \/ ResetElsewhere \/ ResetNext \/ AdminNext
             \/ \E r \in Requests : \/ PreflightLogin(r) \/ ObserveLogin(r) \/ StoreLogin(r)
                                    \/ CleanupLogin(r) \/ FreshSetup(r) \/ PreflightSetup(r)
                                    \/ StoreSetup(r) \/ CleanupSetup(r)
             \/ \E at \in Times, entry \in delivered \cup {NoRequest} :
                    VerifyLogin(entry, at) \/ ConfirmSetup(entry, at)
             \/ UNCHANGED vars
    <2>1. UNCHANGED <<finish, legal>>
      BY <1>7 DEF Begin, MailAccepted, MailRefused, Lose, Tick, Deactivate, CreateUser,
                  ResetElsewhere, ResetNext, StoreReset, CleanupReset, ConfirmReset,
                  SetResetPassword, AdminNext, RefuseAdmin, StoreAdmin, MarkAdmin, CleanupAdmin,
                  VerifyAdmin, WrongAdmin, PreflightLogin, ObserveLogin, StoreLogin, CleanupLogin, FreshSetup,
                  PreflightSetup, StoreSetup, CleanupSetup, VerifyLogin, ConfirmSetup, vars, law,
                  loginRest, setupRest, resetRest, adminRest
    <2> QED
      BY <1>2, <2>1
  <1>8. ASSUME NEW f \in Finishers, CheckSetup(f) \/ SetSetupPassword(f) PROVE Reads'
    BY <1>3, <1>8 DEF CheckSetup, SetSetupPassword, SetupRefused, setupRest, law
  <1>9. ASSUME NEW f \in Finishers, AcceptLegal(f) PROVE Reads'
    BY <1>3, <1>9 DEF AcceptLegal, loginRest
  <1> QED
    BY <1>4, <1>5, <1>6, <1>7, <1>8, <1>9 DEF Next, LoginNext, SetupNext

\* A session of passwordless-login is opened for somebody who has accepted the documents in
\* force, or by an acceptLegal whose two queries have read versions at least as young as
\* those in force when it began, whatever is uploaded between them.
THEOREM SessionAlwaysCovered == Spec => SessionCovered
  <1>1. Init => Reads
    BY DEF Init, Reads, NoFinish
  <1>2. ASSUME Inv, Reads, Next, flow = "login", uses' # uses
        PROVE  \/ legal \in accepted
               \/ \E f \in Finishers :
                      /\ finish[f] # finish'[f]
                      /\ finish[f].seen \in accepted'
                      /\ \A d \in Documents : finish[f].from[d] <= finish[f].seen[d]
                                              /\ finish[f].seen[d] > 0
    <2>1. CASE \E at \in Times, entry \in delivered \cup {NoRequest} : VerifyLogin(entry, at)
      BY <1>2, <2>1 DEF VerifyLogin, Accepted
    <2>2. ASSUME NEW f \in Finishers, AcceptLegal(f)
          PROVE  /\ finish[f] # finish'[f]
                 /\ finish[f].seen \in accepted'
                 /\ \A d \in Documents : finish[f].from[d] <= finish[f].seen[d]
                                         /\ finish[f].seen[d] > 0
      <3>1. finish \in [Finishers -> FinishType]
        BY <1>2, WasTyped DEF OthersTyped
      <3>2. finish[f].pc = "begun" /\ finish[f].read = Documents /\ Leave(f)
        BY <2>2 DEF AcceptLegal
      <3>3. finish'[f].pc = "idle"
        BY <3>1, <3>2 DEF Leave, NoFinish
      <3>4. /\ accepted' = accepted \cup {finish[f].seen}
            /\ \A d \in Documents : finish[f].seen[d] # 0
        BY <1>2, <2>2 DEF AcceptLegal
      <3>5. \A d \in Documents : finish[f].from[d] <= finish[f].seen[d]
                                 /\ finish[f].seen[d] \in Nat
        BY <1>2, <3>1, <3>2, BoundsAssumption DEF Reads, FinishType, Versions
      <3> QED
        BY <3>2, <3>3, <3>4, <3>5
    <2>3. \/ \E at \in Times, entry \in delivered \cup {NoRequest} : VerifyLogin(entry, at)
          \/ \E f \in Finishers : AcceptLegal(f)
      BY <1>2 DEF Next, Begin, MailAccepted, MailRefused, Lose, BeginFinish, Tick, Deactivate,
                  LoginNext, PreflightLogin, ObserveLogin, StoreLogin, CleanupLogin, ReadDocument,
                  UploadDocument, CreateUser
    <2> QED
      BY <2>1, <2>2, <2>3
  <1>3. Inv /\ Reads /\ [Next]_vars =>
            [flow = "login" /\ uses' # uses =>
                \/ legal \in accepted
                \/ \E f \in Finishers :
                       /\ finish[f] # finish'[f]
                       /\ finish[f].seen \in accepted'
                       /\ \A d \in Documents : finish[f].from[d] <= finish[f].seen[d]
                                               /\ finish[f].seen[d] > 0]_vars
    BY <1>2
  <1> QED
    BY <1>1, <1>3, InitInv, NextInv, ReadsInv, PTL DEF Spec, SessionCovered
-----------------------------------------------------------------------------
(* Waiting for a mail.                                                     *)

\* nobody waits for the mail of this row
Settled(row) ==
    \/ row.code \in delivered
    \/ ~row.user /\ ~row.contact
    \/ ~ResendLocked(row, now)
\* a request is still busy with the mail of row i
Mailing(i) == \E r \in Requests : req[r].pc \in InMail /\ req[r].id = i /\ rows[i].code = r
\* a fresh proof has put a younger row over row i
Overtaken(i) == flow = "setup" /\ \E j \in RowIds : rows[j].status \in Stored /\ j > i

\* the clean-up of a login finds its row, which is the youngest
TopPending ==
    flow = "login" => \A i, j \in RowIds : rows[i].status = "pending" /\ rows[j].status \in Stored
                                               => j <= i
\* a request has read the clock before, has mailed what it marks, and puts back settled rows only
Timely(r) ==
    /\ req[r].pc \in InFlight => req[r].at <= now
    /\ req[r].pc = "mailed" => r \in delivered
    /\ Kept(r) => Settled(req[r].previous)
Excused(i) == Mailing(i) \/ (rows[i].status = "pending" /\ (Settled(rows[i]) \/ Overtaken(i)))

Waits ==
    /\ \A r \in Requests : Timely(r)
    /\ TopPending
    /\ lost = {} => \A i \in RowIds : rows[i].status \in Active => Excused(i)

\* what a step does to row i and to request r
SameRow(i) ==
    /\ rows'[i].status = rows[i].status /\ rows'[i].code = rows[i].code
    /\ rows'[i].user = rows[i].user /\ rows'[i].contact = rows[i].contact
    /\ rows'[i].resend = rows[i].resend
OverRow(i) == rows[i].status \in Stored /\ rows'[i].status \in Stored \ Active
Fine(i) == rows'[i].status = "pending" /\ (Settled(rows[i])' \/ Overtaken(i)')
Released(r) ==
    \/ req'[r].pc \in InMail /\ req'[r].id = req[r].id
    \/ lost' # {}
    \/ rows'[req[r].id].status \in Active /\ rows'[req[r].id].code = r => Fine(req[r].id)

\* time passes, mails arrive, and a request that is lost stays lost
Onward ==
    /\ flow' = flow
    /\ now \in Nat /\ now' \in Nat /\ now <= now'
    /\ delivered \subseteq delivered'
    /\ lost' = lost \/ lost' # {}

LEMMA SettledStays ==
    ASSUME Onward, NEW row \in Row, Settled(row)
    PROVE  Settled(row)'
  <1>1. row.resend \in Nat
    BY DEF Row
  <1> QED
    BY <1>1 DEF Settled, ResendLocked, Onward

LEMMA WaitsStep ==
    ASSUME Inv, Inv', Waits, Onward, TopPending',
           \A r \in Requests : Timely(r)',
           \A r \in Requests : req[r].pc \in InMail => Released(r),
           \A i \in RowIds : rows'[i].status \in Active => SameRow(i) \/ Mailing(i)' \/ Fine(i),
           flow = "setup" => \/ \A i \in RowIds : rows[i].status \in Stored => rows'[i].status \in Stored
                             \/ \A i, j \in RowIds : SameRow(i) /\ rows'[i].status \in Active
                                                       /\ rows[j].status \in Stored /\ j > i
                                                       => rows'[j].status \in Stored
    PROVE  Waits'
  <1> SUFFICES ASSUME lost' = {}, NEW i \in RowIds, rows'[i].status \in Active,
                      ~Mailing(i)', ~Fine(i)
               PROVE  Excused(i)'
    BY DEF Waits, Excused, Fine
  <1>1. SameRow(i) /\ rows[i].status \in Active /\ lost = {}
    BY DEF SameRow, Onward
  <1>2. Excused(i)
    BY <1>1 DEF Waits
  <1>3. CASE Mailing(i)
    <2>1. PICK r \in Requests : req[r].pc \in InMail /\ req[r].id = i /\ rows[i].code = r
      BY <1>3 DEF Mailing
    <2>2. ~(req'[r].pc \in InMail /\ req'[r].id = i)
      BY <1>1, <2>1 DEF Mailing, SameRow
    <2> QED
      BY <1>1, <2>1, <2>2 DEF Released, SameRow
  <1>4. CASE rows[i].status = "pending" /\ Settled(rows[i])
    <2>1. rows[i] \in Row /\ rows'[i] \in Row
      BY DEF Inv, TypeOK
    <2>2. ASSUME NEW old \in Row, NEW new \in Row, old.code = new.code, old.user = new.user,
                 old.contact = new.contact, old.resend = new.resend, Settled(old)
          PROVE  Settled(new)'
      BY <2>2, SettledStays DEF Settled, ResendLocked
    <2>3. Settled(rows[i])'
      BY <1>1, <1>4, <2>1, <2>2 DEF SameRow
    <2> QED
      BY <1>1, <1>4, <2>3 DEF Fine, SameRow
  <1>5. CASE rows[i].status = "pending" /\ Overtaken(i)
    BY <1>1, <1>5 DEF Overtaken, Excused, SameRow, Onward, Fine
  <1> QED
    BY <1>2, <1>3, <1>4, <1>5 DEF Excused

\* no row becomes one that can be entered
LEMMA CalmStep ==
    ASSUME Inv, Inv', Waits, Onward,
           \A r \in Requests : Timely(r)',
           \A r \in Requests : req[r].pc \in InMail => Released(r),
           \A i \in RowIds : SameRow(i) \/ OverRow(i)
    PROVE  Waits'
  <1>1. \A i \in RowIds : /\ rows'[i].status = "pending" => rows[i].status = "pending"
                          /\ rows'[i].status \in Stored <=> rows[i].status \in Stored
                          /\ rows'[i].status \in Active => SameRow(i)
    BY DEF SameRow, OverRow, Active
  <1>2. TopPending'
    BY <1>1 DEF Waits, TopPending, Onward
  <1> QED
    BY <1>1, <1>2, WaitsStep

LEMMA CloseCalm ==
    ASSUME Inv, NEW i \in RowIds, rows[i].status \in Stored, NEW s \in Stored \ Active,
           rows' = Close(i, s)
    PROVE  \A j \in RowIds : SameRow(j) \/ OverRow(j)
  BY CloseIs DEF Inv, SameRow, OverRow

LEMMA WrongCalm ==
    ASSUME Inv, NEW i \in RowIds, rows[i].status = "pending", WrongCode(i)
    PROVE  \A j \in RowIds : SameRow(j) \/ OverRow(j)
  <1>1. CASE rows' = Close(i, "invalidated")
    BY <1>1, CloseCalm DEF Stored, Active
  <1>2. CASE rows' = [rows EXCEPT ![i].attempts = rows[i].attempts + 1]
    <2>1. rows \in [RowIds -> Row]
      BY WasTyped
    <2>2. /\ rows'[i] = [rows[i] EXCEPT !.attempts = rows[i].attempts + 1]
          /\ \A j \in RowIds : j # i => rows'[j] = rows[j]
      BY <1>2, <2>1
    <2> QED
      BY <2>1, <2>2 DEF SameRow, Row
  <1> QED
    BY <1>1, <1>2 DEF WrongCode

LEMMA TokenCalm ==
    ASSUME Inv, NEW i \in RowIds, rows[i].status = "pending", NEW at, IssueToken(i, at)
    PROVE  \A j \in RowIds : SameRow(j) \/ OverRow(j)
  <1>1. rows \in [RowIds -> Row]
    BY WasTyped
  <1>2. rows' = [rows EXCEPT ![i].status = "verified", ![i].token = tokens + 1,
                             ![i].tokenExpires = at + TokenTtl]
    BY DEF IssueToken
  <1>3. rows'[i] = [rows[i] EXCEPT !.status = "verified", !.token = tokens + 1,
                                   !.tokenExpires = at + TokenTtl]
        /\ \A j \in RowIds : j # i => rows'[j] = rows[j]
    BY <1>1, <1>2
  <1>4. rows'[i].status = "verified"
    BY <1>1, <1>3 DEF Row
  <1> QED
    BY <1>3, <1>4 DEF SameRow, OverRow, Stored, Active

\* the requests, when a step is not theirs
LEMMA OthersTimely ==
    ASSUME Inv, Waits, Onward, NEW r \in Requests, req'[r] = req[r]
    PROVE  Timely(r)' /\ (req[r].pc \in InMail => Released(r))
  <1>1. req[r].at \in Nat /\ req[r].previous \in Row
    BY WasTyped DEF ReqType
  <1>2. Timely(r)
    BY DEF Waits
  <1>3. Kept(r) => Settled(req[r].previous)'
    <2>1. ASSUME NEW row \in Row, Settled(row), req'[r].previous = row
          PROVE  Settled(req[r].previous)'
      BY <2>1, SettledStays DEF Settled
    <2> QED
      BY <1>1, <1>2, <2>1 DEF Timely
  <1> QED
    BY <1>1, <1>2, <1>3 DEF Timely, Kept, Released, Onward

\* a step beside the requests
LEMMA AsideWaits ==
    ASSUME Inv, Inv', Waits, Onward, UNCHANGED req,
           \A i \in RowIds : SameRow(i) \/ OverRow(i)
    PROVE  Waits'
  BY OthersTimely, CalmStep

LEMMA StillOnward ==
    ASSUME Inv, UNCHANGED <<flow, now, delivered, lost>>
    PROVE  Onward
  BY WasTyped DEF OthersTyped, Onward

\* a request goes on
LEMMA GotoTimely ==
    ASSUME Inv, Waits, Onward, NEW r \in Requests, NEW pc \in InFlight \cup {"new", "done"},
           Goto(r, pc), pc \in InFlight => req[r].pc \in InFlight,
           pc = "mailed" => r \in delivered'
    PROVE  /\ \A q \in Requests : Timely(q)'
           /\ \A q \in Requests : q # r /\ req[q].pc \in InMail => Released(q)
           /\ req[r].pc \in InMail /\ pc \in InMail => Released(r)
  <1>1. /\ req'[r].pc = pc
        /\ pc = "done" => req'[r].previous = NoRow
        /\ pc # "done" => req'[r].previous = req[r].previous /\ req'[r].id = req[r].id
        /\ \A q \in Requests : q # r => req'[q] = req[q]
    BY GotoIs DEF Inv
  <1>2. pc # "done" => req'[r].at = req[r].at
    <2>1. CASE pc # "done"
      <3>1. req' = [req EXCEPT ![r].pc = pc]
        BY <2>1 DEF Goto
      <3> QED
        BY <3>1, WasTyped DEF ReqType
    <2> QED
      BY <2>1
  <1>3. Timely(r)'
    <2>1. CASE pc = "done"
      <3>1. pc \notin InFlight
        BY <2>1 DEF InFlight
      <3> QED
        BY <1>1, <2>1, <3>1 DEF Timely, Kept
    <2>2. CASE pc # "done"
      <3>1. req[r].at \in Nat /\ req[r].previous \in Row /\ Timely(r)
        BY WasTyped DEF ReqType, Waits
      <3>2. Kept(r)' => Settled(req[r].previous)'
        <4>1. ASSUME NEW row \in Row, Settled(row), req'[r].previous = row
              PROVE  Settled(req[r].previous)'
          BY <4>1, SettledStays DEF Settled
        <4> QED
          BY <1>1, <2>2, <3>1, <4>1 DEF Timely, Kept
      <3>3. pc \in InFlight => req'[r].at <= now'
        BY <1>2, <2>2, <3>1 DEF Timely, Onward
      <3> QED
        BY <1>1, <3>2, <3>3 DEF Timely
    <2> QED
      BY <2>1, <2>2
  <1>4. \A q \in Requests : q # r => Timely(q)' /\ (req[q].pc \in InMail => Released(q))
    BY <1>1, OthersTimely
  <1>5. req[r].pc \in InMail /\ pc \in InMail => Released(r)
    BY <1>1 DEF Released, InMail
  <1> QED
    BY <1>3, <1>4, <1>5

\* it goes on, and leaves no row waiting for its mail
LEMMA GotoWaits ==
    ASSUME Inv, Inv', Waits, Onward, NEW r \in Requests, NEW pc \in InFlight \cup {"new", "done"},
           Goto(r, pc), pc \in InFlight => req[r].pc \in InFlight,
           pc = "mailed" => r \in delivered',
           req[r].pc \in InMail => pc \in InMail \/ Released(r),
           \A i \in RowIds : SameRow(i) \/ OverRow(i)
    PROVE  Waits'
  BY GotoTimely, CalmStep

\* a request stores its code over a row that may be mailed again
LEMMA StoreTimely ==
    ASSUME Inv, Waits, Onward, NEW r \in Requests, req[r].pc \in Unsent \ {"new"},
           NEW i \in RowIds, NEW old \in Row, old = NoRow \/ Settled(old), NEW m,
           Store(r, i, old, m)
    PROVE  /\ \A q \in Requests : Timely(q)'
           /\ \A q \in Requests : req[q].pc \in InMail => Released(q)
           /\ m => req'[r].pc = "mailing" /\ req'[r].id = i
  <1>1. /\ req'[r].pc \in {"mailing", "done"}
        /\ req'[r].pc = "done" => req'[r].previous = NoRow
        /\ req'[r].pc = "mailing" => req'[r].previous = old /\ req'[r].id = i
        /\ \A q \in Requests : q # r => req'[q] = req[q]
    BY StoreIs DEF Inv
  <1>2. \A q \in Requests : q # r => Timely(q)' /\ (req[q].pc \in InMail => Released(q))
    BY <1>1, OthersTimely
  <1>3. m => req'[r].pc = "mailing"
    <2>1. m => req' = [req EXCEPT ![r].pc = "mailing", ![r].contact = FALSE, ![r].id = i,
                                 ![r].previous = old]
      BY DEF Store
    <2> QED
      BY <2>1, WasTyped DEF ReqType
  <1>4. req'[r].pc = "mailing" => req'[r].at = req[r].at
    <2>1. CASE m
      <3>1. req' = [req EXCEPT ![r].pc = "mailing", ![r].contact = FALSE, ![r].id = i,
                               ![r].previous = old]
        BY <2>1 DEF Store
      <3> QED
        BY <3>1, WasTyped DEF ReqType
    <2>2. CASE ~m
      <3>1. Goto(r, "done")
        BY <2>2 DEF Store
      <3> QED
        BY <3>1, GotoIs DEF Inv
    <2> QED
      BY <2>1, <2>2
  <1>5. req[r].at \in Nat /\ req[r].at <= now
    BY WasTyped DEF ReqType, Waits, Timely, Unsent, InFlight
  <1>6. ASSUME NEW row \in Row, row = NoRow \/ Settled(row), req'[r].previous = row, Kept(r)'
        PROVE  Settled(req[r].previous)'
    BY <1>6, SettledStays DEF Settled, Kept
  <1>7. Kept(r)' => Settled(req[r].previous)'
    BY <1>1, <1>6 DEF Kept
  <1>8. req'[r].pc \in InFlight => req'[r].at <= now'
    BY <1>1, <1>4, <1>5 DEF InFlight, Onward
  <1>9. Timely(r)'
    BY <1>1, <1>7, <1>8 DEF Timely
  <1> QED
    BY <1>1, <1>2, <1>3, <1>9 DEF InMail, Unsent

\* the row of a request is being mailed, or there is nobody to mail it to
LEMMA OursFine ==
    ASSUME NEW r \in Requests, NEW k \in RowIds, NEW row, Ours(row, r), rows'[k] = row,
           NEW m, m => req'[r].pc = "mailing" /\ req'[r].id = k,
           ~m => flow # "admin" /\ ~row.user /\ ~row.contact
    PROVE  Mailing(k)' \/ Fine(k)
  <1>1. CASE m
    <2>1. req'[r].pc \in InMail /\ req'[r].id = k /\ rows'[k].code = r
      BY <1>1 DEF InMail, Ours
    <2> QED
      BY <2>1 DEF Mailing
  <1>2. CASE ~m
    BY <1>2 DEF Fine, Settled, Ours
  <1> QED
    BY <1>1, <1>2

LEMMA PutWaits ==
    ASSUME Inv, Inv', Waits, Onward, NEW r \in Requests, req[r].pc \in Unsent \ {"new"},
           NEW i \in RowIds, rows[i].status = "pending", ~ResendLocked(rows[i], req[r].at),
           NEW row, Ours(row, r), NEW m, ~m => flow # "admin" /\ ~row.user /\ ~row.contact,
           rows' = [rows EXCEPT ![i] = row], Store(r, i, rows[i], m)
    PROVE  Waits'
  <1>1. /\ rows'[i] = row
        /\ \A j \in RowIds : j # i => rows'[j] = rows[j]
    BY WasTyped
  <1>2. rows[i] \in Row /\ rows[i].resend \in Nat
    BY WasTyped DEF Row
  <1>3. req[r].at \in Nat /\ now \in Nat /\ req[r].at <= now
    BY WasTyped DEF ReqType, OthersTyped, Waits, Timely, Unsent, InFlight
  <1>4. Settled(rows[i])
    BY <1>2, <1>3 DEF Settled, ResendLocked
  <1>5. /\ \A q \in Requests : Timely(q)'
        /\ \A q \in Requests : req[q].pc \in InMail => Released(q)
        /\ m => req'[r].pc = "mailing" /\ req'[r].id = i
    BY <1>2, <1>4, StoreTimely
  <1>6. Mailing(i)' \/ Fine(i)
    BY <1>1, <1>5, OursFine
  <1>7. \A j \in RowIds : j # i => SameRow(j)
    BY <1>1 DEF SameRow
  <1>8. /\ row.status \in Stored /\ rows[i].status \in Stored
        /\ flow = "login" => row.status = "pending"
    BY DEF Ours, Stored
  <1>9. \A j \in RowIds : /\ rows[j].status \in Stored <=> rows'[j].status \in Stored
                          /\ flow = "login" /\ rows'[j].status = "pending" => rows[j].status = "pending"
    BY <1>1, <1>8
  <1>10. TopPending'
    BY <1>9 DEF Waits, TopPending, Onward
  <1> QED
    BY <1>5, <1>6, <1>7, <1>9, <1>10, WaitsStep

LEMMA InsertWaits ==
    ASSUME Inv, Inv', Waits, Onward, NEW r \in Requests, req[r].pc \in Unsent \ {"new"},
           NEW i, i = NoId \/ (i \in RowIds /\ rows[i].status = "pending"),
           NEW row, Ours(row, r), NEW m, ~m => flow # "admin" /\ ~row.user /\ ~row.contact,
           NEW k, k = NextId,
           rows' = [(IF i = NoId THEN rows ELSE Close(i, "expired")) EXCEPT ![k] = row],
           Store(r, k, NoRow, m)
    PROVE  Waits'
  <1> DEFINE base == IF i = NoId THEN rows ELSE Close(i, "expired")
  <1>1. /\ k \in RowIds /\ rows[k].status = "none"
        /\ \A j \in RowIds : j < k <=> rows[j].status # "none"
    BY NextIdIs DEF Inv
  <1>2. /\ base \in [RowIds -> Row]
        /\ \A j \in RowIds : j # i => base[j] = rows[j]
        /\ i # NoId => base[i].status = "expired"
    BY CloseIs, WasTyped, IdsFinite DEF Stored, Inv
  <1>3. rows' = [base EXCEPT ![k] = row]
    OBVIOUS
  <1> HIDE DEF base
  <1>5. /\ rows'[k] = row
        /\ \A j \in RowIds : j # k => rows'[j] = base[j]
    BY <1>1, <1>2, <1>3
  <1>6. /\ \A q \in Requests : Timely(q)'
        /\ \A q \in Requests : req[q].pc \in InMail => Released(q)
        /\ m => req'[r].pc = "mailing" /\ req'[r].id = k
    BY <1>1, NoRowTyped, StoreTimely
  <1>7. Mailing(k)' \/ Fine(k)
    BY <1>1, <1>5, <1>6, OursFine
  <1>8. \A j \in RowIds : j # k => SameRow(j) \/ rows'[j].status = "expired"
    BY <1>2, <1>5, IdsFinite DEF SameRow
  <1>9. \A j \in RowIds : j # k => (rows'[j].status = rows[j].status
                                   \/ (rows[j].status = "pending" /\ rows'[j].status = "expired"))
    BY <1>2, <1>5, IdsFinite
  <1>10. \A j \in RowIds : rows[j].status \in Stored => rows'[j].status \in Stored
    <2>1. "none" \notin Stored /\ "expired" \in Stored
      BY DEF Stored
    <2> QED
      BY <1>1, <1>9, <2>1
  <1>11. TopPending'
    <2> SUFFICES ASSUME flow = "login", NEW a \in RowIds, NEW b \in RowIds,
                        rows'[a].status = "pending", rows'[b].status \in Stored
                 PROVE  b <= a
      BY DEF TopPending, Onward
    <2>1. flow' = "login" /\ rows'[k].status = "pending"
      BY <1>5 DEF Ours, Onward
    <2>2. a = k
      BY <1>1, <2>1 DEF Inv, OneLive, Active
    <2>3. b # k => rows[b].status # "none"
      BY <1>9 DEF Stored
    <2>4. b = k \/ b < k
      BY <1>1, <2>3
    <2> QED
      BY <1>1, <2>2, <2>4, IdsFinite
  <1>12. \A j \in RowIds : rows'[j].status \in Active => SameRow(j) \/ Mailing(j)' \/ Fine(j)
    BY <1>7, <1>8 DEF Active
  <1> QED
    BY <1>6, <1>10, <1>11, <1>12, WaitsStep

\* the two ways StoreLogin, StoreSetup and StoreReset write a row
LEMMA StoredWaits ==
    ASSUME Inv, Inv', Waits, UNCHANGED <<flow, now, delivered, lost>>,
           NEW r \in Requests, req[r].pc \in Unsent \ {"new"},
           NEW i, i = NoId \/ (i \in RowIds /\ rows[i].status = "pending"), NEW row, Ours(row, r),
           NEW m, ~m => flow # "admin" /\ ~row.user /\ ~row.contact,
           \/ /\ i # NoId /\ ~ResendLocked(rows[i], req[r].at)
              /\ rows' = [rows EXCEPT ![i] = row] /\ Store(r, i, rows[i], m)
           \/ \E k : /\ k = NextId
                     /\ rows' = [(IF i = NoId THEN rows ELSE Close(i, "expired")) EXCEPT ![k] = row]
                     /\ Store(r, k, NoRow, m)
    PROVE  Waits'
  <1>1. CASE /\ i # NoId /\ ~ResendLocked(rows[i], req[r].at)
             /\ rows' = [rows EXCEPT ![i] = row] /\ Store(r, i, rows[i], m)
    BY <1>1, StillOnward, PutWaits
  <1>2. ASSUME NEW k, k = NextId, Store(r, k, NoRow, m),
               rows' = [(IF i = NoId THEN rows ELSE Close(i, "expired")) EXCEPT ![k] = row]
        PROVE  Waits'
    BY <1>2, StillOnward, InsertWaits
  <1> QED
    BY <1>1, <1>2

\* the copy is put back: it may be mailed again
LEMMA BackWaits ==
    ASSUME Inv, Inv', Waits, UNCHANGED <<flow, now, delivered, lost>>, NEW r \in Requests,
           req[r].pc = "refused", Kept(r), Goto(r, "done"), NEW k, k = req[r].id,
           flow = "login" => rows[k].status = "pending",
           rows' = [rows EXCEPT ![k] = req[r].previous]
    PROVE  Waits'
  <1> DEFINE row == req[r].previous
  <1>1. k \in RowIds /\ row \in Row /\ row.status = "pending" /\ Settled(row)
    BY WasTyped DEF Inv, OneLive, InMail, Codes, Waits, Timely, ReqType
  <1>2. Onward
    BY StillOnward
  <1>3. /\ rows'[k] = row
        /\ \A j \in RowIds : j # k => rows'[j] = rows[j]
    BY <1>1, WasTyped
  <1>4. Fine(k)
    <2>1. ASSUME NEW x \in Row, Settled(x), rows'[k] = x, x.status = "pending"
          PROVE  Fine(k)
      BY <1>2, <2>1, SettledStays DEF Settled, Fine
    <2> QED
      BY <1>1, <1>3, <2>1
  <1>5. \A j \in RowIds : j # k => SameRow(j)
    BY <1>3 DEF SameRow
  <1>6. /\ \A q \in Requests : Timely(q)'
        /\ \A q \in Requests : q # r /\ req[q].pc \in InMail => Released(q)
    BY <1>2, GotoTimely DEF InFlight
  <1>7. Released(r)
    BY <1>4 DEF Released
  <1>8. \A j \in RowIds : /\ rows[j].status \in Stored => rows'[j].status \in Stored
                          /\ flow = "login" => rows'[j].status = rows[j].status
    BY <1>1, <1>3 DEF Stored
  <1>9. TopPending'
    BY <1>8 DEF Waits, TopPending, Onward
  <1> QED
    BY <1>2, <1>4, <1>5, <1>6, <1>7, <1>8, <1>9, WaitsStep

\* the row is deleted: nobody waits for its mail
LEMMA DropWaits ==
    ASSUME Inv, Inv', Waits, UNCHANGED <<flow, now, delivered, lost>>, NEW r \in Requests,
           req[r].pc = "refused", Goto(r, "done"), NEW k, k = req[r].id,
           flow = "setup" => rows[k].status \in Active,
           rows' = Delete(k)
    PROVE  Waits'
  <1>1. k \in RowIds
    BY DEF Inv, OneLive, InMail
  <1>2. Onward
    BY StillOnward
  <1>3. /\ rows'[k].status = "deleted"
        /\ \A j \in RowIds : j # k => rows'[j] = rows[j]
    BY <1>1, DeleteIs DEF Inv
  <1>4. \A j \in RowIds : j # k => SameRow(j)
    BY <1>3 DEF SameRow
  <1>5. /\ \A q \in Requests : Timely(q)'
        /\ \A q \in Requests : q # r /\ req[q].pc \in InMail => Released(q)
    BY <1>2, GotoTimely DEF InFlight
  <1>6. Released(r)
    BY <1>3 DEF Released, Active
  <1>7. \A j \in RowIds : rows'[j].status \in Stored \cup Active => j # k /\ rows'[j] = rows[j]
    BY <1>3 DEF Stored, Active
  <1>8. "pending" \in Stored /\ Active \subseteq Stored
    BY DEF Stored, Active
  <1>9. TopPending'
    BY <1>7, <1>8 DEF Waits, TopPending, Onward
  <1>10. flow = "setup" => \A j \in RowIds : rows'[j].status \notin Active
    BY <1>1, <1>7 DEF Inv, OneLive
  <1> QED
    BY <1>2, <1>4, <1>5, <1>6, <1>7, <1>9, <1>10, WaitsStep

\* a clean-up that looks whether the row is still its own
LEMMA CleanWaits ==
    ASSUME Inv, Inv', Waits, UNCHANGED <<flow, now, delivered, lost>>,
           flow \in {"login", "setup"}, NEW r \in Requests, req[r].pc = "refused",
           rows' = CASE ~Owns(r) -> rows
                     [] Owns(r) /\ req[r].previous # NoRow ->
                            [rows EXCEPT ![req[r].id] = req[r].previous]
                     [] OTHER -> Delete(req[r].id),
           Goto(r, "done")
    PROVE  Waits'
  <1>1. PICK k \in RowIds : k = req[r].id
    BY DEF Inv, OneLive, InMail
  <1>2. CASE ~Owns(r)
    <2>1. rows' = rows /\ Onward
      BY <1>2, StillOnward
    <2>2. ASSUME rows[k].status \in Active, rows[k].code = r PROVE Fine(k)
      <3>1. rows[k].status = "pending" /\ k \in WithStatus(Stored)
        BY <2>2 DEF Inv, OneLive, Active, WithStatus, Stored
      <3>2. PICK l \in RowIds : l = Latest(Stored) /\ rows[l].status \in Stored /\ k <= l
        BY <3>1, LatestIs
      <3>3. l # k
        BY <1>1, <1>2, <2>2, <3>1, <3>2, IdsFinite DEF Owns
      <3>4. k \in Nat /\ l \in Nat /\ l > k
        BY <3>2, <3>3, IdsFinite
      <3>5. flow = "setup"
        BY <3>1, <3>2, <3>4 DEF Waits, TopPending
      <3>6. Overtaken(k)'
        BY <2>1, <3>2, <3>4, <3>5 DEF Overtaken
      <3> QED
        BY <2>1, <3>1, <3>6 DEF Fine
    <2>3. Released(r)
      BY <1>1, <2>1, <2>2 DEF Released
    <2> QED
      BY <2>1, <2>3, GotoWaits DEF InFlight, SameRow
  <1>3. CASE Owns(r)
    <2>1. rows[k].status = "pending"
      BY <1>1, <1>3 DEF Owns
    <2>2. CASE Kept(r)
      <3>1. rows' = [rows EXCEPT ![k] = req[r].previous]
        BY <1>1, <1>3, <2>2 DEF Kept
      <3> QED
        BY <1>1, <2>1, <2>2, <3>1, BackWaits
    <2>3. CASE ~Kept(r)
      <3>1. rows' = Delete(k)
        BY <1>1, <1>3, <2>3 DEF Kept
      <3> QED
        BY <1>1, <2>1, <3>1, DropWaits DEF Active
    <2> QED
      BY <2>2, <2>3
  <1> QED
    BY <1>2, <1>3

\* a step that only closes a row, or counts an entry, or issues a token
LEMMA EnteredWaits ==
    ASSUME Inv, Inv', Waits, UNCHANGED <<flow, now, delivered, lost, req>>, NEW at,
           \/ rows' = rows
           \/ \E i \in RowIds, s \in Stored \ Active : rows[i].status \in Stored /\ rows' = Close(i, s)
           \/ \E i \in RowIds : rows[i].status = "pending" /\ (WrongCode(i) \/ IssueToken(i, at))
    PROVE  Waits'
  <1>1. \A i \in RowIds : SameRow(i) \/ OverRow(i)
    <2>1. CASE rows' = rows
      BY <2>1 DEF SameRow
    <2>2. CASE \E i \in RowIds, s \in Stored \ Active :
                   rows[i].status \in Stored /\ rows' = Close(i, s)
      BY <2>2, CloseCalm
    <2>3. CASE \E i \in RowIds : rows[i].status = "pending" /\ (WrongCode(i) \/ IssueToken(i, at))
      BY <2>3, WrongCalm, TokenCalm
    <2> QED
      BY <2>1, <2>2, <2>3
  <1> QED
    BY <1>1, StillOnward, AsideWaits

\* how the entries and the finishers find their row
LEMMA FoundStored ==
    ASSUME NEW s \in {"pending", "verified"}, NEW i, i = Latest({s}), i # NoId
    PROVE  i \in RowIds /\ rows[i].status = s /\ rows[i].status \in Stored
  <1>1. i \in RowIds /\ rows[i].status \in {s}
    BY LatestIs
  <1> QED
    BY <1>1 DEF Stored

LEMMA OverIs == {"expired", "invalidated", "consumed", "verified"} \subseteq Stored \ Active
  BY DEF Stored, Active

-----------------------------------------------------------------------------
(* The actions keep the promise.                                           *)

LEMMA MailsWaits ==
    ASSUME Inv, Inv', Waits, NEW r \in Requests,
           Begin(r) \/ MailAccepted(r) \/ MailRefused(r) \/ Lose(r)
    PROVE  Waits'
  <1>1. CASE Begin(r)
    <2>1. rows' = rows /\ req[r].pc = "new" /\ req' = [req EXCEPT ![r].pc = "begun", ![r].at = now]
      BY <1>1 DEF Begin, table
    <2>2. Onward /\ now' = now
      BY <1>1, StillOnward DEF Begin
    <2>3. /\ req'[r].pc = "begun" /\ req'[r].at = now /\ req'[r].previous = req[r].previous
          /\ \A q \in Requests : q # r => req'[q] = req[q]
      BY <2>1, WasTyped DEF ReqType
    <2>4. ~Kept(r)' /\ req[r].pc \notin InMail
      BY <2>1, <2>3 DEF Inv, Codes, Unsent, InMail, Kept
    <2>5. Timely(r)'
      BY <2>2, <2>3, <2>4, WasTyped DEF Timely, OthersTyped
    <2>6. \A q \in Requests : Timely(q)' /\ (req[q].pc \in InMail => Released(q))
      BY <2>2, <2>3, <2>4, <2>5, OthersTimely
    <2> QED
      BY <2>1, <2>2, <2>6, CalmStep DEF SameRow
  <1>2. CASE MailAccepted(r)
    <2>1. rows' = rows /\ req[r].pc = "mailing" /\ delivered' = delivered \cup {r}
      BY <1>2 DEF MailAccepted, table
    <2>2. Onward
      BY <1>2, <2>1, WasTyped DEF MailAccepted, Onward, OthersTyped
    <2>3. CASE flow = "admin"
      <3>1. Goto(r, "mailed")
        BY <1>2, <2>3 DEF MailAccepted
      <3> QED
        BY <2>1, <2>2, <3>1, GotoWaits DEF InFlight, InMail, SameRow
    <2>4. CASE flow # "admin"
      <3>1. Goto(r, "done")
        BY <1>2, <2>4 DEF MailAccepted
      <3>2. PICK k \in RowIds : k = req[r].id
        BY <2>1 DEF Inv, OneLive, InMail
      <3>3. rows'[k].status \in Active /\ rows'[k].code = r => Fine(k)
        BY <2>1, <2>4 DEF Inv, OneLive, Active, Fine, Settled
      <3>4. Released(r)
        BY <3>2, <3>3 DEF Released
      <3> QED
        BY <2>1, <2>2, <3>1, <3>4, GotoWaits DEF InFlight, SameRow
    <2> QED
      BY <2>3, <2>4
  <1>3. CASE MailRefused(r)
    <2>1. rows' = rows /\ req[r].pc = "mailing" /\ Goto(r, "refused")
      BY <1>3 DEF MailRefused, table
    <2>2. Onward
      BY <1>3, WasTyped DEF MailRefused, Onward, OthersTyped
    <2> QED
      BY <2>1, <2>2, GotoWaits DEF InFlight, InMail, SameRow
  <1>4. CASE Lose(r)
    <2>1. rows' = rows /\ Goto(r, "done") /\ lost' = lost \cup {r}
      BY <1>4 DEF Lose, table
    <2>2. Onward
      BY <1>4, <2>1, WasTyped DEF Lose, Onward, OthersTyped
    <2>3. Released(r)
      BY <2>1 DEF Released
    <2> QED
      BY <2>1, <2>2, <2>3, GotoWaits DEF InFlight, SameRow
  <1> QED
    BY <1>1, <1>2, <1>3, <1>4

LEMMA OutsideWaits ==
    ASSUME Inv, Inv', Waits,
           \/ Tick \/ Deactivate \/ CreateUser \/ ResetElsewhere
           \/ \E d \in Documents : UploadDocument(d)
           \/ \E f \in Finishers, t \in 1 .. tokens : BeginFinish(f, t)
           \/ \E f \in Finishers, d \in Documents : ReadDocument(f, d)
           \/ UNCHANGED vars
    PROVE  Waits'
  <1>1. rows' = rows /\ req' = req /\ flow' = flow /\ delivered' = delivered /\ lost' = lost
    BY DEF Tick, Deactivate, CreateUser, ResetElsewhere, UploadDocument, BeginFinish,
           ReadDocument, table, identity, law, loginRest, vars
  <1>2. now' = now \/ now' = now + 1
    BY DEF Tick, Deactivate, CreateUser, ResetElsewhere, UploadDocument, BeginFinish,
           ReadDocument, table, identity, law, loginRest, vars
  <1>3. Onward
    BY <1>1, <1>2, WasTyped DEF Onward, OthersTyped
  <1> QED
    BY <1>1, <1>3, AsideWaits DEF SameRow

LEMMA LoginWaits ==
    ASSUME Inv, Inv', Waits, flow = "login", NEW r \in Requests,
           PreflightLogin(r) \/ ObserveLogin(r) \/ StoreLogin(r) \/ CleanupLogin(r)
    PROVE  Waits'
  <1>1. PICK i : i = Latest({"pending"})
    OBVIOUS
  <1>2. i = NoId \/ (i \in RowIds /\ rows[i].status = "pending" /\ rows[i].status \in Stored)
    BY <1>1, FoundStored
  <1>3. UNCHANGED <<flow, now, delivered, lost>>
    BY DEF PreflightLogin, ObserveLogin, StoreLogin, CleanupLogin, loginRest
  <1>4. CASE PreflightLogin(r)
    <2>1. req[r].pc = "begun" /\ \E pc \in {"done", "ready"} : Goto(r, pc)
      BY <1>4 DEF PreflightLogin
    <2>2. rows' = rows \/ (i # NoId /\ rows' = Close(i, "expired"))
      BY <1>1, <1>4 DEF PreflightLogin
    <2>3. \A j \in RowIds : SameRow(j) \/ OverRow(j)
      BY <1>2, <2>2, CloseCalm, OverIs DEF SameRow
    <2> QED
      BY <1>3, <2>1, <2>3, StillOnward, GotoWaits DEF InFlight, InMail
  <1>5. CASE ObserveLogin(r)
    <2>1. rows' = rows /\ req[r].pc = "ready"
      BY <1>5 DEF ObserveLogin
    <2> DEFINE c == account = "none" /\ contact
    <2>2. req' = [req EXCEPT ![r].pc = "hashed", ![r].contact = c]
      BY <1>5 DEF ObserveLogin
    <2> HIDE DEF c
    <2>3. /\ req'[r].pc = "hashed" /\ req'[r].at = req[r].at /\ req'[r].previous = req[r].previous
          /\ \A q \in Requests : q # r => req'[q] = req[q]
      BY <2>2, WasTyped DEF ReqType
    <2>4. ~Kept(r)' /\ req[r].pc \notin InMail /\ req[r].at <= now
      BY <2>1, <2>3 DEF Inv, Codes, Unsent, InMail, InFlight, Kept, Waits, Timely
    <2>5. Timely(r)'
      BY <1>3, <2>3, <2>4 DEF Timely
    <2>6. \A q \in Requests : Timely(q)' /\ (req[q].pc \in InMail => Released(q))
      BY <1>3, <2>3, <2>4, <2>5, StillOnward, OthersTimely
    <2> QED
      BY <1>3, <2>1, <2>6, StillOnward, CalmStep DEF SameRow
  <1>6. CASE StoreLogin(r)
    <2>1. req[r].pc \in Unsent \ {"new"} /\ req[r].pc \notin InMail
      BY <1>6 DEF StoreLogin, Unsent, InMail
    <2>2. CASE rows' = rows /\ Goto(r, "done")
      BY <1>3, <2>1, <2>2, StillOnward, GotoWaits DEF InFlight, SameRow
    <2>3. CASE ~(rows' = rows /\ Goto(r, "done"))
      <3> DEFINE u == account = "active"
                 c == account = "none" /\ req[r].contact
                 row == [Fresh(r, "pending") EXCEPT !.user = u, !.contact = c]
                 m == row.user \/ row.contact
      <3>1. Ours(row, r)
        <4>1. u \in BOOLEAN /\ c \in BOOLEAN
          OBVIOUS
        <4> QED
          BY <4>1, OursIs
      <3>2. \/ /\ i # NoId /\ ~ResendLocked(rows[i], req[r].at)
               /\ rows' = [rows EXCEPT ![i] = row] /\ Store(r, i, rows[i], m)
            \/ \E k : /\ k = NextId
                      /\ rows' = [(IF i = NoId THEN rows ELSE Close(i, "expired")) EXCEPT ![k] = row]
                      /\ Store(r, k, NoRow, m)
        BY <1>1, <1>6, <2>3 DEF StoreLogin
      <3>3. ~m => flow # "admin" /\ ~row.user /\ ~row.contact
        OBVIOUS
      <3> HIDE DEF row, m
      <3> QED
        BY <1>2, <1>3, <2>1, <3>1, <3>2, <3>3, StoredWaits
    <2> QED
      BY <2>2, <2>3
  <1>7. CASE CleanupLogin(r)
    BY <1>3, <1>7, CleanWaits DEF CleanupLogin
  <1> QED
    BY <1>4, <1>5, <1>6, <1>7

LEMMA LoginEntriesWait ==
    ASSUME Inv, Inv', Waits, flow = "login",
           \/ \E at, entry : VerifyLogin(entry, at)
           \/ \E f \in Finishers : AcceptLegal(f)
    PROVE  Waits'
  <1>1. CASE \E at, entry : VerifyLogin(entry, at)
    <2>1. PICK at, entry : VerifyLogin(entry, at)
      BY <1>1
    <2>2. PICK i : i = Latest({"pending"})
      OBVIOUS
    <2>3. UNCHANGED <<flow, now, delivered, lost, req>> /\ i # NoId
      BY <2>1, <2>2 DEF VerifyLogin, loginRest
    <2>4. i \in RowIds /\ rows[i].status = "pending" /\ rows[i].status \in Stored
      BY <2>2, <2>3, FoundStored
    <2>5. \/ \E s \in {"expired", "invalidated", "consumed"} : rows' = Close(i, s)
          \/ WrongCode(i) \/ IssueToken(i, at)
      BY <2>1, <2>2 DEF VerifyLogin
    <2> QED
      BY <2>3, <2>4, <2>5, OverIs, EnteredWaits
  <1>2. CASE \E f \in Finishers : AcceptLegal(f)
    <2>1. PICK f \in Finishers : AcceptLegal(f)
      BY <1>2
    <2>2. PICK i : i = Latest({"verified"})
      OBVIOUS
    <2>3. UNCHANGED <<flow, now, delivered, lost, req>>
      BY <2>1 DEF AcceptLegal, loginRest
    <2>4. rows' = rows \/ (i # NoId /\ \E s \in {"invalidated", "consumed"} : rows' = Close(i, s))
      BY <2>1, <2>2 DEF AcceptLegal
    <2>5. i # NoId => i \in RowIds /\ rows[i].status \in Stored
      BY <2>2, FoundStored
    <2> QED
      BY <2>3, <2>4, <2>5, OverIs, EnteredWaits
  <1> QED
    BY <1>1, <1>2

\* a verified row is inserted over the others, without a mail
LEMMA FreshWaits ==
    ASSUME Inv, Inv', Waits, flow = "setup", NEW r \in Requests, FreshSetup(r)
    PROVE  Waits'
  <1>1. UNCHANGED <<flow, now, delivered, lost>> /\ req[r].pc = "begun" /\ Goto(r, "done")
    BY DEF FreshSetup, setupRest
  <1>2. Onward /\ req[r].pc \notin InMail
    BY <1>1, StillOnward DEF InMail
  <1>3. CASE UNCHANGED table
    BY <1>1, <1>2, <1>3, GotoWaits DEF InFlight, SameRow, table
  <1>4. CASE ~UNCHANGED table
    <2>1. PICK k : k = NextId
      OBVIOUS
    <2>2. k \in RowIds /\ rows[k].status = "none"
      BY <1>1, <2>1, NextIdIs DEF Inv, Unsent
    <2>3. PICK row : rows' = [rows EXCEPT ![k] = row] /\ row.status = "verified"
      <3>1. rows' = [rows EXCEPT ![k] =
                [NoRow EXCEPT !.status = "verified", !.code = r, !.user = TRUE,
                              !.expires = req[r].at + TokenTtl, !.resend = req[r].at,
                              !.token = tokens + 1, !.tokenExpires = req[r].at + TokenTtl]]
        BY <1>4, <2>1 DEF FreshSetup
      <3>2. [NoRow EXCEPT !.status = "verified", !.code = r, !.user = TRUE,
                          !.expires = req[r].at + TokenTtl, !.resend = req[r].at,
                          !.token = tokens + 1,
                          !.tokenExpires = req[r].at + TokenTtl].status = "verified"
        BY DEF NoRow
      <3> QED
        BY <3>1, <3>2
    <2>4. /\ rows'[k].status = "verified"
          /\ \A j \in RowIds : j # k => rows'[j] = rows[j]
      BY <2>2, <2>3, WasTyped
    <2>5. /\ \A q \in Requests : Timely(q)'
          /\ \A q \in Requests : q # r /\ req[q].pc \in InMail => Released(q)
      BY <1>1, <1>2, GotoTimely DEF InFlight
    <2>6. \A j \in RowIds : /\ rows'[j].status \in Active => SameRow(j)
                            /\ rows[j].status \in Stored => rows'[j].status \in Stored
      BY <2>2, <2>4 DEF Stored, Active, SameRow
    <2>7. TopPending'
      BY <1>1 DEF TopPending
    <2> QED
      BY <1>2, <2>5, <2>6, <2>7, WaitsStep
  <1> QED
    BY <1>3, <1>4

LEMMA SetupWaits ==
    ASSUME Inv, Inv', Waits, flow = "setup", NEW r \in Requests,
           PreflightSetup(r) \/ StoreSetup(r) \/ CleanupSetup(r)
    PROVE  Waits'
  <1>1. PICK i : i = Latest({"pending"})
    OBVIOUS
  <1>2. i = NoId \/ (i \in RowIds /\ rows[i].status = "pending")
    BY <1>1, FoundStored
  <1>3. UNCHANGED <<flow, now, delivered, lost>>
    BY DEF PreflightSetup, StoreSetup, CleanupSetup, setupRest
  <1>4. CASE PreflightSetup(r)
    <2>1. req[r].pc = "begun" /\ rows' = rows /\ \E pc \in {"done", "hashed"} : Goto(r, pc)
      BY <1>4 DEF PreflightSetup, table
    <2> QED
      BY <1>3, <2>1, StillOnward, GotoWaits DEF InFlight, InMail, SameRow
  <1>5. CASE StoreSetup(r)
    <2>1. req[r].pc \in Unsent \ {"new"} /\ req[r].pc \notin InMail
      BY <1>5 DEF StoreSetup, Unsent, InMail
    <2>2. CASE rows' = rows /\ Goto(r, "done")
      BY <1>3, <2>1, <2>2, StillOnward, GotoWaits DEF InFlight, SameRow
    <2>3. CASE ~(rows' = rows /\ Goto(r, "done"))
      <3> DEFINE row == [Fresh(r, "pending") EXCEPT !.user = TRUE]
      <3>1. Ours(row, r)
        BY OursIs
      <3>2. \/ /\ i # NoId /\ ~ResendLocked(rows[i], req[r].at)
               /\ rows' = [rows EXCEPT ![i] = row] /\ Store(r, i, rows[i], TRUE)
            \/ \E k : /\ k = NextId
                      /\ rows' = [(IF i = NoId THEN rows ELSE Close(i, "expired")) EXCEPT ![k] = row]
                      /\ Store(r, k, NoRow, TRUE)
        BY <1>1, <1>5, <2>3 DEF StoreSetup
      <3> HIDE DEF row
      <3> QED
        BY <1>2, <1>3, <2>1, <3>1, <3>2, StoredWaits
    <2> QED
      BY <2>2, <2>3
  <1>6. CASE CleanupSetup(r)
    BY <1>3, <1>6, CleanWaits DEF CleanupSetup
  <1> QED
    BY <1>4, <1>5, <1>6

LEMMA SetupEntriesWait ==
    ASSUME Inv, Inv', Waits, flow = "setup",
           \/ \E at, entry : ConfirmSetup(entry, at)
           \/ \E f \in Finishers : CheckSetup(f) \/ SetSetupPassword(f)
    PROVE  Waits'
  <1>1. CASE \E at, entry : ConfirmSetup(entry, at)
    <2>1. PICK at, entry : ConfirmSetup(entry, at)
      BY <1>1
    <2>2. PICK i : i = Latest({"pending"})
      OBVIOUS
    <2>3. UNCHANGED <<flow, now, delivered, lost, req>> /\ i # NoId
      BY <2>1, <2>2 DEF ConfirmSetup, setupRest
    <2>4. i \in RowIds /\ rows[i].status = "pending" /\ rows[i].status \in Stored
      BY <2>2, <2>3, FoundStored
    <2>5. rows' = Close(i, "expired") \/ WrongCode(i) \/ IssueToken(i, at)
      BY <2>1, <2>2 DEF ConfirmSetup
    <2> QED
      BY <2>3, <2>4, <2>5, OverIs, EnteredWaits
  <1>2. CASE \E f \in Finishers : CheckSetup(f) \/ SetSetupPassword(f)
    <2>1. PICK f \in Finishers : CheckSetup(f) \/ SetSetupPassword(f)
      BY <1>2
    <2>2. PICK i : i = Latest({"verified"})
      OBVIOUS
    <2>3. UNCHANGED <<flow, now, delivered, lost, req>>
      BY <2>1 DEF CheckSetup, SetSetupPassword, setupRest
    <2>4. rows' = rows \/ (i # NoId /\ \E s \in {"invalidated", "consumed"} : rows' = Close(i, s))
      BY <2>1, <2>2 DEF CheckSetup, SetSetupPassword, SetupReady, SetupRefused
    <2>5. i # NoId => i \in RowIds /\ rows[i].status \in Stored
      BY <2>2, FoundStored
    <2> QED
      BY <2>3, <2>4, <2>5, OverIs, EnteredWaits
  <1> QED
    BY <1>1, <1>2

LEMMA ResetWaits ==
    ASSUME Inv, Inv', Waits, flow = "reset", NEW r \in Requests, StoreReset(r) \/ CleanupReset(r)
    PROVE  Waits'
  <1>1. PICK i : i = Latest({"pending"})
    OBVIOUS
  <1>2. i = NoId \/ (i \in RowIds /\ rows[i].status = "pending")
    BY <1>1, FoundStored
  <1>3. UNCHANGED <<flow, now, delivered, lost>>
    BY DEF StoreReset, CleanupReset, resetRest
  <1>4. CASE StoreReset(r)
    <2>1. req[r].pc \in Unsent \ {"new"} /\ req[r].pc \notin InMail
      BY <1>4 DEF StoreReset, Unsent, InMail
    <2>2. CASE rows' = rows /\ Goto(r, "done")
      BY <1>3, <2>1, <2>2, StillOnward, GotoWaits DEF InFlight, SameRow
    <2>3. CASE ~(rows' = rows /\ Goto(r, "done"))
      <3> DEFINE u == account = "active"
                 row == [Fresh(r, "pending") EXCEPT !.user = u]
                 m == row.user
      <3>1. Ours(row, r)
        BY OursIs
      <3>2. \/ /\ i # NoId /\ ~ResendLocked(rows[i], req[r].at)
               /\ rows' = [rows EXCEPT ![i] = row] /\ Store(r, i, rows[i], m)
            \/ \E k : /\ k = NextId
                      /\ rows' = [(IF i = NoId THEN rows ELSE Close(i, "expired")) EXCEPT ![k] = row]
                      /\ Store(r, k, NoRow, m)
        BY <1>1, <1>4, <2>3 DEF StoreReset
      <3>3. ~m => flow # "admin" /\ ~row.user /\ ~row.contact
        BY DEF Fresh, NoRow
      <3> HIDE DEF row, m
      <3> QED
        BY <1>2, <1>3, <2>1, <3>1, <3>2, <3>3, StoredWaits
    <2> QED
      BY <2>2, <2>3
  <1>5. CASE CleanupReset(r)
    <2>1. req[r].pc = "refused" /\ Goto(r, "done")
      BY <1>5 DEF CleanupReset
    <2>2. PICK k \in RowIds : k = req[r].id
      BY <2>1 DEF Inv, OneLive, InMail
    <2>3. CASE rows[k].status = "deleted" /\ rows' = rows
      <3>1. Released(r)
        BY <2>2, <2>3 DEF Released, Active
      <3> QED
        BY <1>3, <2>1, <2>3, <3>1, StillOnward, GotoWaits DEF InFlight, SameRow
    <2>4. CASE Kept(r) /\ rows' = [rows EXCEPT ![k] = req[r].previous]
      BY <1>3, <2>1, <2>2, <2>4, BackWaits
    <2>5. CASE rows' = Delete(k)
      BY <1>3, <2>1, <2>2, <2>5, DropWaits
    <2> QED
      BY <1>5, <2>2, <2>3, <2>4, <2>5 DEF CleanupReset, Kept
  <1> QED
    BY <1>4, <1>5

LEMMA ResetEntriesWait ==
    ASSUME Inv, Inv', Waits, flow = "reset",
           NEW at, NEW entry, ConfirmReset(entry, at) \/ SetResetPassword(entry, at)
    PROVE  Waits'
  <1>1. UNCHANGED <<flow, now, delivered, lost, req>>
    BY DEF ConfirmReset, SetResetPassword, resetRest
  <1>2. CASE ConfirmReset(entry, at)
    <2>1. PICK i : i = Latest({"pending"})
      OBVIOUS
    <2>2. i # NoId /\ (rows' = Close(i, "expired") \/ WrongCode(i) \/ IssueToken(i, at))
      BY <1>2, <2>1 DEF ConfirmReset
    <2>3. i \in RowIds /\ rows[i].status = "pending" /\ rows[i].status \in Stored
      BY <2>1, <2>2, FoundStored
    <2> QED
      BY <1>1, <2>2, <2>3, OverIs, EnteredWaits
  <1>3. CASE SetResetPassword(entry, at)
    <2>1. PICK i : i = Latest({"verified"})
      OBVIOUS
    <2>2. i # NoId /\ \E s \in {"invalidated", "consumed"} : rows' = Close(i, s)
      BY <1>3, <2>1 DEF SetResetPassword
    <2>3. i \in RowIds /\ rows[i].status \in Stored
      BY <2>1, <2>2, FoundStored
    <2> QED
      BY <1>1, <2>2, <2>3, OverIs, EnteredWaits
  <1> QED
    BY <1>2, <1>3

LEMMA AdminWaits ==
    ASSUME Inv, Inv', Waits, flow = "admin", NEW r \in Requests,
           RefuseAdmin(r) \/ StoreAdmin(r) \/ MarkAdmin(r) \/ CleanupAdmin(r)
    PROVE  Waits'
  <1>1. UNCHANGED <<flow, now, delivered, lost>>
    BY DEF RefuseAdmin, StoreAdmin, MarkAdmin, CleanupAdmin, adminRest
  <1>2. CASE RefuseAdmin(r)
    <2>1. req[r].pc = "new" /\ rows' = rows /\ Goto(r, "done")
      BY <1>2 DEF RefuseAdmin
    <2> QED
      BY <1>1, <2>1, StillOnward, GotoWaits DEF InFlight, InMail, SameRow
  <1>3. CASE StoreAdmin(r)
    <2>1. req[r].pc \in Unsent \ {"new"} /\ req[r].pc \notin InMail
      BY <1>3 DEF StoreAdmin, Unsent, InMail
    <2>2. PICK i : i = Latest(Active)
      OBVIOUS
    <2>3. i = NoId \/ i \in RowIds
      BY <2>2, LatestIs
    <2>4. CASE rows' = rows /\ Goto(r, "done")
      BY <1>1, <2>1, <2>4, StillOnward, GotoWaits DEF InFlight, SameRow
    <2>5. CASE ~(rows' = rows /\ Goto(r, "done"))
      <3> DEFINE f == Fresh(r, "sending")
                 row == [f EXCEPT !.user = TRUE]
      <3>1. Ours(row, r)
        <4>1. f \in Row /\ f.status = "sending" /\ f.code = r /\ f.attempts = 0
          BY FreshTyped DEF Inv, Stored
        <4> HIDE DEF f
        <4> QED
          BY <4>1 DEF Ours, Row
      <3>2. /\ i # NoId => rows[i].status = "pending"
            /\ \/ /\ i # NoId /\ ~ResendLocked(rows[i], req[r].at)
                  /\ rows' = [rows EXCEPT ![i] = row] /\ Store(r, i, rows[i], TRUE)
               \/ \E k : /\ k = NextId
                         /\ rows' = [(IF i = NoId THEN rows ELSE Close(i, "expired"))
                                       EXCEPT ![k] = row]
                         /\ Store(r, k, NoRow, TRUE)
        BY <1>3, <2>2, <2>5 DEF StoreAdmin
      <3> HIDE DEF row
      <3> QED
        BY <1>1, <2>1, <2>3, <3>1, <3>2, StoredWaits
    <2> QED
      BY <2>4, <2>5
  <1>4. CASE MarkAdmin(r)
    <2>1. req[r].pc = "mailed" /\ Goto(r, "done") /\ r \in delivered /\ Sends(r)
      BY <1>4 DEF MarkAdmin, Waits, Timely, Inv, OneLive, InMail
    <2>2. PICK k \in RowIds : k = req[r].id /\ rows[k].status = "sending" /\ rows[k].code = r
      BY <2>1 DEF Sends
    <2>3. rows' = [rows EXCEPT ![k].status = "pending"]
      BY <1>4, <2>2 DEF MarkAdmin, SetStatus
    <2>4. /\ rows'[k].status = "pending" /\ rows'[k].code = r
          /\ \A j \in RowIds : j # k => rows'[j] = rows[j]
      BY <2>2, <2>3, WasTyped DEF Row
    <2>5. Fine(k)
      BY <1>1, <2>1, <2>4 DEF Fine, Settled
    <2>6. Released(r)
      BY <2>2, <2>5 DEF Released
    <2>7. /\ \A q \in Requests : Timely(q)'
          /\ \A q \in Requests : q # r /\ req[q].pc \in InMail => Released(q)
      BY <1>1, <2>1, StillOnward, GotoTimely DEF InFlight
    <2>8. \A j \in RowIds : j # k => SameRow(j)
      BY <2>4 DEF SameRow
    <2>9. TopPending'
      BY <1>1 DEF TopPending
    <2> QED
      BY <1>1, <2>5, <2>6, <2>7, <2>8, <2>9, StillOnward, WaitsStep
  <1>5. CASE CleanupAdmin(r)
    <2>1. req[r].pc = "refused" /\ Goto(r, "done")
      BY <1>5 DEF CleanupAdmin
    <2>2. PICK k : k = req[r].id
      OBVIOUS
    <2>3. CASE Kept(r) /\ rows' = [rows EXCEPT ![k] = req[r].previous]
      BY <1>1, <2>1, <2>2, <2>3, BackWaits
    <2>4. CASE rows' = Delete(k)
      BY <1>1, <2>1, <2>2, <2>4, DropWaits
    <2> QED
      BY <1>5, <2>2, <2>3, <2>4 DEF CleanupAdmin, Kept
  <1> QED
    BY <1>2, <1>3, <1>4, <1>5

LEMMA AdminEntriesWait ==
    ASSUME Inv, Inv', Waits, flow = "admin", NEW at, NEW entry,
           VerifyAdmin(entry, at) \/ WrongAdmin(entry, at)
    PROVE  Waits'
  <1>1. CASE VerifyAdmin(entry, at)
    <2>1. PICK i : i = Latest({"pending"})
      OBVIOUS
    <2>2. UNCHANGED <<flow, now, delivered, lost, req>> /\ i # NoId /\ rows' = Close(i, "verified")
      BY <1>1, <2>1 DEF VerifyAdmin, adminRest
    <2>3. i \in RowIds /\ rows[i].status \in Stored
      BY <2>1, <2>2, FoundStored
    <2> QED
      BY <2>2, <2>3, OverIs, EnteredWaits
  <1>2. CASE WrongAdmin(entry, at)
    <2>1. UNCHANGED <<flow, now, delivered, lost, rows, req>>
      BY <1>2 DEF WrongAdmin, table
    <2> QED
      BY <2>1, StillOnward, AsideWaits DEF SameRow
  <1> QED
    BY <1>1, <1>2

LEMMA NextWaits == Inv /\ Inv' /\ Waits /\ [Next]_vars => Waits'
  <1> SUFFICES ASSUME Inv, Inv', Waits, [Next]_vars PROVE Waits'
    OBVIOUS
  <1>1. CASE \E r \in Requests : Begin(r) \/ MailAccepted(r) \/ MailRefused(r) \/ Lose(r)
    BY <1>1, MailsWaits
  <1>2. CASE \E f \in Finishers, t \in 1 .. tokens : BeginFinish(f, t)
    BY <1>2, OutsideWaits
  <1>3. CASE Tick \/ Deactivate \/ UNCHANGED vars
    BY <1>3, OutsideWaits
  <1>4. CASE flow = "login" /\ LoginNext
    BY <1>4, OutsideWaits, LoginWaits, LoginEntriesWait DEF LoginNext
  <1>5. CASE flow = "setup" /\ SetupNext
    BY <1>5, OutsideWaits, FreshWaits, SetupWaits, SetupEntriesWait DEF SetupNext
  <1>6. CASE flow = "reset" /\ ResetNext
    BY <1>6, OutsideWaits, ResetWaits, ResetEntriesWait DEF ResetNext
  <1>7. CASE flow = "admin" /\ AdminNext
    BY <1>7, AdminWaits, AdminEntriesWait DEF AdminNext
  <1> QED
    BY <1>1, <1>2, <1>3, <1>4, <1>5, <1>6, <1>7 DEF Next

LEMMA InitWaits == Init => Waits
  <1> SUFFICES ASSUME Init PROVE Waits
    OBVIOUS
  <1>1. \A i \in RowIds : rows[i].status = "none"
    BY NoRowTyped DEF Init
  <1>2. \A r \in Requests : req[r].pc = "new" /\ ~Kept(r)
    BY DEF Init, Idle, Kept
  <1> QED
    BY <1>1, <1>2 DEF Waits, TopPending, Timely, InFlight, Active

\* When every request has ended and none was lost, a row that is waited for has its code in the
\* mailbox, belongs to nobody, may be mailed again, or is below a younger row.
THEOREM NobodyWaitsInVain == Spec => []NoWaitForLostMail
  <1>1. Init => Inv /\ Waits
    <2>1. Init => Inv
      BY InitInv
    <2>2. Init => Waits
      BY InitWaits
    <2> QED
      BY <2>1, <2>2
  <1>2. Inv /\ Waits /\ [Next]_vars => (Inv /\ Waits)'
    BY NextInv, NextWaits
  <1>3. Inv /\ Waits => NoWaitForLostMail
    <2> SUFFICES ASSUME Inv, Waits, Quiet, NEW i \in RowIds, rows[i].status \in Active
                 PROVE  /\ rows[i].status = "pending"
                        /\ \/ rows[i].code \in delivered
                           \/ ~rows[i].user /\ ~rows[i].contact
                           \/ ~ResendLocked(rows[i], now)
                           \/ flow = "setup" /\ i # Latest(Stored)
      BY DEF NoWaitForLostMail, WithStatus
    <2>1. ~Mailing(i)
      BY DEF Mailing, Quiet, InMail
    <2>2. rows[i].status = "pending" /\ (Settled(rows[i]) \/ Overtaken(i))
      BY <2>1 DEF Waits, Excused, Quiet
    <2>3. Overtaken(i) => flow = "setup" /\ i # Latest(Stored)
      <3> SUFFICES ASSUME flow = "setup", NEW j \in RowIds, rows[j].status \in Stored, j > i
                   PROVE  i # Latest(Stored)
        BY DEF Overtaken
      <3>1. j \in WithStatus(Stored)
        BY DEF WithStatus
      <3>2. j <= Latest(Stored) /\ Latest(Stored) \in RowIds
        BY <3>1, LatestIs
      <3> QED
        BY <3>2, IdsFinite
    <2> QED
      BY <2>2, <2>3 DEF Settled
  <1> QED
    BY <1>1, <1>2, <1>3, PTL DEF Spec

-----------------------------------------------------------------------------
(* A delivered code stands.                                                *)

\* the code is in the mailbox, or may get there
Mailable(r) == r \in delivered \/ req[r].pc \in InMail
\* both times of a row come from one clock, and it is mailed to somebody
Dated(row) ==
    /\ row.expires + Cooldown = row.resend + Ttl
    /\ Mailable(row.code) => row.user \/ row.contact
Dates == flow # "reset" =>
    /\ \A i \in RowIds : rows[i].status \in Active => Dated(rows[i])
    /\ \A r \in Requests : Kept(r) => Dated(req[r].previous)
    /\ \A r \in Requests : req[r].pc \in Unsent => r \notin delivered

\* what a step may do to a row that stays open, and to the requests when none stores
Aging(i) ==
    /\ rows[i].status \in Active /\ rows'[i].code = rows[i].code
    /\ rows'[i].user = rows[i].user /\ rows'[i].contact = rows[i].contact
    /\ rows'[i].expires = rows[i].expires /\ rows'[i].resend = rows[i].resend
KnownMail(r) == /\ req[r].pc \notin Unsent /\ Mailable(r)' => Mailable(r)
                /\ req'[r].pc \in Unsent => req[r].pc \in Unsent /\ (r \in delivered' => r \in delivered)
CalmMail(r) == /\ Kept(r)' => Kept(r) /\ req'[r].previous = req[r].previous
               /\ KnownMail(r)

\* row i can be entered with the code of r, and what may become of it
Standing(r, i) ==
    rows[i].status = "pending" /\ rows[i].code = r /\ req[r].pc = "done" /\ r \in delivered
Stands(r, i) ==
    \/ rows'[i].code = r /\ rows'[i].status \in {"pending", "verified", "consumed"}
    \/ rows'[i].code = r /\ rows'[i].status = "expired" /\ rows[i].expires <= now
    \/ /\ rows'[i].code = r /\ rows'[i].status = "invalidated"
       /\ guesses'[r] = MaxAttempts \/ account # "active"
    \/ rows'[i].code # r /\ rows'[i].expires > rows[i].expires
AllStand == \A r \in Requests, i \in RowIds : Standing(r, i) => Stands(r, i)

\* a row that can be entered, and a copy, is of a request that has stored
LEMMA StoredCodes ==
    ASSUME Inv
    PROVE  /\ \A i \in RowIds : rows[i].status \in Active => /\ rows[i].code \in Requests
                                                            /\ req[rows[i].code].pc \notin Unsent
           /\ \A r \in Requests : Kept(r) => /\ req[r].previous.code \in Requests
                                             /\ req[req[r].previous.code].pc \notin Unsent
  BY DEF Inv, Codes, Fit, Open, Active

LEMMA DatedStays ==
    ASSUME \A r \in Requests : KnownMail(r), NEW row, row.code \in Requests,
           req[row.code].pc \notin Unsent, Dated(row)
    PROVE  Dated(row)'
  BY DEF Dated, KnownMail

LEMMA DatesStep ==
    ASSUME Inv, Dates, flow # "reset", flow' = flow,
           \A r \in Requests : KnownMail(r),
           \A i \in RowIds : rows'[i].status \in Active => Aging(i) \/ Dated(rows[i])',
           \A r \in Requests : Kept(r)' =>
               \/ Kept(r) /\ req'[r].previous = req[r].previous
               \/ \E i \in RowIds : rows[i].status \in Active /\ req'[r].previous = rows[i]
    PROVE  Dates'
  <1>1. ASSUME NEW i \in RowIds, rows'[i].status \in Active PROVE Dated(rows[i])'
    <2>1. CASE Aging(i)
      <3>1. Dated(rows[i]) /\ rows[i].code \in Requests /\ req[rows[i].code].pc \notin Unsent
        BY <2>1, StoredCodes DEF Dates, Aging
      <3>2. ASSUME NEW old, NEW new, Dated(old), old.code \in Requests,
                   req[old.code].pc \notin Unsent, new.code = old.code, new.user = old.user,
                   new.contact = old.contact, new.expires = old.expires, new.resend = old.resend
            PROVE  Dated(new)'
        BY <3>2, DatedStays DEF Dated
      <3> QED
        BY <2>1, <3>1, <3>2 DEF Aging, Dated
    <2> QED
      BY <1>1, <2>1
  <1>2. ASSUME NEW r \in Requests, Kept(r)' PROVE Dated(req[r].previous)'
    <2>1. PICK row : /\ req'[r].previous = row /\ Dated(row) /\ row.code \in Requests
                     /\ req[row.code].pc \notin Unsent
      BY <1>2, StoredCodes DEF Dates
    <2>2. Dated(row)'
      BY <2>1, DatedStays
    <2> QED
      BY <2>1, <2>2 DEF Dated
  <1>3. \A r \in Requests : req'[r].pc \in Unsent => r \notin delivered'
    BY DEF Dates, KnownMail
  <1> QED
    BY <1>1, <1>2, <1>3 DEF Dates

\* no request stores and no row is opened
LEMMA CalmDates ==
    ASSUME Inv, Dates, flow # "reset", flow' = flow, \A r \in Requests : CalmMail(r),
           \A i \in RowIds : rows'[i].status \in Active => Aging(i)
    PROVE  Dates'
  BY DatesStep DEF CalmMail

LEMMA GotoMail ==
    ASSUME Inv, NEW r \in Requests, NEW pc \in InFlight \cup {"new", "done"}, Goto(r, pc),
           pc \in InMail => req[r].pc \in InMail, pc \in Unsent => req[r].pc \in Unsent,
           delivered' = delivered \/ (delivered' = delivered \cup {r} /\ req[r].pc \in InMail)
    PROVE  \A q \in Requests : CalmMail(q)
  <1>1. /\ req'[r].pc = pc
        /\ req'[r].previous = NoRow \/ req'[r].previous = req[r].previous
        /\ \A q \in Requests : q # r => req'[q] = req[q]
    BY GotoIs DEF Inv
  <1>2. InMail \cap Unsent = {}
    BY DEF InMail, Unsent
  <1>3. CalmMail(r)
    BY <1>1, <1>2 DEF CalmMail, KnownMail, Mailable, Kept
  <1>4. \A q \in Requests : q # r => CalmMail(q)
    BY <1>1 DEF CalmMail, KnownMail, Mailable, Kept
  <1> QED
    BY <1>3, <1>4

LEMMA SameMail ==
    ASSUME UNCHANGED <<req, delivered>>
    PROVE  \A q \in Requests : CalmMail(q)
  BY DEF CalmMail, KnownMail, Mailable, Kept

\* the rows stay, or are no longer to be entered
LEMMA SameRows ==
    ASSUME NEW k, \A i \in RowIds : i # k => rows'[i] = rows[i], rows'[k].status \notin Active
    PROVE  \A i \in RowIds : rows'[i].status \in Active => Aging(i)
  BY DEF Aging, Active

LEMMA UntouchedStands ==
    ASSUME \A i \in RowIds, r \in Requests : Standing(r, i) => rows'[i] = rows[i]
    PROVE  AllStand
  BY DEF AllStand, Standing, Stands

\* a step beside the rows
LEMMA BesideStands ==
    ASSUME Inv, Dates, flow # "reset", flow' = flow, rows' = rows,
           \A r \in Requests : CalmMail(r)
    PROVE  Dates' /\ AllStand
  BY CalmDates, UntouchedStands DEF Aging

\* a row that has expired is closed by a request or an entry that came after that
LEMMA ExpiredStands ==
    ASSUME Inv, Dates, flow # "reset", flow' = flow, \A r \in Requests : CalmMail(r),
           NEW i \in RowIds, NEW at \in Nat, at <= now, Expired(rows[i], at),
           rows' = Close(i, "expired")
    PROVE  Dates' /\ AllStand
  <1>1. /\ rows'[i].status = "expired" /\ rows'[i].code = rows[i].code
        /\ \A j \in RowIds : j # i => rows'[j] = rows[j]
    BY CloseIs DEF Inv, Stored
  <1>2. Dates'
    BY <1>1, SameRows, CalmDates DEF Active
  <1>3. rows[i].expires \in Nat /\ now \in Nat
    BY WasTyped DEF Row, OthersTyped
  <1>4. rows[i].expires <= now
    BY <1>3 DEF Expired
  <1> QED
    BY <1>1, <1>2, <1>4 DEF AllStand, Standing, Stands

\* a wrong code closes the row with the last attempt
LEMMA WrongStands ==
    ASSUME Inv, Dates, flow \in {"login", "setup"}, flow' = flow, UNCHANGED <<req, delivered>>,
           NEW i \in RowIds, rows[i].status = "pending", WrongCode(i)
    PROVE  Dates' /\ AllStand
  <1>1. CASE rows' = Close(i, "invalidated") /\ rows[i].attempts + 1 >= MaxAttempts
    <2>1. /\ rows'[i].status = "invalidated" /\ rows'[i].code = rows[i].code
          /\ \A j \in RowIds : j # i => rows'[j] = rows[j]
      BY <1>1, CloseIs DEF Inv, Stored
    <2>2. Dates'
      BY <2>1, SameMail, SameRows, CalmDates DEF Active
    <2>3. PICK c \in Requests : c = rows[i].code
      BY StoredCodes DEF Active
    <2>4. rows[i].attempts = guesses[c] /\ guesses[c] < MaxAttempts
      BY <2>3 DEF Inv, Codes, Fit, Open
    <2>5. guesses'[c] = guesses[c] + 1 /\ guesses[c] \in Nat
      BY <2>3, WasTyped DEF WrongCode
    <2>6. guesses'[c] = MaxAttempts
      BY <1>1, <2>4, <2>5, BoundsAssumption
    <2> QED
      BY <2>1, <2>2, <2>3, <2>6 DEF AllStand, Standing, Stands
  <1>2. CASE rows' = [rows EXCEPT ![i].attempts = rows[i].attempts + 1]
    <2>1. /\ rows'[i] = [rows[i] EXCEPT !.attempts = rows[i].attempts + 1]
          /\ \A j \in RowIds : j # i => rows'[j] = rows[j]
      BY <1>2, WasTyped
    <2>2. rows[i] \in Row
      BY WasTyped
    <2>3. rows'[i].status = rows[i].status /\ Aging(i)
      BY <2>1, <2>2 DEF Row, Aging, Active
    <2>4. \A j \in RowIds : rows'[j].status \in Active => Aging(j)
      BY <2>1, <2>3 DEF Aging
    <2>5. Dates'
      BY <2>4, SameMail, CalmDates
    <2> QED
      BY <2>1, <2>3, <2>5 DEF AllStand, Standing, Stands, Aging
  <1> QED
    BY <1>1, <1>2 DEF WrongCode

\* the row opens what it was made for
LEMMA OpenedStands ==
    ASSUME Inv, Dates, flow # "reset", flow' = flow, UNCHANGED <<req, delivered>>,
           NEW i \in RowIds,
           \/ rows' = Close(i, "consumed")
           \/ rows' = Close(i, "verified")
           \/ \E at : IssueToken(i, at)
    PROVE  Dates' /\ AllStand
  <1>1. /\ rows'[i].status \in {"verified", "consumed"} /\ rows'[i].code = rows[i].code
        /\ \A j \in RowIds : j # i => rows'[j] = rows[j]
    <2>1. CASE rows' = Close(i, "consumed") \/ rows' = Close(i, "verified")
      BY <2>1, CloseIs DEF Inv, Stored
    <2>2. ASSUME NEW at, IssueToken(i, at)
          PROVE  /\ rows'[i].status = "verified" /\ rows'[i].code = rows[i].code
                 /\ \A j \in RowIds : j # i => rows'[j] = rows[j]
      <3>1. rows' = [rows EXCEPT ![i].status = "verified", ![i].token = tokens + 1,
                                 ![i].tokenExpires = at + TokenTtl]
        BY <2>2 DEF IssueToken
      <3>2. rows'[i] = [rows[i] EXCEPT !.status = "verified", !.token = tokens + 1,
                                       !.tokenExpires = at + TokenTtl]
            /\ \A j \in RowIds : j # i => rows'[j] = rows[j]
        BY <3>1, WasTyped
      <3>3. rows[i] \in Row
        BY WasTyped
      <3> QED
        BY <3>2, <3>3 DEF Row
    <2> QED
      BY <2>1, <2>2
  <1>2. Dates'
    BY <1>1, SameMail, SameRows, CalmDates DEF Active
  <1> QED
    BY <1>1, <1>2 DEF AllStand, Standing, Stands

\* a finisher closes a row that has been entered already
LEMMA FinishedStands ==
    ASSUME Inv, Dates, flow # "reset", flow' = flow, UNCHANGED <<req, delivered>>,
           NEW i \in RowIds, rows[i].status = "verified",
           NEW s \in {"invalidated", "consumed"}, rows' = Close(i, s)
    PROVE  Dates' /\ AllStand
  <1>1. /\ rows'[i].status = s
        /\ \A j \in RowIds : j # i => rows'[j] = rows[j]
    BY CloseIs DEF Inv, Stored
  <1>2. Dates'
    BY <1>1, SameMail, SameRows, CalmDates DEF Active
  <1> QED
    BY <1>1, <1>2, UntouchedStands DEF Standing

\* what a request writes: its code, and both times by its own clock
Written(row, r) ==
    /\ Ours(row, r)
    /\ row.expires = req[r].at + Ttl /\ row.resend = req[r].at + Cooldown

LEMMA WrittenIs ==
    ASSUME Inv, NEW r \in Requests, NEW s \in {"pending", "sending"},
           s = "sending" <=> flow = "admin", NEW u \in BOOLEAN, NEW c \in BOOLEAN
    PROVE  /\ Written([Fresh(r, s) EXCEPT !.user = u, !.contact = c], r)
           /\ Written([Fresh(r, s) EXCEPT !.user = u], r)
  <1> DEFINE f == Fresh(r, s)
             a == req[r].at + Ttl
             b == req[r].at + Cooldown
  <1>1. f \in Row /\ f.status = s /\ f.code = r /\ f.attempts = 0
    BY FreshTyped DEF Inv, Stored
  <1>2. f.expires = a /\ f.resend = b
    <2>1. f = [NoRow EXCEPT !.status = s, !.code = r, !.expires = a, !.resend = b]
      BY DEF Fresh
    <2> HIDE DEF f, a, b
    <2> QED
      BY <2>1 DEF NoRow
  <1> HIDE DEF f, a, b
  <1>3. ASSUME NEW row \in Row, row.status = s, row.code = r, row.attempts = 0,
               row.expires = a, row.resend = b
        PROVE  Written(row, r)
    BY <1>3 DEF Written, Ours, a, b
  <1>4. /\ [f EXCEPT !.user = u, !.contact = c] \in Row
        /\ [f EXCEPT !.user = u] \in Row
    BY <1>1 DEF Row
  <1>5. Written([f EXCEPT !.user = u, !.contact = c], r)
    BY <1>1, <1>2, <1>3, <1>4 DEF Row
  <1>6. Written([f EXCEPT !.user = u], r)
    BY <1>1, <1>2, <1>3, <1>4 DEF Row
  <1> QED
    BY <1>5, <1>6 DEF f

\* the mail of the new row goes to somebody
LEMMA StoreMail ==
    ASSUME Inv, Dates, flow # "reset", NEW r \in Requests, req[r].pc \in Unsent,
           UNCHANGED delivered, NEW k \in RowIds, NEW old \in Row, NEW m, Store(r, k, old, m),
           NEW row, Written(row, r), m => row.user \/ row.contact, rows'[k] = row
    PROVE  /\ \A q \in Requests : KnownMail(q)
           /\ \A q \in Requests : Kept(q)' => \/ Kept(q) /\ req'[q].previous = req[q].previous
                                              \/ old # NoRow /\ req'[q].previous = old
           /\ Dated(rows[k])'
  <1>1. /\ req'[r].pc \in {"mailing", "done"}
        /\ req'[r].pc = "done" => req'[r].previous = NoRow
        /\ req'[r].pc = "mailing" => req'[r].previous = old
        /\ \A q \in Requests : q # r => req'[q] = req[q]
    BY StoreIs DEF Inv
  <1>2. req'[r].pc = "mailing" => m
    <2>1. CASE ~m
      <3>1. Goto(r, "done")
        BY <2>1 DEF Store
      <3> QED
        BY <3>1, GotoIs DEF Inv
    <2> QED
      BY <2>1
  <1>3. \A q \in Requests : KnownMail(q)
    BY <1>1 DEF KnownMail, Mailable, Unsent
  <1>4. r \notin delivered'
    BY DEF Dates
  <1>5. row.expires + Cooldown = row.resend + Ttl
    <2>1. req[r].at \in Nat /\ Ttl \in Nat /\ Cooldown \in Nat
      BY WasTyped, BoundsAssumption DEF ReqType
    <2> QED
      BY <2>1 DEF Written
  <1>6. Mailable(r)' => row.user \/ row.contact
    BY <1>1, <1>2, <1>4 DEF Mailable, InMail
  <1>7. Dated(rows[k])'
    <2>1. row.code = r
      BY DEF Written, Ours
    <2> QED
      BY <1>5, <1>6, <2>1 DEF Dated
  <1> QED
    BY <1>1, <1>3, <1>7 DEF Kept

LEMMA PutStands ==
    ASSUME Inv, Dates, flow # "reset", UNCHANGED <<flow, delivered>>,
           NEW r \in Requests, req[r].pc \in Unsent,
           NEW i \in RowIds, rows[i].status = "pending", ~ResendLocked(rows[i], req[r].at),
           NEW row, Written(row, r), NEW m, m => row.user \/ row.contact,
           rows' = [rows EXCEPT ![i] = row], Store(r, i, rows[i], m)
    PROVE  Dates' /\ AllStand
  <1>1. /\ rows'[i] = row
        /\ \A j \in RowIds : j # i => rows'[j] = rows[j]
    BY WasTyped
  <1>2. rows[i] \in Row /\ rows[i].status \in Active
    BY WasTyped DEF Active
  <1>3. /\ \A q \in Requests : KnownMail(q)
        /\ \A q \in Requests : Kept(q)' => \/ Kept(q) /\ req'[q].previous = req[q].previous
                                           \/ req'[q].previous = rows[i]
        /\ Dated(rows[i])'
    BY <1>1, <1>2, StoreMail
  <1>4. \A j \in RowIds : rows'[j].status \in Active => Aging(j) \/ Dated(rows[j])'
    BY <1>1, <1>3 DEF Aging
  <1>5. Dates'
    BY <1>2, <1>3, <1>4, DatesStep
  <1>6. row.expires > rows[i].expires /\ row.code = r
    <2>1. rows[i].expires \in Nat /\ rows[i].resend \in Nat /\ req[r].at \in Nat
      BY WasTyped DEF Row, ReqType
    <2>2. Ttl \in Nat /\ Cooldown \in Nat /\ Cooldown > 0
      BY BoundsAssumption
    <2>3. rows[i].expires + Cooldown = rows[i].resend + Ttl
      BY <1>2 DEF Dates, Dated
    <2>4. rows[i].resend <= req[r].at
      BY <2>1 DEF ResendLocked
    <2>5. row.expires = req[r].at + Ttl /\ row.code = r
      BY DEF Written, Ours
    <2> QED
      BY <2>1, <2>2, <2>3, <2>4, <2>5
  <1>7. \A q \in Requests : Standing(q, i) => q # r
    BY DEF Standing, Unsent
  <1> QED
    BY <1>1, <1>5, <1>6, <1>7 DEF AllStand, Standing, Stands

LEMMA InsertStands ==
    ASSUME Inv, Dates, Waits, flow # "reset", UNCHANGED <<flow, delivered>>,
           NEW r \in Requests, req[r].pc \in Unsent \ {"new"},
           NEW i, \/ i = NoId
                  \/ i \in RowIds /\ rows[i].status = "pending" /\ Expired(rows[i], req[r].at),
           NEW row, Written(row, r), NEW m, m => row.user \/ row.contact, NEW k, k = NextId,
           rows' = [(IF i = NoId THEN rows ELSE Close(i, "expired")) EXCEPT ![k] = row],
           Store(r, k, NoRow, m)
    PROVE  Dates' /\ AllStand
  <1> DEFINE base == IF i = NoId THEN rows ELSE Close(i, "expired")
  <1>1. k \in RowIds /\ rows[k].status = "none" /\ req[r].pc \in Unsent
    BY NextIdIs DEF Inv
  <1>2. /\ base \in [RowIds -> Row]
        /\ \A j \in RowIds : j # i => base[j] = rows[j]
        /\ i # NoId => base[i].status = "expired" /\ base[i].code = rows[i].code
    BY CloseIs, WasTyped, IdsFinite DEF Stored, Inv
  <1>3. rows' = [base EXCEPT ![k] = row]
    OBVIOUS
  <1> HIDE DEF base
  <1>4. /\ rows'[k] = row
        /\ \A j \in RowIds : j # k => rows'[j] = base[j]
    BY <1>1, <1>2, <1>3
  <1>5. /\ \A q \in Requests : KnownMail(q)
        /\ \A q \in Requests : Kept(q)' => Kept(q) /\ req'[q].previous = req[q].previous
        /\ Dated(rows[k])'
    BY <1>1, <1>4, NoRowTyped, StoreMail
  <1>6. \A j \in RowIds : j # k => rows'[j] = rows[j] \/ rows'[j].status = "expired"
    BY <1>2, <1>4, IdsFinite
  <1>7. \A j \in RowIds : rows'[j].status \in Active => Aging(j) \/ Dated(rows[j])'
    BY <1>5, <1>6 DEF Aging, Active
  <1>8. Dates'
    BY <1>5, <1>7, DatesStep
  <1>9. \A j \in RowIds : j # k => \/ rows'[j] = rows[j]
                                   \/ /\ rows'[j].status = "expired" /\ rows'[j].code = rows[j].code
                                      /\ rows[j].expires <= now
    <2>1. i # NoId => rows[i].expires <= now
      <3>1. i # NoId => rows[i].expires \in Nat
        BY WasTyped DEF Row
      <3>2. req[r].at \in Nat /\ now \in Nat /\ req[r].at <= now
        BY WasTyped DEF ReqType, OthersTyped, Waits, Timely, Unsent, InFlight
      <3> QED
        BY <3>1, <3>2 DEF Expired
    <2> QED
      BY <1>2, <1>4, <2>1, IdsFinite
  <1> QED
    BY <1>1, <1>8, <1>9 DEF AllStand, Standing, Stands

\* the two ways StoreLogin, StoreSetup and StoreAdmin write a row
LEMMA WriteStands ==
    ASSUME Inv, Dates, Waits, flow # "reset", UNCHANGED <<flow, delivered>>,
           NEW r \in Requests, req[r].pc \in Unsent \ {"new"},
           NEW i, i = NoId \/ (i \in RowIds /\ rows[i].status = "pending"), NEW row, Written(row, r),
           NEW m, m => row.user \/ row.contact,
           \/ /\ i # NoId /\ ~ResendLocked(rows[i], req[r].at)
              /\ rows' = [rows EXCEPT ![i] = row] /\ Store(r, i, rows[i], m)
           \/ /\ i # NoId => Expired(rows[i], req[r].at)
              /\ \E k : /\ k = NextId
                        /\ rows' = [(IF i = NoId THEN rows ELSE Close(i, "expired"))
                                      EXCEPT ![k] = row]
                        /\ Store(r, k, NoRow, m)
    PROVE  Dates' /\ AllStand
  <1>1. CASE /\ i # NoId /\ ~ResendLocked(rows[i], req[r].at)
             /\ rows' = [rows EXCEPT ![i] = row] /\ Store(r, i, rows[i], m)
    BY <1>1, PutStands
  <1>2. ASSUME i # NoId => Expired(rows[i], req[r].at), NEW k, k = NextId, Store(r, k, NoRow, m),
               rows' = [(IF i = NoId THEN rows ELSE Close(i, "expired")) EXCEPT ![k] = row]
        PROVE  Dates' /\ AllStand
    BY <1>2, InsertStands
  <1> QED
    BY <1>1, <1>2

\* a clean-up touches a row whose mail was refused
LEMMA CleanStands ==
    ASSUME Inv, Dates, flow # "reset", UNCHANGED <<flow, delivered>>,
           NEW r \in Requests, req[r].pc = "refused", Goto(r, "done"), NEW k, k = req[r].id,
           rows[k].code = r,
           \/ Kept(r) /\ rows' = [rows EXCEPT ![k] = req[r].previous]
           \/ rows' = Delete(k)
    PROVE  Dates' /\ AllStand
  <1>1. k \in RowIds
    BY DEF Inv, OneLive, InMail
  <1>2. \A q \in Requests : CalmMail(q)
    BY GotoMail DEF InMail, Unsent
  <1>3. \A j \in RowIds : j # k => rows'[j] = rows[j]
    BY <1>1, DeleteIs, WasTyped DEF Inv
  <1>4. AllStand
    <2>1. \A q \in Requests : ~Standing(q, k)
      BY DEF Standing
    <2> QED
      BY <1>3, <2>1, UntouchedStands
  <1>5. Dates'
    <2>1. CASE Kept(r) /\ rows' = [rows EXCEPT ![k] = req[r].previous]
      <3>1. PICK row : row = req[r].previous
        OBVIOUS
      <3>2. rows'[k] = row /\ Dated(row)
        BY <1>1, <2>1, <3>1, WasTyped DEF Dates
      <3>3. row.code \in Requests /\ req[row.code].pc \notin Unsent
        BY <2>1, <3>1, StoredCodes
      <3>4. Dated(row)'
        BY <1>2, <3>2, <3>3, DatedStays DEF CalmMail
      <3>5. Dated(rows[k])'
        BY <3>2, <3>4 DEF Dated
      <3>6. \A j \in RowIds : rows'[j].status \in Active => Aging(j) \/ Dated(rows[j])'
        BY <1>3, <3>5 DEF Aging
      <3> QED
        BY <1>2, <3>6, DatesStep DEF CalmMail
    <2>2. CASE rows' = Delete(k)
      <3>1. rows'[k].status = "deleted"
        BY <1>1, <2>2, DeleteIs DEF Inv
      <3> QED
        BY <1>2, <1>3, <3>1, SameRows, CalmDates DEF Active
    <2> QED
      BY <2>1, <2>2
  <1> QED
    BY <1>4, <1>5

\* the code was right and there is no user to let in
LEMMA UselessStands ==
    ASSUME Inv, Dates, flow # "reset", flow' = flow, UNCHANGED <<req, delivered>>,
           NEW i \in RowIds, rows[i].status = "pending", rows' = Close(i, "invalidated"),
           ~(rows[i].user /\ account = "active"), ~(~rows[i].user /\ rows[i].contact)
    PROVE  Dates' /\ AllStand
  <1>1. /\ rows'[i].status = "invalidated" /\ rows'[i].code = rows[i].code
        /\ \A j \in RowIds : j # i => rows'[j] = rows[j]
    BY CloseIs DEF Inv, Stored
  <1>2. Dates'
    BY <1>1, SameMail, SameRows, CalmDates DEF Active
  <1>3. \A r \in Requests : Standing(r, i) => account # "active"
    BY DEF Standing, Dates, Dated, Mailable, Active
  <1> QED
    BY <1>1, <1>2, <1>3 DEF AllStand, Standing, Stands

\* the clean-up of a login or a set-up
LEMMA CleanedStands ==
    ASSUME Inv, Dates, flow # "reset", UNCHANGED <<flow, delivered>>,
           NEW r \in Requests, req[r].pc = "refused", Goto(r, "done"),
           rows' = CASE ~Owns(r) -> rows
                     [] Owns(r) /\ req[r].previous # NoRow ->
                            [rows EXCEPT ![req[r].id] = req[r].previous]
                     [] OTHER -> Delete(req[r].id)
    PROVE  Dates' /\ AllStand
  <1>1. CASE ~Owns(r)
    <2>1. rows' = rows
      BY <1>1
    <2>2. \A q \in Requests : CalmMail(q)
      BY GotoMail DEF InMail, Unsent
    <2> QED
      BY <2>1, <2>2, BesideStands
  <1>2. CASE Owns(r)
    <2>1. PICK k : k = req[r].id
      OBVIOUS
    <2>2. rows[k].code = r
      BY <1>2, <2>1 DEF Owns
    <2>3. (Kept(r) /\ rows' = [rows EXCEPT ![k] = req[r].previous]) \/ rows' = Delete(k)
      BY <1>2, <2>1 DEF Kept
    <2> QED
      BY <2>1, <2>2, <2>3, CleanStands
  <1> QED
    BY <1>1, <1>2

\* a finisher closes a verified row or none
LEMMA ClosedStands ==
    ASSUME Inv, Dates, flow # "reset", flow' = flow, UNCHANGED <<req, delivered>>,
           NEW i, i = Latest({"verified"}),
           rows' = rows \/ (i # NoId /\ \E s \in {"invalidated", "consumed"} : rows' = Close(i, s))
    PROVE  Dates' /\ AllStand
  <1>1. CASE rows' = rows
    BY <1>1, SameMail, BesideStands
  <1>2. CASE i # NoId /\ \E s \in {"invalidated", "consumed"} : rows' = Close(i, s)
    <2>1. i \in RowIds /\ rows[i].status = "verified"
      BY <1>2, FoundStored
    <2> QED
      BY <1>2, <2>1, FinishedStands
  <1> QED
    BY <1>1, <1>2

-----------------------------------------------------------------------------
(* The actions leave a delivered code standing.                            *)

LEMMA MailsStand ==
    ASSUME Inv, Dates, flow # "reset",
           NEW r \in Requests, Begin(r) \/ MailAccepted(r) \/ MailRefused(r) \/ Lose(r)
    PROVE  Dates' /\ AllStand
  <1>1. flow' = flow /\ rows' = rows
    BY DEF Begin, MailAccepted, MailRefused, Lose, table
  <1>2. \A q \in Requests : CalmMail(q)
    <2>1. CASE Begin(r)
      <3>1. req' = [req EXCEPT ![r].pc = "begun", ![r].at = now] /\ delivered' = delivered
        BY <2>1 DEF Begin
      <3>2. /\ req'[r].pc = "begun" /\ req'[r].previous = req[r].previous
            /\ \A q \in Requests : q # r => req'[q] = req[q]
        BY <3>1, WasTyped DEF ReqType
      <3>3. req[r].pc = "new"
        BY <2>1 DEF Begin
      <3> QED
        BY <3>1, <3>2, <3>3 DEF CalmMail, KnownMail, Mailable, Kept, Unsent, InMail
    <2>2. CASE MailAccepted(r)
      <3>1. /\ req[r].pc = "mailing" /\ delivered' = delivered \cup {r}
            /\ \E pc \in {"mailed", "done"} : Goto(r, pc)
        BY <2>2 DEF MailAccepted
      <3> QED
        BY <3>1, GotoMail DEF InFlight, InMail, Unsent
    <2>3. CASE MailRefused(r)
      <3>1. /\ req[r].pc = "mailing" /\ Goto(r, "refused")
            /\ delivered' = delivered \/ delivered' = delivered \cup {r}
        BY <2>3 DEF MailRefused
      <3> QED
        BY <3>1, GotoMail DEF InFlight, InMail, Unsent
    <2>4. CASE Lose(r)
      <3>1. Goto(r, "done") /\ delivered' = delivered
        BY <2>4 DEF Lose
      <3> QED
        BY <3>1, GotoMail DEF InMail, Unsent
    <2> QED
      BY <2>1, <2>2, <2>3, <2>4
  <1> QED
    BY <1>1, <1>2, BesideStands

LEMMA OutsideStands ==
    ASSUME Inv, Dates, flow # "reset",
           \/ Tick \/ Deactivate \/ CreateUser \/ ResetElsewhere
           \/ \E d \in Documents : UploadDocument(d)
           \/ \E f \in Finishers, t \in 1 .. tokens : BeginFinish(f, t)
           \/ \E f \in Finishers, d \in Documents : ReadDocument(f, d)
           \/ UNCHANGED vars
    PROVE  Dates' /\ AllStand
  <1>1. UNCHANGED <<flow, rows, req, delivered>>
    BY DEF Tick, Deactivate, CreateUser, ResetElsewhere, UploadDocument, BeginFinish,
           ReadDocument, table, identity, law, loginRest, vars
  <1> QED
    BY <1>1, SameMail, BesideStands

LEMMA LoginStands ==
    ASSUME Inv, Dates, Waits, flow = "login", NEW r \in Requests,
           PreflightLogin(r) \/ ObserveLogin(r) \/ StoreLogin(r) \/ CleanupLogin(r)
    PROVE  Dates' /\ AllStand
  <1>1. PICK i : i = Latest({"pending"})
    OBVIOUS
  <1>2. i = NoId \/ (i \in RowIds /\ rows[i].status = "pending")
    BY <1>1, FoundStored
  <1>3. UNCHANGED <<flow, delivered>>
    BY DEF PreflightLogin, ObserveLogin, StoreLogin, CleanupLogin, loginRest
  <1>4. CASE PreflightLogin(r)
    <2>1. req[r].pc = "begun" /\ \E pc \in {"done", "ready"} : Goto(r, pc)
      BY <1>4 DEF PreflightLogin
    <2>2. \A q \in Requests : CalmMail(q)
      BY <1>3, <2>1, GotoMail DEF InFlight, InMail, Unsent
    <2>3. req[r].at \in Nat /\ req[r].at <= now
      BY <2>1, WasTyped DEF ReqType, Waits, Timely, InFlight
    <2>4. rows' = rows \/ (i # NoId /\ Expired(rows[i], req[r].at) /\ rows' = Close(i, "expired"))
      BY <1>1, <1>4 DEF PreflightLogin
    <2>5. CASE rows' = rows
      BY <1>3, <2>2, <2>5, BesideStands
    <2>6. CASE i # NoId /\ Expired(rows[i], req[r].at) /\ rows' = Close(i, "expired")
      BY <1>2, <1>3, <2>2, <2>3, <2>6, ExpiredStands
    <2> QED
      BY <2>4, <2>5, <2>6
  <1>5. CASE ObserveLogin(r)
    <2>1. rows' = rows /\ req[r].pc = "ready"
      BY <1>5 DEF ObserveLogin
    <2> DEFINE c == account = "none" /\ contact
    <2>2. req' = [req EXCEPT ![r].pc = "hashed", ![r].contact = c]
      BY <1>5 DEF ObserveLogin
    <2> HIDE DEF c
    <2>3. /\ req'[r].pc = "hashed" /\ req'[r].previous = req[r].previous
          /\ \A q \in Requests : q # r => req'[q] = req[q]
      BY <2>2, WasTyped DEF ReqType
    <2>4. \A q \in Requests : CalmMail(q)
      BY <1>3, <2>1, <2>3 DEF CalmMail, KnownMail, Mailable, Kept, Unsent, InMail
    <2> QED
      BY <1>3, <2>1, <2>4, BesideStands
  <1>6. CASE StoreLogin(r)
    <2>1. req[r].pc \in Unsent \ {"new"}
      BY <1>6 DEF StoreLogin, Unsent
    <2>2. CASE rows' = rows /\ Goto(r, "done")
      <3>1. \A q \in Requests : CalmMail(q)
        BY <1>3, <2>2, GotoMail DEF InMail, Unsent
      <3> QED
        BY <1>3, <2>2, <3>1, BesideStands
    <2>3. CASE ~(rows' = rows /\ Goto(r, "done"))
      <3> DEFINE u == account = "active"
                 c == account = "none" /\ req[r].contact
                 row == [Fresh(r, "pending") EXCEPT !.user = u, !.contact = c]
                 m == row.user \/ row.contact
      <3>1. Written(row, r)
        <4>1. u \in BOOLEAN /\ c \in BOOLEAN
          OBVIOUS
        <4> QED
          BY <4>1, WrittenIs
      <3>2. \/ /\ i # NoId /\ ~ResendLocked(rows[i], req[r].at)
               /\ rows' = [rows EXCEPT ![i] = row] /\ Store(r, i, rows[i], m)
            \/ /\ i # NoId => Expired(rows[i], req[r].at)
               /\ \E k : /\ k = NextId
                         /\ rows' = [(IF i = NoId THEN rows ELSE Close(i, "expired"))
                                       EXCEPT ![k] = row]
                         /\ Store(r, k, NoRow, m)
        BY <1>1, <1>6, <2>3 DEF StoreLogin
      <3>3. m => row.user \/ row.contact
        OBVIOUS
      <3> HIDE DEF row, m
      <3> QED
        BY <1>2, <1>3, <2>1, <3>1, <3>2, <3>3, WriteStands
    <2> QED
      BY <2>2, <2>3
  <1>7. CASE CleanupLogin(r)
    BY <1>3, <1>7, CleanedStands DEF CleanupLogin
  <1> QED
    BY <1>4, <1>5, <1>6, <1>7

LEMMA LoginEntriesStand ==
    ASSUME Inv, Dates, Waits, flow = "login",
           \/ \E at \in Times, entry \in delivered \cup {NoRequest} : VerifyLogin(entry, at)
           \/ \E f \in Finishers : AcceptLegal(f)
    PROVE  Dates' /\ AllStand
  <1>1. CASE \E at \in Times, entry \in delivered \cup {NoRequest} : VerifyLogin(entry, at)
    <2>1. PICK at \in Times, entry \in delivered \cup {NoRequest} : VerifyLogin(entry, at)
      BY <1>1
    <2>2. PICK i : i = Latest({"pending"})
      OBVIOUS
    <2>3. UNCHANGED <<flow, delivered, req>> /\ i # NoId
      BY <2>1, <2>2 DEF VerifyLogin, loginRest
    <2>4. i \in RowIds /\ rows[i].status = "pending"
      BY <2>2, <2>3, FoundStored
    <2>5. CASE Expired(rows[i], at) /\ rows' = Close(i, "expired")
      <3>1. at \in Nat /\ at <= now
        BY WasTyped DEF Times, OthersTyped
      <3>2. \A r \in Requests : CalmMail(r)
        BY <2>3, SameMail
      <3> QED
        BY <2>3, <2>4, <2>5, <3>1, <3>2, ExpiredStands
    <2>6. CASE WrongCode(i)
      BY <2>3, <2>4, <2>6, WrongStands
    <2>7. CASE /\ ~(rows[i].user /\ account = "active") /\ ~(~rows[i].user /\ rows[i].contact)
               /\ rows' = Close(i, "invalidated")
      BY <2>3, <2>4, <2>7, UselessStands
    <2>8. CASE rows' = Close(i, "consumed") \/ IssueToken(i, at)
      BY <2>3, <2>4, <2>8, OpenedStands
    <2> QED
      BY <2>1, <2>2, <2>5, <2>6, <2>7, <2>8 DEF VerifyLogin
  <1>2. CASE \E f \in Finishers : AcceptLegal(f)
    <2>1. PICK f \in Finishers : AcceptLegal(f)
      BY <1>2
    <2>2. PICK i : i = Latest({"verified"})
      OBVIOUS
    <2>3. UNCHANGED <<flow, delivered, req>>
      BY <2>1 DEF AcceptLegal, loginRest
    <2>4. rows' = rows \/ (i # NoId /\ \E s \in {"invalidated", "consumed"} : rows' = Close(i, s))
      BY <2>1, <2>2 DEF AcceptLegal
    <2> QED
      BY <2>2, <2>3, <2>4, ClosedStands
  <1> QED
    BY <1>1, <1>2

\* a verified row is inserted, without a mail
LEMMA FreshStands ==
    ASSUME Inv, Dates, flow = "setup", NEW r \in Requests, FreshSetup(r)
    PROVE  Dates' /\ AllStand
  <1>1. UNCHANGED <<flow, delivered>> /\ req[r].pc = "begun" /\ Goto(r, "done")
    BY DEF FreshSetup, setupRest
  <1>2. \A q \in Requests : CalmMail(q)
    BY <1>1, GotoMail DEF InMail, Unsent
  <1>3. CASE UNCHANGED table
    BY <1>1, <1>2, <1>3, BesideStands DEF table
  <1>4. CASE ~UNCHANGED table
    <2>1. PICK k : k = NextId
      OBVIOUS
    <2>2. k \in RowIds /\ rows[k].status = "none"
      BY <1>1, <2>1, NextIdIs DEF Inv, Unsent
    <2>3. PICK row : rows' = [rows EXCEPT ![k] = row] /\ row.status = "verified"
      <3>1. rows' = [rows EXCEPT ![k] =
                [NoRow EXCEPT !.status = "verified", !.code = r, !.user = TRUE,
                              !.expires = req[r].at + TokenTtl, !.resend = req[r].at,
                              !.token = tokens + 1, !.tokenExpires = req[r].at + TokenTtl]]
        BY <1>4, <2>1 DEF FreshSetup
      <3>2. [NoRow EXCEPT !.status = "verified", !.code = r, !.user = TRUE,
                          !.expires = req[r].at + TokenTtl, !.resend = req[r].at,
                          !.token = tokens + 1,
                          !.tokenExpires = req[r].at + TokenTtl].status = "verified"
        BY DEF NoRow
      <3> QED
        BY <3>1, <3>2
    <2>4. /\ rows'[k].status = "verified"
          /\ \A j \in RowIds : j # k => rows'[j] = rows[j]
      BY <2>2, <2>3, WasTyped
    <2>5. Dates'
      BY <1>1, <1>2, <2>4, SameRows, CalmDates DEF Active
    <2>6. AllStand
      BY <2>2, <2>4, UntouchedStands DEF Standing
    <2> QED
      BY <2>5, <2>6
  <1> QED
    BY <1>3, <1>4

LEMMA SetupStands ==
    ASSUME Inv, Dates, Waits, flow = "setup", NEW r \in Requests,
           PreflightSetup(r) \/ StoreSetup(r) \/ CleanupSetup(r)
    PROVE  Dates' /\ AllStand
  <1>1. PICK i : i = Latest({"pending"})
    OBVIOUS
  <1>2. i = NoId \/ (i \in RowIds /\ rows[i].status = "pending")
    BY <1>1, FoundStored
  <1>3. UNCHANGED <<flow, delivered>>
    BY DEF PreflightSetup, StoreSetup, CleanupSetup, setupRest
  <1>4. CASE PreflightSetup(r)
    <2>1. req[r].pc = "begun" /\ rows' = rows /\ \E pc \in {"done", "hashed"} : Goto(r, pc)
      BY <1>4 DEF PreflightSetup, table
    <2>2. \A q \in Requests : CalmMail(q)
      BY <1>3, <2>1, GotoMail DEF InFlight, InMail, Unsent
    <2> QED
      BY <1>3, <2>1, <2>2, BesideStands
  <1>5. CASE StoreSetup(r)
    <2>1. req[r].pc \in Unsent \ {"new"}
      BY <1>5 DEF StoreSetup, Unsent
    <2>2. CASE rows' = rows /\ Goto(r, "done")
      <3>1. \A q \in Requests : CalmMail(q)
        BY <1>3, <2>2, GotoMail DEF InMail, Unsent
      <3> QED
        BY <1>3, <2>2, <3>1, BesideStands
    <2>3. CASE ~(rows' = rows /\ Goto(r, "done"))
      <3> DEFINE row == [Fresh(r, "pending") EXCEPT !.user = TRUE]
      <3>1. Written(row, r)
        BY WrittenIs
      <3>2. row.user
        BY DEF Fresh, NoRow
      <3>3. \/ /\ i # NoId /\ ~ResendLocked(rows[i], req[r].at)
               /\ rows' = [rows EXCEPT ![i] = row] /\ Store(r, i, rows[i], TRUE)
            \/ /\ i # NoId => Expired(rows[i], req[r].at)
               /\ \E k : /\ k = NextId
                         /\ rows' = [(IF i = NoId THEN rows ELSE Close(i, "expired"))
                                       EXCEPT ![k] = row]
                         /\ Store(r, k, NoRow, TRUE)
        BY <1>1, <1>5, <2>3 DEF StoreSetup
      <3> HIDE DEF row
      <3> QED
        BY <1>2, <1>3, <2>1, <3>1, <3>2, <3>3, WriteStands
    <2> QED
      BY <2>2, <2>3
  <1>6. CASE CleanupSetup(r)
    BY <1>3, <1>6, CleanedStands DEF CleanupSetup
  <1> QED
    BY <1>4, <1>5, <1>6

LEMMA SetupEntriesStand ==
    ASSUME Inv, Dates, flow = "setup",
           \/ \E at \in Times, entry \in delivered \cup {NoRequest} : ConfirmSetup(entry, at)
           \/ \E f \in Finishers : CheckSetup(f) \/ SetSetupPassword(f)
    PROVE  Dates' /\ AllStand
  <1>1. CASE \E at \in Times, entry \in delivered \cup {NoRequest} : ConfirmSetup(entry, at)
    <2>1. PICK at \in Times, entry \in delivered \cup {NoRequest} : ConfirmSetup(entry, at)
      BY <1>1
    <2>2. PICK i : i = Latest({"pending"})
      OBVIOUS
    <2>3. UNCHANGED <<flow, delivered, req>> /\ i # NoId
      BY <2>1, <2>2 DEF ConfirmSetup, setupRest
    <2>4. i \in RowIds /\ rows[i].status = "pending"
      BY <2>2, <2>3, FoundStored
    <2>5. CASE Expired(rows[i], at) /\ rows' = Close(i, "expired")
      <3>1. at \in Nat /\ at <= now
        BY WasTyped DEF Times, OthersTyped
      <3>2. \A r \in Requests : CalmMail(r)
        BY <2>3, SameMail
      <3> QED
        BY <2>3, <2>4, <2>5, <3>1, <3>2, ExpiredStands
    <2>6. CASE WrongCode(i)
      BY <2>3, <2>4, <2>6, WrongStands
    <2>7. CASE IssueToken(i, at)
      BY <2>3, <2>4, <2>7, OpenedStands
    <2> QED
      BY <2>1, <2>2, <2>5, <2>6, <2>7 DEF ConfirmSetup
  <1>2. CASE \E f \in Finishers : CheckSetup(f) \/ SetSetupPassword(f)
    <2>1. PICK f \in Finishers : CheckSetup(f) \/ SetSetupPassword(f)
      BY <1>2
    <2>2. PICK i : i = Latest({"verified"})
      OBVIOUS
    <2>3. UNCHANGED <<flow, delivered, req>>
      BY <2>1 DEF CheckSetup, SetSetupPassword, setupRest
    <2>4. rows' = rows \/ (i # NoId /\ \E s \in {"invalidated", "consumed"} : rows' = Close(i, s))
      BY <2>1, <2>2 DEF CheckSetup, SetSetupPassword, SetupReady, SetupRefused
    <2> QED
      BY <2>2, <2>3, <2>4, ClosedStands
  <1> QED
    BY <1>1, <1>2

LEMMA AdminStands ==
    ASSUME Inv, Dates, Waits, flow = "admin", NEW r \in Requests,
           RefuseAdmin(r) \/ StoreAdmin(r) \/ MarkAdmin(r) \/ CleanupAdmin(r)
    PROVE  Dates' /\ AllStand
  <1>1. UNCHANGED <<flow, delivered>>
    BY DEF RefuseAdmin, StoreAdmin, MarkAdmin, CleanupAdmin, adminRest
  <1>2. CASE RefuseAdmin(r)
    <2>1. req[r].pc = "new" /\ rows' = rows /\ Goto(r, "done")
      BY <1>2 DEF RefuseAdmin
    <2>2. \A q \in Requests : CalmMail(q)
      BY <1>1, <2>1, GotoMail DEF InMail, Unsent
    <2> QED
      BY <1>1, <2>1, <2>2, BesideStands
  <1>3. CASE StoreAdmin(r)
    <2>1. req[r].pc \in Unsent \ {"new"}
      BY <1>3 DEF StoreAdmin, Unsent
    <2>2. PICK i : i = Latest(Active)
      OBVIOUS
    <2>3. i = NoId \/ i \in RowIds
      BY <2>2, LatestIs
    <2>4. CASE rows' = rows /\ Goto(r, "done")
      <3>1. \A q \in Requests : CalmMail(q)
        BY <1>1, <2>4, GotoMail DEF InMail, Unsent
      <3> QED
        BY <1>1, <2>4, <3>1, BesideStands
    <2>5. CASE ~(rows' = rows /\ Goto(r, "done"))
      <3> DEFINE row == [Fresh(r, "sending") EXCEPT !.user = TRUE]
      <3>1. Written(row, r)
        BY WrittenIs
      <3>2. row.user
        BY DEF Fresh, NoRow
      <3>3. /\ i # NoId => rows[i].status = "pending"
            /\ \/ /\ i # NoId /\ ~ResendLocked(rows[i], req[r].at)
                  /\ rows' = [rows EXCEPT ![i] = row] /\ Store(r, i, rows[i], TRUE)
               \/ /\ i # NoId => Expired(rows[i], req[r].at)
                  /\ \E k : /\ k = NextId
                            /\ rows' = [(IF i = NoId THEN rows ELSE Close(i, "expired"))
                                          EXCEPT ![k] = row]
                            /\ Store(r, k, NoRow, TRUE)
        BY <1>3, <2>2, <2>5 DEF StoreAdmin
      <3> HIDE DEF row
      <3> QED
        BY <1>1, <2>1, <2>3, <3>1, <3>2, <3>3, WriteStands
    <2> QED
      BY <2>4, <2>5
  <1>4. CASE MarkAdmin(r)
    <2>1. req[r].pc = "mailed" /\ Goto(r, "done") /\ Sends(r)
      BY <1>4 DEF MarkAdmin, Inv, OneLive, InMail
    <2>2. PICK k \in RowIds : k = req[r].id /\ rows[k].status = "sending"
      BY <2>1 DEF Sends
    <2>3. rows' = [rows EXCEPT ![k].status = "pending"]
      BY <1>4, <2>2 DEF MarkAdmin, SetStatus
    <2>4. /\ rows'[k] = [rows[k] EXCEPT !.status = "pending"] /\ rows[k] \in Row
          /\ \A j \in RowIds : j # k => rows'[j] = rows[j]
      BY <2>2, <2>3, WasTyped
    <2>5. Aging(k)
      BY <2>2, <2>4 DEF Aging, Row, Active
    <2>6. \A j \in RowIds : rows'[j].status \in Active => Aging(j)
      BY <2>4, <2>5 DEF Aging
    <2>7. \A q \in Requests : CalmMail(q)
      BY <1>1, <2>1, GotoMail DEF InMail, Unsent
    <2>8. AllStand
      BY <2>2, <2>4, UntouchedStands DEF Standing
    <2> QED
      BY <1>1, <2>6, <2>7, <2>8, CalmDates
  <1>5. CASE CleanupAdmin(r)
    <2>1. req[r].pc = "refused" /\ Goto(r, "done") /\ Sends(r)
      BY <1>5 DEF CleanupAdmin, Inv, OneLive, InMail
    <2>2. PICK k : k = req[r].id
      OBVIOUS
    <2>3. rows[k].code = r
      BY <2>1, <2>2 DEF Sends
    <2>4. (Kept(r) /\ rows' = [rows EXCEPT ![k] = req[r].previous]) \/ rows' = Delete(k)
      BY <1>5, <2>2 DEF CleanupAdmin, Kept
    <2> QED
      BY <1>1, <2>1, <2>2, <2>3, <2>4, CleanStands
  <1> QED
    BY <1>2, <1>3, <1>4, <1>5

LEMMA AdminEntriesStand ==
    ASSUME Inv, Dates, flow = "admin", NEW at, NEW entry,
           VerifyAdmin(entry, at) \/ WrongAdmin(entry, at)
    PROVE  Dates' /\ AllStand
  <1>1. CASE VerifyAdmin(entry, at)
    <2>1. PICK i : i = Latest({"pending"})
      OBVIOUS
    <2>2. UNCHANGED <<flow, delivered, req>> /\ i # NoId /\ rows' = Close(i, "verified")
      BY <1>1, <2>1 DEF VerifyAdmin, adminRest
    <2>3. i \in RowIds
      BY <2>1, <2>2, FoundStored
    <2> QED
      BY <2>2, <2>3, OpenedStands
  <1>2. CASE WrongAdmin(entry, at)
    <2>1. UNCHANGED <<flow, rows, req, delivered>>
      BY <1>2 DEF WrongAdmin, table
    <2> QED
      BY <2>1, SameMail, BesideStands
  <1> QED
    BY <1>1, <1>2

LEMMA ResetStays == flow = "reset" /\ [Next]_vars => flow' = flow
  BY DEF Next, ResetNext, Begin, MailAccepted, MailRefused, Lose, BeginFinish, Tick, Deactivate,
         StoreReset, CleanupReset, ConfirmReset, SetResetPassword, CreateUser, resetRest, vars

LEMMA NextStands ==
    Inv /\ Waits /\ Dates /\ [Next]_vars => Dates' /\ (flow # "reset" => AllStand)
  <1> SUFFICES ASSUME Inv, Waits, Dates, [Next]_vars
               PROVE  Dates' /\ (flow # "reset" => AllStand)
    OBVIOUS
  <1>1. CASE flow = "reset"
    <2>1. flow' = flow
      BY <1>1, ResetStays
    <2> QED
      BY <1>1, <2>1 DEF Dates
  <1>2. CASE flow # "reset"
    <2>1. CASE \E r \in Requests : Begin(r) \/ MailAccepted(r) \/ MailRefused(r) \/ Lose(r)
      BY <1>2, <2>1, MailsStand
    <2>2. CASE \E f \in Finishers, t \in 1 .. tokens : BeginFinish(f, t)
      BY <1>2, <2>2, OutsideStands
    <2>3. CASE Tick \/ Deactivate \/ UNCHANGED vars
      BY <1>2, <2>3, OutsideStands
    <2>4. CASE flow = "login" /\ LoginNext
      BY <1>2, <2>4, OutsideStands, LoginStands, LoginEntriesStand DEF LoginNext
    <2>5. CASE flow = "setup" /\ SetupNext
      BY <1>2, <2>5, OutsideStands, FreshStands, SetupStands, SetupEntriesStand DEF SetupNext
    <2>6. CASE flow = "admin" /\ AdminNext
      BY <1>2, <2>6, AdminStands, AdminEntriesStand DEF AdminNext
    <2> QED
      BY <1>2, <2>1, <2>2, <2>3, <2>4, <2>5, <2>6 DEF Next
  <1> QED
    BY <1>1, <1>2

\* Whoever got a code can enter it: while it is the pending one, no step of a
\* request, a clean-up, a finisher or an operator takes it away, except by a
\* younger code, by its age, by the last wrong guess or for want of a user.
THEOREM DeliveredCodeStays == Spec => DeliveredCodeStands
  <1>1. Init => Inv /\ Waits /\ Dates
    <2>1. Init => Inv
      BY InitInv
    <2>2. Init => Waits
      BY InitWaits
    <2>3. Init => Dates
      <3> SUFFICES ASSUME Init PROVE Dates
        OBVIOUS
      <3>1. \A i \in RowIds : rows[i].status = "none"
        BY NoRowTyped DEF Init
      <3>2. delivered = {} /\ \A r \in Requests : ~Kept(r)
        BY DEF Init, Idle, Kept
      <3> QED
        BY <3>1, <3>2 DEF Dates, Active
    <2> QED
      BY <2>1, <2>2, <2>3
  <1>2. Inv /\ Waits /\ Dates /\ [Next]_vars => (Inv /\ Waits /\ Dates)'
    BY NextInv, NextWaits, NextStands
  <1>3. Inv /\ Waits /\ Dates /\ [Next]_vars =>
          [\A r \in Requests : flow # "reset" /\ Enterable(r) =>
            LET i == Latest({"pending"})
                row == rows'[i]
            IN  \/ row.code = r /\ row.status \in {"pending", "verified", "consumed"}
                \/ row.code = r /\ row.status = "expired" /\ rows[i].expires <= now
                \/ row.code = r /\ row.status = "invalidated"
                     /\ (guesses'[r] = MaxAttempts \/ account # "active")
                \/ row.code # r /\ row.expires > rows[i].expires]_vars
    <2> SUFFICES ASSUME Inv, Waits, Dates, [Next]_vars, NEW r \in Requests, flow # "reset", Enterable(r),
                        NEW i, i = Latest({"pending"})
                 PROVE  \/ rows'[i].code = r /\ rows'[i].status \in {"pending", "verified", "consumed"}
                        \/ rows'[i].code = r /\ rows'[i].status = "expired" /\ rows[i].expires <= now
                        \/ rows'[i].code = r /\ rows'[i].status = "invalidated"
                             /\ (guesses'[r] = MaxAttempts \/ account # "active")
                        \/ rows'[i].code # r /\ rows'[i].expires > rows[i].expires
      OBVIOUS
    <2>1. Standing(r, i) /\ i \in RowIds
      <3>1. i \in RowIds /\ rows[i].code = r /\ r \in delivered /\ req[r].pc = "done"
        BY DEF Enterable
      <3>2. rows[i].status = "pending"
        BY <3>1, FoundStored, IdsFinite
      <3> QED
        BY <3>1, <3>2 DEF Standing
    <2> QED
      BY <2>1, NextStands DEF AllStand, Stands
  <1> QED
    BY <1>1, <1>2, <1>3, PTL DEF Spec, DeliveredCodeStands
=============================================================================
