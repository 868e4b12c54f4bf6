------------------------- MODULE PushSubscriptions -------------------------
(***************************************************************************)
(* Whose browsers are told of a message by web push.  A browser has one    *)
(* subscription at a time; whoever uses the browser saves it as their own, *)
(* in three statements without a transaction, and the row of whoever used  *)
(* it before has to go.  One message is delivered by as many runs as the   *)
(* webhook has accepted deliveries of it, each going through the rows it   *)
(* has read one by one.  Requests may stop between any two statements, and *)
(* a browser may renew or drop its subscription at any time.               *)
(***************************************************************************)
EXTENDS Naturals, FiniteSets

CONSTANTS
    People,        \* portal users
    Devices,
    Deliveries,    \* accepted webhook deliveries of the one message
    NoOne,
    MaxEndpoints,  \* bound: subscriptions the push service ever makes
    MaxRequests    \* bound: requests

ASSUME PushAssumption == MaxEndpoints \in Nat /\ MaxRequests \in Nat

VARIABLES
    browser,       \* the push service: the subscription of a device
    made,          \* the push service: subscriptions made so far
    rows,          \* portal_push_subscriptions, unique in user and endpoint
    request,       \* the request of a user on a device that the server handles
    delivery,      \* a run of deliverMessageCreated
    attempted,     \* portal_push_deliveries of the message: user, endpoint
    pushes,        \* history: times the message was sent, by user and endpoint
    requests,
    torn           \* history: endpoints with a save that stopped half-way

pushVars == <<browser, made, rows, request, delivery, attempted, pushes, requests, torn>>

Endpoints == 1 .. MaxEndpoints
NoEndpoint == 0
NoRequest == [pc |-> "idle", endpoint |-> NoEndpoint]
NoDelivery == [pc |-> "new", todo |-> {}, user |-> NoOne, found |-> {}, endpoint |-> NoEndpoint]

PushInit ==
    /\ browser = [d \in Devices |-> NoEndpoint]
    /\ made = 0
    /\ rows = [r \in People \X Endpoints |-> [status |-> "none", device |-> NoOne]]
    /\ request = [r \in People \X Devices |-> NoRequest]
    /\ delivery = [x \in Deliveries |-> NoDelivery]
    /\ attempted = {}
    /\ pushes = [r \in People \X Endpoints |-> 0]
    /\ requests = 0
    /\ torn = {}

Owners(e) == {u \in People : rows[<<u, e>>].status = "active"}
-----------------------------------------------------------------------------
(* The browser.                                                            *)

\* of whoever is signed in on the device: a sign-out leaves the subscription as it is
Ask(u, d, pc, e) ==
    /\ request[<<u, d>>] = NoRequest
    /\ requests < MaxRequests
    /\ requests' = requests + 1
    /\ request' = [request EXCEPT ![<<u, d>>] = [pc |-> pc, endpoint |-> e]]

\* opening the settings saves the subscription the browser has again
LoadSnapshot(u, d) ==
    /\ browser[d] # NoEndpoint
    /\ Ask(u, d, "device", browser[d])
    /\ UNCHANGED <<browser, made, rows, delivery, attempted, pushes, torn>>

\* there is none yet, or it was made for another key of the server
SubscribeBrowser(u, d) ==
    /\ made < MaxEndpoints
    /\ made' = made + 1
    /\ browser' = [browser EXCEPT ![d] = made']
    /\ Ask(u, d, "device", made')
    /\ UNCHANGED <<rows, delivery, attempted, pushes, torn>>

\* the browser may refuse to let the subscription go; its row is disabled all the same
UnsubscribeBrowser(u, d) ==
    /\ browser[d] # NoEndpoint
    /\ \E e \in {browser[d], NoEndpoint} : browser' = [browser EXCEPT ![d] = e]
    /\ Ask(u, d, "disable", browser[d])
    /\ UNCHANGED <<made, rows, delivery, attempted, pushes, torn>>
-----------------------------------------------------------------------------
(* The requests, one statement at a time.                                  *)

Disabled(mine) ==
    [r \in People \X Endpoints |->
        IF r \in mine /\ rows[r].status = "active"
        THEN [rows[r] EXCEPT !.status = "disabled"] ELSE rows[r]]

Reply(u, d) == request' = [request EXCEPT ![<<u, d>>] = NoRequest]

DisableOthersForDevice(u, d) ==
    /\ request[<<u, d>>].pc = "device"
    /\ rows' = Disabled({<<u, e>> : e \in {f \in Endpoints \ {request[<<u, d>>].endpoint} :
                                                rows[<<u, f>>].device = d}})
    /\ request' = [request EXCEPT ![<<u, d>>].pc = "upsert"]
    /\ UNCHANGED <<browser, made, delivery, attempted, pushes, requests, torn>>

\* mutant: the rows of the others are left as they are
UpsertOnly(u, d) ==
    /\ request[<<u, d>>].pc = "upsert"
    /\ rows' = [rows EXCEPT ![<<u, request[<<u, d>>].endpoint>>] = [status |-> "active", device |-> d]]
    /\ Reply(u, d)
    /\ UNCHANGED <<browser, made, delivery, attempted, pushes, requests, torn>>

Upsert(u, d) ==
    /\ request[<<u, d>>].pc = "upsert"
    /\ rows' = [rows EXCEPT ![<<u, request[<<u, d>>].endpoint>>] = [status |-> "active", device |-> d]]
    /\ request' = [request EXCEPT ![<<u, d>>].pc = "endpoint"]
    /\ UNCHANGED <<browser, made, delivery, attempted, pushes, requests, torn>>

DisableOthersForEndpoint(u, d) ==
    LET mine == request[<<u, d>>].endpoint
    IN  /\ request[<<u, d>>].pc = "endpoint"
        /\ rows' = Disabled({<<v, mine>> : v \in People \ {u}})
        /\ torn' = torn \ {mine}
        /\ Reply(u, d)
        /\ UNCHANGED <<browser, made, delivery, attempted, pushes, requests>>

Disable(u, d) ==
    LET e == request[<<u, d>>].endpoint
    IN  /\ request[<<u, d>>].pc = "disable"
        /\ rows' = IF rows[<<u, e>>].status = "none" THEN rows
                   ELSE [rows EXCEPT ![<<u, e>>].status = "disabled"]
        /\ Reply(u, d)
        /\ UNCHANGED <<browser, made, delivery, attempted, pushes, requests, torn>>

RequestFails(u, d) ==
    /\ request[<<u, d>>].pc # "idle"
    /\ torn' = IF request[<<u, d>>].pc = "endpoint" THEN torn \cup {request[<<u, d>>].endpoint}
                ELSE torn
    /\ Reply(u, d)
    /\ UNCHANGED <<browser, made, rows, delivery, attempted, pushes, requests>>
-----------------------------------------------------------------------------
(* deliverMessageCreated.                                                  *)

Step(x, next) ==
    /\ delivery' = [delivery EXCEPT ![x] = next]
    /\ UNCHANGED <<browser, made, request, requests, torn>>

Onward(x) == [delivery[x] EXCEPT !.pc = "next", !.endpoint = NoEndpoint]

\* the recipients: members who could be looked up, are not the author, have the
\* notifications switched on and see the thread
ResolveRecipients(x) ==
    /\ delivery[x].pc = "new"
    /\ \E us \in SUBSET People : Step(x, [delivery[x] EXCEPT !.pc = "next", !.todo = us])
    /\ UNCHANGED <<rows, attempted, pushes>>

NextRecipient(x) ==
    /\ delivery[x].pc = "next" /\ delivery[x].found = {}
    /\ \E u \in delivery[x].todo :
           Step(x, [delivery[x] EXCEPT !.todo = @ \ {u}, !.user = u,
                                       !.found = {e \in Endpoints : u \in Owners(e)}])
    /\ UNCHANGED <<rows, attempted, pushes>>

\* mutant: a record that is there already is no reason to stop
RecordAttemptAgain(x) ==
    /\ delivery[x].pc = "next"
    /\ \E e \in delivery[x].found :
           /\ attempted' = attempted \cup {<<delivery[x].user, e>>}
           /\ Step(x, [delivery[x] EXCEPT !.found = @ \ {e}, !.pc = "send", !.endpoint = e])
    /\ UNCHANGED <<rows, pushes>>

\* the record of a try is unique: who finds it there leaves the subscription alone
RecordAttempt(x) ==
    /\ delivery[x].pc = "next"
    /\ \E e \in delivery[x].found :
           LET key == <<delivery[x].user, e>>
               later == [delivery[x] EXCEPT !.found = @ \ {e}]
           IN  /\ attempted' = attempted \cup {key}
               /\ Step(x, IF key \in attempted THEN later
                          ELSE [later EXCEPT !.pc = "send", !.endpoint = e])
    /\ UNCHANGED <<rows, pushes>>

\* the push service has the subscription, or not any more, or fails
Send(x) ==
    LET e == delivery[x].endpoint
        live == \E d \in Devices : browser[d] = e
    IN  /\ delivery[x].pc = "send"
        /\ pushes' = [pushes EXCEPT ![<<delivery[x].user, e>>] = @ + 1]
        /\ \/ Step(x, Onward(x))
           \/ ~live /\ Step(x, [delivery[x] EXCEPT !.pc = "expire"])
        /\ UNCHANGED <<rows, attempted>>

MarkExpired(x) ==
    /\ delivery[x].pc = "expire"
    /\ rows' = [rows EXCEPT ![<<delivery[x].user, delivery[x].endpoint>>].status = "expired"]
    /\ Step(x, Onward(x))
    /\ UNCHANGED <<attempted, pushes>>

DeliveryStops(x) ==
    /\ delivery[x].pc \notin {"new", "stopped"}
    /\ Step(x, [NoDelivery EXCEPT !.pc = "stopped"])
    /\ UNCHANGED <<rows, attempted, pushes>>

PushNext ==
    \/ \E u \in People, d \in Devices :
          \/ LoadSnapshot(u, d) \/ SubscribeBrowser(u, d) \/ UnsubscribeBrowser(u, d)
          \/ DisableOthersForDevice(u, d) \/ Upsert(u, d) \/ DisableOthersForEndpoint(u, d)
          \/ Disable(u, d) \/ RequestFails(u, d)
    \/ \E x \in Deliveries :
          \/ ResolveRecipients(x) \/ NextRecipient(x) \/ RecordAttempt(x) \/ Send(x)
          \/ MarkExpired(x) \/ DeliveryStops(x)

PushSpec == PushInit /\ [][PushNext]_pushVars
-----------------------------------------------------------------------------
(* What the saves and the deliveries that meet keep.                       *)

\* One browser is told for one user only: when nobody's save of a subscription is
\* under way or was cut off, it is active for the last who saved it, if for anyone
\* (the order of the statements of saveSubscription).
EndpointHasOneOwner ==
    \A e \in Endpoints \ torn :
        (\A u \in People, d \in Devices : request[<<u, d>>] # [pc |-> "endpoint", endpoint |-> e])
            => Cardinality(Owners(e)) <= 1

\* However often the webhook accepts a message, and wherever a run of its delivery
\* stops, no subscription is sent the message twice (recordPushDeliveryAttempt).
PushedOnce == \A u \in People, e \in Endpoints : pushes[<<u, e>>] <= 1
=============================================================================
