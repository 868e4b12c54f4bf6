-------------------------- MODULE TenantLifecycle --------------------------
(***************************************************************************)
(* One customer's tenant, from its first provisioning to its end.  The     *)
(* operators' commands (provision, deprovision, reconcile) are programs of *)
(* many steps over two rows, the run and the tenant, and over Chatwoot,    *)
(* which has its own accounts.  Nothing locks them out: two commands may   *)
(* meet, each call may fail before or after it is executed, a command may  *)
(* be killed anywhere, and an account may be deleted in Chatwoot.          *)
(***************************************************************************)
EXTENDS Naturals, FiniteSets

CONSTANTS
    Operators,
    MaxAccounts,  \* bound: accounts, and inboxes, Chatwoot ever creates for the customer
    MaxCommands   \* bound: commands

VARIABLES
    run,          \* the row of tenant_provisioning_runs
    tenant,       \* the row of portal_tenants
    accounts,     \* Chatwoot: state, members and portal inboxes of each account
    inboxes,      \* Chatwoot: how many were created, which are locked to one conversation
    job,          \* what each operator's command is doing
    commands,
    condemned     \* history: accounts a deprovisioning has asked to delete

tenantVars == <<run, tenant, accounts, inboxes, job, commands, condemned>>

Kinds == <<"client_admin", "runtime", "admin_verification">>
AccountIds == 1 .. MaxAccounts
NoId == 0
Idle == [pc |-> "idle", account |-> NoId, inbox |-> NoId, kind |-> 1, named |-> FALSE]

TenantInit ==
    /\ run = [status |-> "absent", account |-> NoId, inbox |-> NoId]
    /\ tenant = [status |-> "absent", account |-> NoId, inbox |-> NoId, named |-> FALSE]
    /\ accounts = [a \in AccountIds |-> [state |-> "unborn", members |-> {}, inboxes |-> {}]]
    /\ inboxes = [made |-> 0, locked |-> {}]
    /\ job = [o \in Operators |-> Idle]
    /\ commands = 0
    /\ condemned = {}

Alive(a) == a \in AccountIds /\ accounts[a].state = "alive"
Goto(o, pc) == job' = [job EXCEPT ![o].pc = pc]
\* markStatus: whatever the row says, also over a run that was completed
Mark == run' = [run EXCEPT !.status = "working"]
Least(S) == CHOOSE x \in S : \A y \in S : x <= y

\* mutant: the last id wins
StorableAny(old, new) == new # NoId

\* storeImmutableExternalId, one statement: the id is new or the same
Storable(old, new) == old \in {NoId, new}
-----------------------------------------------------------------------------
(* provisionTenant.                                                        *)

Command(o) == job[o].pc = "idle" /\ commands < MaxCommands /\ commands' = commands + 1

\* an active tenant exists already, a suspended or archived one is not resumed
Provision(o) ==
    /\ Command(o)
    /\ tenant.status \in {"absent", "provisioning"}
    /\ Goto(o, "run")
    /\ UNCHANGED <<run, tenant, accounts, inboxes, condemned>>

CreateOrResumeRun(o) ==
    /\ job[o].pc = "run"
    /\ run' = IF run.status = "absent" THEN [run EXCEPT !.status = "pending"] ELSE run
    /\ Goto(o, "account")
    /\ UNCHANGED <<tenant, accounts, inboxes>>

\* the account of the run, or one that carries the slug, or a new one
ResolveAccount(o) ==
    LET managed == {a \in AccountIds : Alive(a)} IN
    /\ job[o].pc = "account"
    /\ Mark
    /\ \/ /\ Alive(run.account)
          /\ job' = [job EXCEPT ![o].pc = "member", ![o].account = run.account]
       \/ /\ run.account = NoId /\ managed # {}
          /\ job' = [job EXCEPT ![o].pc = "storeAccount", ![o].account = Least(managed)]
       \/ /\ run.account = NoId /\ managed = {}
          /\ Goto(o, "createAccount")
    /\ UNCHANGED <<tenant, accounts, inboxes>>

CreateAccount(o) ==
    /\ job[o].pc = "createAccount"
    /\ \E a \in AccountIds :
           /\ accounts[a].state = "unborn"
           /\ \A b \in AccountIds : b < a => accounts[b].state # "unborn"
           /\ accounts' = [accounts EXCEPT ![a].state = "alive"]
           /\ job' = [job EXCEPT ![o].pc = "storeAccount", ![o].account = a]
    /\ UNCHANGED <<run, tenant, inboxes>>

StoreAccount(o) ==
    /\ job[o].pc = "storeAccount"
    /\ IF Storable(run.account, job[o].account)
       THEN /\ run' = [run EXCEPT !.account = job[o].account]
            /\ Goto(o, "member")
       ELSE Goto(o, "failed") /\ UNCHANGED run
    /\ UNCHANGED <<tenant, accounts, inboxes>>

\* the three users, one after the other: creating a user finds the one with the
\* same e-mail, so its id is its kind; all three are made members each time
AddAccountUser(o) ==
    /\ job[o].pc = "member" /\ Alive(job[o].account)
    /\ Mark
    /\ accounts' = [accounts EXCEPT ![job[o].account].members = @ \cup {Kinds[job[o].kind]}]
    /\ job' = IF job[o].kind < 3 THEN [job EXCEPT ![o].kind = @ + 1]
              ELSE [job EXCEPT ![o].pc = "inbox"]
    /\ UNCHANGED <<tenant, inboxes>>

ResolveInbox(o) ==
    LET a == job[o].account
        named == accounts[a].inboxes
    IN  /\ job[o].pc = "inbox"
        /\ Mark
        /\ \/ /\ run.inbox # NoId
              /\ job' = [job EXCEPT ![o].pc = "webhook", ![o].inbox = run.inbox]
           \/ /\ run.inbox = NoId /\ Alive(a) /\ named # {}
              /\ job' = [job EXCEPT ![o].pc = "storeInbox", ![o].inbox = Least(named)]
           \/ /\ run.inbox = NoId /\ Alive(a) /\ named = {}
              /\ Goto(o, "createInbox")
        /\ UNCHANGED <<tenant, accounts, inboxes>>

CreateInbox(o) ==
    LET a == job[o].account
        i == inboxes.made + 1
    IN  /\ job[o].pc = "createInbox" /\ Alive(a) /\ i <= MaxAccounts
        /\ inboxes' = [made |-> i, locked |-> inboxes.locked \cup {i}]
        /\ accounts' = [accounts EXCEPT ![a].inboxes = @ \cup {i}]
        /\ job' = [job EXCEPT ![o].pc = "storeInbox", ![o].inbox = i]
        /\ UNCHANGED <<run, tenant>>

StoreInbox(o) ==
    /\ job[o].pc = "storeInbox"
    /\ IF Storable(run.inbox, job[o].inbox)
       THEN /\ run' = [run EXCEPT !.inbox = job[o].inbox]
            /\ Goto(o, "webhook")
       ELSE Goto(o, "failed") /\ UNCHANGED run
    /\ UNCHANGED <<tenant, accounts, inboxes>>

\* Chatwoot may answer without the identifier of the inbox
ConfigureWebhook(o) ==
    /\ job[o].pc = "webhook"
    /\ Alive(job[o].account) /\ job[o].inbox \in accounts[job[o].account].inboxes
    /\ \E named \in BOOLEAN :
           job' = [job EXCEPT ![o].pc = "upsert", ![o].named = named]
    /\ UNCHANGED <<run, tenant, accounts, inboxes>>

\* the row is written whatever its status has become meanwhile
UpsertTenant(o) ==
    /\ job[o].pc = "upsert"
    /\ Mark
    /\ tenant' = [status |-> "provisioning", account |-> job[o].account,
                  inbox |-> job[o].inbox, named |-> FALSE]
    /\ Goto(o, IF job[o].named THEN "name" ELSE "verify")
    /\ UNCHANGED <<accounts, inboxes>>

UpdateInboxIdentifier(o) ==
    /\ job[o].pc = "name"
    /\ tenant' = [tenant EXCEPT !.named = TRUE]
    /\ Goto(o, "verify")
    /\ UNCHANGED <<run, accounts, inboxes>>

EnsureRouting(o) ==
    /\ job[o].pc = "verify"
    /\ Mark
    /\ Alive(job[o].account) /\ job[o].inbox \in accounts[job[o].account].inboxes
    /\ inboxes' = [inboxes EXCEPT !.locked = @ \cup {job[o].inbox}]
    /\ Goto(o, "activate")
    /\ UNCHANGED <<tenant, accounts>>

ActivateTenant(o) ==
    /\ job[o].pc = "activate"
    /\ tenant' = [tenant EXCEPT !.status = "active"]
    /\ Goto(o, "complete")
    /\ UNCHANGED <<run, accounts, inboxes>>

MarkCompleted(o) ==
    /\ job[o].pc = "complete"
    /\ run' = [run EXCEPT !.status = "completed"]
    /\ job' = [job EXCEPT ![o] = Idle]
    /\ UNCHANGED <<tenant, accounts, inboxes>>

MarkFailed(o) ==
    /\ job[o].pc = "failed"
    /\ run' = [run EXCEPT !.status = "failed"]
    /\ job' = [job EXCEPT ![o] = Idle]
    /\ UNCHANGED <<tenant, accounts, inboxes>>

Working == {"account", "storeAccount", "createAccount", "member", "inbox",
            "storeInbox", "createInbox", "webhook", "upsert", "name", "verify",
            "activate", "complete"}

\* a call fails, what it needs is not there any more, or the answer to the call
\* before is lost, so that its step was done and the command does not know
StepFails(o) ==
    /\ job[o].pc \in Working
    /\ Goto(o, "failed")
    /\ UNCHANGED <<run, tenant, accounts, inboxes>>

ProvisionStep(o) ==
    /\ \/ CreateOrResumeRun(o) \/ ResolveAccount(o) \/ CreateAccount(o) \/ StoreAccount(o)
       \/ AddAccountUser(o) \/ ResolveInbox(o) \/ CreateInbox(o) \/ StoreInbox(o)
       \/ ConfigureWebhook(o) \/ UpsertTenant(o) \/ UpdateInboxIdentifier(o)
       \/ EnsureRouting(o) \/ ActivateTenant(o) \/ MarkCompleted(o) \/ MarkFailed(o) \/ StepFails(o)
    /\ UNCHANGED <<commands, condemned>>
-----------------------------------------------------------------------------
(* deprovisionTenant: whatever the status of the row is.                   *)

SetStatus(status) == tenant' = [tenant EXCEPT !.status = status]

Deprovision(o) ==
    /\ Command(o)
    /\ tenant.status # "absent"
    /\ \E pc \in {"suspend", "archive"} :
           job' = [job EXCEPT ![o].pc = pc, ![o].account = tenant.account]
    /\ UNCHANGED <<run, tenant, accounts, inboxes, condemned>>

Suspend(o) ==
    /\ job[o].pc = "suspend"
    /\ SetStatus("suspended")
    /\ condemned' = condemned \cup {job[o].account}
    /\ Goto(o, "delete")
    /\ UNCHANGED <<run, accounts, inboxes, commands>>

\* Chatwoot deletes the account later (Vanish), if the call reached it
DeleteAccount(o) ==
    /\ job[o].pc = "delete"
    /\ Goto(o, "archive")
    /\ UNCHANGED <<run, tenant, accounts, inboxes, commands, condemned>>

Archive(o) ==
    /\ job[o].pc = "archive"
    /\ SetStatus("archived")
    /\ job' = [job EXCEPT ![o] = Idle]
    /\ UNCHANGED <<run, accounts, inboxes, commands, condemned>>
-----------------------------------------------------------------------------
(* reconcileTenantChatwootAccounts.                                        *)

\* listCompletedRuns
Reconcile(o) ==
    /\ Command(o)
    /\ run.status = "completed"
    /\ Goto(o, "listTenants")
    /\ UNCHANGED <<run, tenant, accounts, inboxes, condemned>>

ListTenants(o) ==
    /\ job[o].pc = "listTenants"
    /\ job' = IF tenant.status = "active"
              THEN [job EXCEPT ![o].pc = "probe", ![o].account = tenant.account]
              ELSE [job EXCEPT ![o] = Idle]
    /\ UNCHANGED <<run, tenant, accounts, inboxes, commands, condemned>>

\* what the probe of the account answers: it is there, it is not (404), the
\* platform token is refused (401), or another error, which ends the command
Answers(a) == {"unauthorized", "error"} \cup {IF Alive(a) THEN "reachable" ELSE "missing"}
\* mutant: a refused platform token counts as a missing account
MissingOrRefused(answer) == answer \in {"missing", "unauthorized"}
Missing(answer) == answer = "missing"

Probe(o) ==
    /\ job[o].pc = "probe"
    /\ \E answer \in Answers(job[o].account), dryRun \in BOOLEAN :
           job' = IF Missing(answer) /\ ~dryRun THEN [job EXCEPT ![o].pc = "suspendMissing"]
                  ELSE [job EXCEPT ![o] = Idle]
    /\ UNCHANGED <<run, tenant, accounts, inboxes, commands, condemned>>

SuspendMissing(o) ==
    /\ job[o].pc = "suspendMissing"
    /\ SetStatus("suspended")
    /\ job' = [job EXCEPT ![o] = Idle]
    /\ UNCHANGED <<run, accounts, inboxes, commands, condemned>>
-----------------------------------------------------------------------------
(* A command is killed, or a call of a deprovisioning fails; an account is *)
(* deleted in Chatwoot.                                                    *)

KillCommand(o) ==
    /\ job[o].pc # "idle"
    /\ job' = [job EXCEPT ![o] = Idle]
    /\ UNCHANGED <<run, tenant, accounts, inboxes, commands, condemned>>

Vanish(a) ==
    /\ Alive(a)
    /\ accounts' = [accounts EXCEPT ![a].state = "gone"]
    /\ UNCHANGED <<run, tenant, inboxes, job, commands, condemned>>

TenantNext ==
    \/ \E o \in Operators :
          \/ Provision(o) \/ ProvisionStep(o)
          \/ Deprovision(o) \/ Suspend(o) \/ DeleteAccount(o) \/ Archive(o)
          \/ Reconcile(o) \/ ListTenants(o) \/ Probe(o) \/ SuspendMissing(o)
          \/ KillCommand(o)
    \/ \E a \in AccountIds : Vanish(a)

TenantSpec == TenantInit /\ [][TenantNext]_tenantVars
-----------------------------------------------------------------------------
(* What two commands that meet, failed calls and killed commands never do. *)

\* The account and the inbox the portal serves a customer from are those the
\* run has recorded, however many accounts and inboxes lost answers and racing
\* commands have left in Chatwoot; and while the account exists, an active
\* tenant's three users are its members and its inbox keeps one conversation
\* per contact (storeImmutableExternalId, the order of provisionTenant).
ActiveIsWhole ==
    /\ tenant.status # "absent" =>
          /\ tenant.account = run.account /\ tenant.inbox = run.inbox
          /\ run.account # NoId /\ run.inbox # NoId
    /\ (tenant.status = "active" /\ Alive(tenant.account)) =>
          /\ accounts[tenant.account].members = {Kinds[k] : k \in 1 .. 3}
          /\ tenant.inbox \in accounts[tenant.account].inboxes \cap inboxes.locked

\* A customer is suspended only if the account is gone or an operator has asked
\* to delete it: no failed probe, and no probe of a snapshot another command has
\* overtaken, takes a portal offline whose account works (reconciliation.ts).
SuspensionJustified ==
    tenant.status = "suspended" => ~Alive(tenant.account) \/ tenant.account \in condemned
=============================================================================
