--------------------------- MODULE StagedRelease ---------------------------
(***************************************************************************)
(* The staged release of production: prepare builds a candidate next to    *)
(* the release that serves, activate cuts over to it and, when that goes   *)
(* wrong, goes back.  The helper script keeps its whole state on disk      *)
(* (.release-state, .releases, the root source tree, image tags), holds    *)
(* deploy.lock while it runs, and may be killed between any two commands.  *)
(*                                                                         *)
(* A pc value is one command that writes, and Then the one after it.  A    *)
(* command that fails may or may not have had its effect (mv, then fsync). *)
(***************************************************************************)
EXTENDS Integers, Sequences, FiniteSets

CONSTANTS
  Commits,        \* the releases there are
  First,          \* the one installed before the first staged release
  SchemaOf,       \* the migrations in the source of each
  None,           \* no commit, no record, no decision
  Mixed,          \* a source tree or containers of more than one release
  MaxOperations   \* bound: prepares and activations started

ASSUME ReleaseAssumption ==
  /\ First \in Commits
  /\ SchemaOf \in [Commits -> Nat]
  /\ None \notin Commits
  /\ Mixed \notin Commits \cup {None}
  /\ MaxOperations \in Nat

VARIABLES
  releases,   \* .releases: the directories
  observed,   \* their manifests: the active release then, itself if imported
  tags,       \* which of the three image tags of each release exist
  current, previous, adoption, prepared,   \* the pointers of .release-state
  decisions,  \* decisions/: the migration policy approved for each candidate
  journal,    \* transaction
  history,    \* history/: the outcomes in the order of their epochs
  marker,     \* source_commit of DEPLOY_SOURCE.txt
  root,       \* the source tree of the root
  running,    \* the release of the containers
  expired,    \* the prepared candidate is older than 24 hours
  pc, op,     \* the operation that holds deploy.lock, and its variables
  owned,      \* what that prepare has created and would remove on an error
  started     \* operations started so far

pointers == <<current, previous, adoption, prepared>>
evidence == <<releases, observed, tags>>
site == <<marker, root, running>>
lock == <<op, owned, started>>
vars == <<evidence, pointers, decisions, journal, history, site, expired, pc, lock>>

Pointer == Commits \cup {None}
Policies == {"automatic", "backward-compatible", "forward-only"}
Stages == {"compose_wait", "tenant_smoke", "service_state", "root_sync",
           "marker_publish"}
Statuses == {"succeeded", "rolled back", "rollback failed", "forward only"}
NoOp == [commit |-> None, policy |-> "automatic", from |-> None, obsolete |-> None,
         first |-> FALSE, stage |-> "compose_wait"]

\* remote_update_transaction: the phase each command of the script writes.
PhaseAt == [healthy |-> "candidate_healthy", sync_started |-> "root_sync_started",
            sync_completed |-> "root_sync_completed", published |-> "markers_published",
            back_recovered |-> "rollback_recovered",
            clean_started |-> "rollback_cleanup_started",
            clean_tagless |-> "candidate_tags_removed",
            clean_removing |-> "candidate_artifact_removal_started",
            clean_removed |-> "candidate_artifacts_removed",
            clean_pointerless |-> "prepared_removed"]

\* The order of the commands.
Then == [retry_tags |-> "retry_decision", retry_decision |-> "retry_dir",
         retry_dir |-> "retry_prepared", retry_prepared |-> "expiry",
         expired_tags |-> "expired_dir", expired_dir |-> "expired_prepared",
         expired_prepared |-> "expired_decision", expired_decision |-> "import",
         adopt_extract |-> "adopt_tag", adopt_tag |-> "adopt_manifest",
         adopt_manifest |-> "adopt_pointer", adopt_pointer |-> "adopted",
         adopted |-> "extract", extract |-> "build", build |-> "built",
         built |-> "manifest", manifest |-> "pointer", pointer |-> "publish",
         publish |-> "idle",
         decide |-> "open", open |-> "start", start |-> "smoke", smoke |-> "healthy",
         healthy |-> "sync_started", sync_started |-> "sync",
         sync |-> "sync_completed", sync_completed |-> "marker",
         marker |-> "previous", previous |-> "current", current |-> "unadopt",
         unadopt |-> "published", published |-> "outcome",
         outcome |-> "done_prepared", done_prepared |-> "done_journal",
         done_journal |-> "superseded_tags", superseded_tags |-> "superseded_dir",
         superseded_dir |-> "idle",
         back_start |-> "back_smoke", back_smoke |-> "back_sync",
         back_sync |-> "back_marker", back_marker |-> "back_previous",
         back_previous |-> "back_current", back_current |-> "back_unadopt",
         back_unadopt |-> "back_outcome", back_outcome |-> "back_recovered",
         back_recovered |-> "clean_started", clean_started |-> "clean_tags",
         clean_tags |-> "clean_tagless", clean_tagless |-> "clean_removing",
         clean_removing |-> "clean_dir", clean_dir |-> "clean_removed",
         clean_removed |-> "clean_prepared", clean_prepared |-> "clean_pointerless",
         clean_pointerless |-> "clean_journal", clean_journal |-> "idle"]

Preparing == {"retry_tags", "retry_decision", "retry_dir", "retry_prepared", "expiry",
              "expired_tags", "expired_dir", "expired_prepared", "expired_decision",
              "import", "adopt_extract", "adopt_tag", "adopt_manifest",
              "adopt_pointer", "adopted", "extract", "build", "built", "manifest",
              "pointer", "publish"}

\* remote_locked_activate: the stage handle_candidate_failure is called with.
StageAt == [start |-> "compose_wait", smoke |-> "tenant_smoke",
            healthy |-> "service_state", sync_started |-> "root_sync",
            sync |-> "root_sync", sync_completed |-> "root_sync",
            marker |-> "marker_publish", previous |-> "marker_publish",
            current |-> "marker_publish", unadopt |-> "marker_publish",
            published |-> "marker_publish", outcome |-> "marker_publish"]

Reversing == {"back_start", "back_smoke", "back_sync", "back_marker", "back_previous",
              "back_current", "back_unadopt"}

PCs == DOMAIN Then \cup {"idle", "expiry", "import", "abort", "failed", "lost"}

Operations == [commit : Pointer, policy : Policies, from : Pointer,
               obsolete : Pointer, first : BOOLEAN, stage : Stages]
Transactions == [candidate : Commits, previous : Commits, policy : Policies,
                 phase : {"cutover_started"} \cup {PhaseAt[p] : p \in DOMAIN PhaseAt},
                 at : 1 .. MaxOperations]
Outcomes == [candidate : Commits, previous : Commits, status : Statuses,
             at : 1 .. MaxOperations]

\* A transaction that is open is never taken for none.
ASSUME NoneAssumption == None \notin Transactions

TypeOK ==
  /\ releases \subseteq Commits
  /\ observed \in [Commits -> Pointer]
  /\ tags \in [Commits -> {"none", "some", "all"}]
  /\ {current, previous, adoption, prepared} \subseteq Pointer
  /\ decisions \in [Commits -> {None, "backward-compatible", "forward-only"}]
  /\ journal \in Transactions \cup {None}
  /\ history \in Seq(Outcomes)
  /\ marker \in Commits
  /\ {root, running} \subseteq Commits \cup {Mixed}
  /\ expired \in BOOLEAN
  /\ pc \in PCs
  /\ op \in Operations
  /\ owned \subseteq {"adoption dir", "adoption tags", "dir", "tags"}
  /\ started \in 0 .. MaxOperations

Init ==
  /\ releases = {}
  /\ observed = [c \in Commits |-> None]
  /\ tags = [c \in Commits |-> "none"]
  /\ current = None /\ previous = None /\ adoption = None /\ prepared = None
  /\ decisions = [c \in Commits |-> None]
  /\ journal = None
  /\ history = <<>>
  /\ marker = First /\ root = First /\ running = First
  /\ expired = FALSE
  /\ pc = "idle" /\ op = NoOp /\ owned = {} /\ started = 0

-----------------------------------------------------------------------------
(* What the operations look at before they start.                          *)

Pointed == {current, previous, adoption, prepared} \ {None}

\* remote_validate_state_layout
LayoutValid ==
  /\ releases = Pointed
  /\ Cardinality(releases) <= 3
  /\ IF current # None THEN adoption = None /\ current # previous
                       ELSE previous = None

\* remote_inspect_current
Active == IF current # None THEN current ELSE marker
Inspected ==
  /\ current # None => adoption = None /\ marker = current
  /\ current = None /\ adoption # None => adoption = marker /\ observed[adoption] = adoption

\* remote_load_release_evidence, the source snapshot and the image tags.
Intact(c) == c \in releases /\ observed[c] # None /\ tags[c] = "all"

\* remote_find_standalone_critical
Critical(c) == \E i \in 1 .. Len(history) :
  history[i].candidate = c /\ history[i].status \in {"rollback failed", "forward only"}

\* remote_block_on_critical_state
Blocked == journal # None \/ Critical(prepared)

\* What has to hold for an operation to start.  When it does not, the script
\* reports the evidence and changes nothing.
MayStart ==
  /\ pc = "idle"
  /\ started < MaxOperations
  /\ ~ Blocked /\ LayoutValid /\ Inspected

\* remote_retry_after_rollback_candidate, before it removes anything.
Retryable(c) ==
  /\ \E i \in 1 .. Len(history) :
       /\ history[i].candidate = c
       /\ \A j \in i + 1 .. Len(history) : history[j].candidate # c
       /\ history[i].status = "rolled back" /\ history[i].previous = Active
  /\ prepared = c /\ c \in releases /\ observed[c] = Active
  /\ Intact(Active) /\ root = Active /\ running = Active

\* remote_remove_expired_candidate, before it removes anything.
Removable(c) ==
  /\ expired
  /\ c \notin {current, previous, adoption}
  /\ ~ Critical(c)
  /\ Intact(c)

-----------------------------------------------------------------------------
(* Commands.                                                               *)

\* Where a failing command leads: the cleanup of a prepare, the failure of a
\* candidate, the failure of its rollback, or a report and the exit.
FailureOf(p) ==
  IF p \in Preparing THEN "abort"
  ELSE IF p \in DOMAIN StageAt THEN "failed"
  ELSE IF p \in Reversing THEN "lost" ELSE "idle"

End(to) ==
  /\ pc' = to
  /\ IF to = "idle" THEN op' = NoOp /\ owned' = {} ELSE UNCHANGED <<op, owned>>
  /\ UNCHANGED started

Succeed == End(Then[pc])
Fail ==
  IF FailureOf(pc) = "failed"
  THEN /\ pc' = "failed"
       /\ op' = [op EXCEPT !.stage = StageAt[pc]]
       /\ UNCHANGED <<owned, started>>
  ELSE End(FailureOf(pc))

\* Bug: the cleanup after a success removes the new previous release.
TargetPrevious == IF pc \in {"superseded_tags", "superseded_dir"} THEN op.from
                  ELSE IF pc \in {"expired_tags", "expired_dir", "expired_decision"}
                  THEN op.obsolete ELSE op.commit

\* The commit a removal is about.
Target == IF pc \in {"expired_tags", "expired_dir", "expired_decision",
                     "superseded_tags", "superseded_dir"}
          THEN op.obsolete ELSE op.commit

RemoveTags ==
  /\ pc \in {"retry_tags", "expired_tags", "clean_tags", "superseded_tags"}
  /\ \/ Succeed /\ tags' = [tags EXCEPT ![Target] = "none"]
     \/ Fail /\ \E left \in {"some", tags[Target]} : tags' = [tags EXCEPT ![Target] = left]
  /\ UNCHANGED <<releases, observed, pointers, decisions, journal, history, site, expired>>

\* When the cleanup of a failed candidate cannot go on, it tags the images again
\* as far as it can.
Retag == tags' \in IF pc \in {"clean_tagless", "clean_removing", "clean_dir"}
                   THEN {[tags EXCEPT ![Target] = left] : left \in {"none", "some", "all"}}
                   ELSE {tags}

\* rm -rf may stop half-way: the directory is there, its manifest is not.
RemoveDirectory ==
  /\ pc \in {"retry_dir", "expired_dir", "clean_dir", "superseded_dir"}
  /\ \/ /\ Succeed \/ Fail
        /\ UNCHANGED tags
        /\ releases' = releases \ {Target}
        /\ observed' = [observed EXCEPT ![Target] = None]
     \/ Fail /\ Retag /\ UNCHANGED <<releases, observed>>
     \/ Fail /\ Retag /\ observed' = [observed EXCEPT ![Target] = None]
        /\ UNCHANGED releases
  /\ UNCHANGED <<pointers, decisions, journal, history, site, expired>>

RemovePrepared ==
  /\ pc \in {"retry_prepared", "expired_prepared", "clean_prepared", "done_prepared"}
  /\ \/ (Succeed \/ Fail) /\ prepared' = None
     \/ Fail /\ UNCHANGED prepared
  /\ UNCHANGED <<evidence, current, previous, adoption, decisions, journal, history,
                 site, expired>>

RemoveDecision ==
  /\ pc \in {"retry_decision", "expired_decision"}
  /\ \/ (Succeed \/ Fail) /\ decisions' = [decisions EXCEPT ![Target] = None]
     \/ Fail /\ UNCHANGED decisions
  /\ UNCHANGED <<evidence, pointers, journal, history, site, expired>>

RemoveJournal ==
  /\ pc \in {"clean_journal", "done_journal"}
  /\ \/ /\ IF pc = "done_journal" /\ op.obsolete = None THEN End("idle") ELSE Succeed
        /\ journal' = None
     \/ Fail /\ journal' \in {journal, None}
  /\ UNCHANGED <<evidence, pointers, decisions, history, site, expired>>

WritePhase ==
  /\ pc \in DOMAIN PhaseAt
  /\ \/ Succeed /\ journal' = [journal EXCEPT !.phase = PhaseAt[pc]] /\ UNCHANGED tags
     \/ Fail /\ Retag /\ journal' \in {journal, [journal EXCEPT !.phase = PhaseAt[pc]]}
  /\ UNCHANGED <<releases, observed, pointers, decisions, history, site, expired>>

-----------------------------------------------------------------------------
(* prepare.                                                                *)

Prepare(c, retry) ==
  /\ MayStart
  /\ c # Active
  /\ retry => Retryable(c)
  /\ pc' = IF retry THEN "retry_tags" ELSE "expiry"
  /\ op' = [NoOp EXCEPT !.commit = c, !.from = Active]
  /\ started' = started + 1
  /\ UNCHANGED <<evidence, pointers, decisions, journal, history, site, expired, owned>>

\* remote_remove_expired_candidate
Expiry ==
  /\ pc = "expiry"
  /\ \/ prepared = None /\ End("import")
     \/ /\ prepared # None /\ Removable(prepared)
        /\ pc' = "expired_tags"
        /\ op' = [op EXCEPT !.obsolete = prepared]
        /\ UNCHANGED <<owned, started>>
     \/ prepared # None /\ ~ Removable(prepared) /\ Fail
  /\ UNCHANGED <<evidence, pointers, decisions, journal, history, site, expired>>

\* remote_import_or_validate_current_release: nothing to import once there is a
\* pointer.
Import ==
  /\ pc = "import"
  /\ IF current # None \/ adoption # None
     THEN IF Intact(op.from) THEN End("extract") ELSE Fail
     ELSE IF op.from \in releases THEN Fail ELSE End("adopt_extract")
  /\ UNCHANGED <<evidence, pointers, decisions, journal, history, site, expired>>

\* A directory is extracted: the release that serves, or the candidate.
Extract ==
  LET c == IF pc = "extract" THEN op.commit ELSE op.from
      what == IF pc = "extract" THEN "dir" ELSE "adoption dir"
      room == Cardinality(releases) <= 2 /\ c \notin releases
  IN /\ pc \in {"extract", "adopt_extract"}
     /\ \/ /\ pc = "extract" => room
           /\ pc' \in {Then[pc], "abort"}
           /\ owned' = owned \cup {what}
           /\ releases' = releases \cup {c}
        \/ pc' = "abort" /\ UNCHANGED <<owned, releases>>
     /\ UNCHANGED <<op, started, observed, tags, pointers, decisions, journal,
                    history, site, expired>>

\* The running images are tagged as the release that serves; a tag that is
\* there already is not one this prepare created.
AdoptTag ==
  /\ pc = "adopt_tag"
  /\ \/ /\ owned' = IF tags[op.from] = "all" THEN owned ELSE owned \cup {"adoption tags"}
        /\ \/ pc' \in {Then[pc], "abort"} /\ tags' = [tags EXCEPT ![op.from] = "all"]
           \/ /\ tags[op.from] # "all"
              /\ pc' = "abort" /\ tags' = [tags EXCEPT ![op.from] = "some"]
     \/ pc' = "abort" /\ UNCHANGED <<owned, tags>>
  /\ UNCHANGED <<op, started, releases, observed, pointers, decisions, journal,
                 history, site, expired>>

\* A failing build leaves the tags of the services it had come to.
Build ==
  /\ pc = "build"
  /\ \/ /\ tags[op.commit] = "none"
        /\ \/ Succeed /\ tags' = [tags EXCEPT ![op.commit] = "all"]
           \/ Fail /\ tags' = [tags EXCEPT ![op.commit] = "some"]
     \/ Fail /\ UNCHANGED tags
  /\ UNCHANGED <<releases, observed, pointers, decisions, journal, history, site, expired>>

\* What the prepare has created is its own, or will be left in place.
Own ==
  /\ pc \in {"built", "adopted", "publish"}
  /\ \/ Fail
     \/ pc = "publish" /\ Succeed
     \/ /\ pc # "publish"
        /\ pc' = Then[pc]
        /\ owned' = IF pc = "built" THEN owned \cup {"tags"} ELSE {}
        /\ UNCHANGED <<op, started>>
  /\ UNCHANGED <<evidence, pointers, decisions, journal, history, site, expired>>

WriteManifest ==
  LET c == IF pc = "manifest" THEN op.commit ELSE op.from
  IN /\ pc \in {"manifest", "adopt_manifest"}
     /\ \/ (Succeed \/ Fail) /\ observed' = [observed EXCEPT ![c] = op.from]
        \/ Fail /\ UNCHANGED observed
     /\ expired' = IF pc = "manifest" THEN FALSE ELSE expired
     /\ UNCHANGED <<releases, tags, pointers, decisions, journal, history, site>>

\* remote_pointer_write create
WritePointer ==
  /\ \/ /\ pc = "pointer" /\ UNCHANGED adoption
        /\ \/ Succeed /\ prepared = None /\ prepared' = op.commit
           \/ Fail /\ UNCHANGED prepared
     \/ /\ pc = "adopt_pointer" /\ UNCHANGED prepared
        /\ \/ Succeed /\ adoption' = op.from
           \/ Fail /\ UNCHANGED adoption
  /\ UNCHANGED <<evidence, current, previous, decisions, journal, history, site, expired>>

\* remote_prepare_cleanup_attempt: a tag that cannot be removed stays.
Abort ==
  LET dirs == {c \in Commits : \/ c = op.commit /\ "dir" \in owned
                               \/ c = op.from /\ "adoption dir" \in owned}
      tagged == {c \in Commits : \/ c = op.commit /\ "tags" \in owned
                                 \/ c = op.from /\ "adoption tags" \in owned}
  IN /\ pc = "abort"
     /\ releases' = releases \ dirs
     /\ observed' = [c \in Commits |-> IF c \in dirs THEN None ELSE observed[c]]
     /\ \E left \in {"none", "some", "all"} :
          tags' = [c \in Commits |-> IF c \in tagged THEN left ELSE tags[c]]
     /\ End("idle")
     /\ UNCHANGED <<pointers, decisions, journal, history, site, expired>>

-----------------------------------------------------------------------------
(* activate.                                                               *)

\* remote_classify_migrations
Migration(from, to) == SchemaOf[from] # SchemaOf[to]

\* remote_activation_preflight: the decision is immutable once recorded.
Activate(c, policy) ==
  /\ MayStart
  /\ prepared = c /\ ~ expired
  /\ observed[c] = Active /\ c # Active
  /\ tags[c] = "all" /\ Intact(Active)
  /\ current = None => adoption = Active
  /\ IF Migration(Active, c) THEN policy # "automatic" /\ decisions[c] \in {None, policy}
                             ELSE policy = "automatic"
  /\ pc' = IF Migration(Active, c) THEN "decide" ELSE "open"
  /\ op' = [NoOp EXCEPT !.commit = c, !.policy = policy, !.from = Active,
                        !.obsolete = previous, !.first = (current = None)]
  /\ started' = started + 1
  /\ UNCHANGED <<evidence, pointers, decisions, journal, history, site, expired, owned>>

\* remote_ensure_activation_decision
Decide ==
  /\ pc = "decide"
  /\ \/ (Succeed \/ Fail) /\ decisions' = [decisions EXCEPT ![op.commit] = op.policy]
     \/ Fail /\ UNCHANGED decisions
  /\ UNCHANGED <<evidence, pointers, journal, history, site, expired>>

\* The transaction is written before anything that serves is touched.
OpenJournal ==
  /\ pc = "open"
  /\ \/ /\ ~ expired
        /\ op.obsolete # None => Intact(op.obsolete)
        /\ \/ Succeed \/ Fail
        /\ journal' = [candidate |-> op.commit, previous |-> op.from, policy |-> op.policy,
                       phase |-> "cutover_started", at |-> started]
     \/ Fail /\ UNCHANGED journal
  /\ UNCHANGED <<evidence, pointers, decisions, history, site, expired>>

\* Compose starts a release, the candidate or the previous one again.
StartServices ==
  LET c == IF pc = "start" THEN op.commit ELSE op.from
  IN /\ pc \in {"start", "back_start"}
     /\ \/ /\ pc = "back_start" => Intact(c) /\ op.commit \in releases
           /\ \/ Succeed /\ running' = c
              \/ Fail /\ running' \in {Mixed, c}
        \/ Fail /\ UNCHANGED running
     /\ UNCHANGED <<evidence, pointers, decisions, journal, history, marker, root, expired>>

\* Bug: a rollback ends with the containers, whatever the cutover had reached.
SmokeKeepsRoot ==
  /\ pc \in {"smoke", "back_smoke"}
  /\ \/ IF pc = "back_smoke" THEN End("back_outcome") ELSE Succeed
     \/ Fail
  /\ UNCHANGED <<evidence, pointers, decisions, journal, history, site, expired>>

\* remote_run_tenant_smoke and remote_recheck_candidate_services; a rollback of
\* a cutover that has not reached the root ends with them.
Smoke ==
  /\ pc \in {"smoke", "back_smoke"}
  /\ \/ IF pc = "back_smoke" /\ op.stage \notin {"root_sync", "marker_publish"} /\ ~ op.first
        THEN End("back_outcome") ELSE Succeed
     \/ Fail
     \/ /\ pc = "smoke" /\ pc' = "failed"
        /\ op' = [op EXCEPT !.stage = "service_state"] /\ UNCHANGED <<owned, started>>
  /\ UNCHANGED <<evidence, pointers, decisions, journal, history, site, expired>>

\* remote_sync_root_source
SyncRoot ==
  LET c == IF pc = "sync" THEN op.commit ELSE op.from
  IN /\ pc \in {"sync", "back_sync"}
     /\ \/ (Succeed \/ Fail) /\ root' = c
        \/ Fail /\ root' \in {root, Mixed}
     /\ UNCHANGED <<evidence, pointers, decisions, journal, history, marker, running,
                    expired>>

\* remote_restore_previous_markers: after a first activation the adoption is
\* there, or everything had been published.
Restorable ==
  op.first => \/ adoption = op.from
              \/ /\ adoption = None /\ current = op.commit /\ previous = op.from
                 /\ marker = op.commit

PublishMarker ==
  /\ pc \in {"marker", "back_marker"}
  /\ \/ /\ pc = "back_marker" => Restorable
        /\ Succeed \/ Fail
        /\ marker' = IF pc = "marker" THEN op.commit ELSE op.from
     \/ Fail /\ UNCHANGED marker
  /\ UNCHANGED <<evidence, pointers, decisions, journal, history, root, running, expired>>

PublishPrevious ==
  /\ pc \in {"previous", "back_previous"}
  /\ \/ /\ Succeed \/ Fail
        /\ previous' = IF pc = "previous" THEN op.from ELSE op.obsolete
     \/ Fail /\ UNCHANGED previous
  /\ UNCHANGED <<evidence, current, adoption, prepared, decisions, journal, history, site,
                 expired>>

PublishCurrent ==
  /\ pc \in {"current", "back_current"}
  /\ \/ /\ Succeed \/ Fail
        /\ current' = IF pc = "current" THEN op.commit ELSE op.from
     \/ Fail /\ UNCHANGED current
  /\ UNCHANGED <<evidence, previous, adoption, prepared, decisions, journal, history, site,
                 expired>>

RemoveAdoption ==
  /\ pc \in {"unadopt", "back_unadopt"}
  /\ \/ Succeed /\ adoption' = IF op.first THEN None ELSE adoption
     \/ op.first /\ Fail /\ adoption' \in {adoption, None}
  /\ UNCHANGED <<evidence, current, previous, prepared, decisions, journal, history, site,
                 expired>>

Record(status) ==
  history' = Append(history, [candidate |-> journal.candidate, previous |-> journal.previous,
                              status |-> status, at |-> journal.at])

\* remote_validate_activation_commit_point
Committed ==
  /\ journal.phase = "markers_published"
  /\ current = op.commit /\ previous = op.from /\ marker = op.commit /\ root = op.commit

\* Bug: a failure after the outcome has been written is rolled back.
RecordSuccessUndone ==
  /\ pc = "outcome"
  /\ \/ Committed /\ Record("succeeded") /\ (Succeed \/ Fail)
     \/ Fail /\ UNCHANGED history
  /\ UNCHANGED <<evidence, pointers, decisions, journal, site, expired>>

\* The outcome decides: once it can be read the activation is not undone, even
\* when the rest of writing it fails.
RecordSuccess ==
  /\ pc = "outcome"
  /\ \/ Committed /\ Record("succeeded") /\ (Succeed \/ End("idle"))
     \/ Fail /\ UNCHANGED history
  /\ UNCHANGED <<evidence, pointers, decisions, journal, site, expired>>

\* remote_validate_failure_policy_evidence
PolicyEvident ==
  decisions[op.commit] = IF op.policy = "automatic" THEN None ELSE op.policy

\* Bug: the policy is not looked at.
CandidateFailedRollsBack ==
  /\ pc = "failed"
  /\ \/ PolicyEvident /\ End("back_start") /\ UNCHANGED history
     \/ /\ ~ PolicyEvident /\ End("idle")
        /\ Record("rollback failed") \/ UNCHANGED history
  /\ UNCHANGED <<evidence, pointers, decisions, journal, site, expired>>

\* handle_candidate_failure: what the policy allows.
CandidateFailed ==
  /\ pc = "failed"
  /\ \/ PolicyEvident /\ op.policy # "forward-only" /\ End("back_start") /\ UNCHANGED history
     \/ /\ PolicyEvident /\ op.policy = "forward-only" /\ End("idle")
        /\ Record("forward only") \/ UNCHANGED history
     \/ /\ ~ PolicyEvident /\ End("idle")
        /\ Record("rollback failed") \/ UNCHANGED history
  /\ UNCHANGED <<evidence, pointers, decisions, journal, site, expired>>

RollbackFailed ==
  /\ pc = "lost"
  /\ End("idle")
  /\ Record("rollback failed") \/ UNCHANGED history
  /\ UNCHANGED <<evidence, pointers, decisions, journal, site, expired>>

RecordRollback ==
  /\ pc = "back_outcome"
  /\ \/ (Succeed \/ Fail) /\ Record("rolled back")
     \/ Fail /\ UNCHANGED history
  /\ UNCHANGED <<evidence, pointers, decisions, journal, site, expired>>

-----------------------------------------------------------------------------
\* Twenty-four hours after its preparation.
Expire ==
  /\ prepared # None /\ ~ expired
  /\ expired' = TRUE
  /\ UNCHANGED <<evidence, pointers, decisions, journal, history, site, pc, lock>>

\* The script is killed, or the host stops: deploy.lock goes with the process.
Kill ==
  /\ pc # "idle"
  /\ End("idle")
  /\ UNCHANGED <<evidence, pointers, decisions, journal, history, site, expired>>

RemoveStep ==
  RemoveTags \/ RemoveDirectory \/ RemovePrepared \/ RemoveDecision \/ RemoveJournal

PrepareStep ==
  \/ Expiry \/ Import \/ Extract \/ AdoptTag \/ Build \/ Own
  \/ WriteManifest \/ WritePointer \/ Abort

ActivateStep ==
  \/ Decide \/ OpenJournal \/ WritePhase \/ StartServices \/ Smoke \/ SyncRoot
  \/ PublishMarker \/ PublishPrevious \/ PublishCurrent \/ RemoveAdoption
  \/ RecordSuccess \/ CandidateFailed \/ RollbackFailed \/ RecordRollback

Next ==
  \/ \E c \in Commits, retry \in BOOLEAN : Prepare(c, retry)
  \/ \E c \in Commits, policy \in Policies : Activate(c, policy)
  \/ RemoveStep \/ PrepareStep \/ ActivateStep
  \/ Expire \/ Kill

Spec == Init /\ [][Next]_vars
-----------------------------------------------------------------------------
(* What a release may rely on, wherever the script is killed.              *)

(* As long as no transaction is open, one release runs, is the source of   *)
(* the root, is named by DEPLOY_SOURCE.txt and by the pointer: a reader of *)
(* the marker (production-deployment.md:106-109) is never misled.          *)
ServedIsRecorded ==
  journal = None => running = Active /\ root = Active /\ marker = Active

(* Whatever has been cleaned up, aborted or killed before, the release to  *)
(* go back to is there with its manifest and all its image tags: while a   *)
(* transaction is open, and for the pointers current and previous.         *)
RollbackReady ==
  /\ journal # None => Intact(journal.previous)
  /\ \A c \in {current, previous} \ {None} : journal = None => Intact(c)

(* Under a forward-only decision the previous release is never started     *)
(* again: its code does not know the migrated database.                    *)
ForwardOnlyStays ==
  [][journal # None /\ journal.policy = "forward-only" /\ running # journal.previous
       => running' # journal.previous]_vars

(* What the last outcome says holds until the next transaction: the release *)
(* that succeeded, or was restored, serves, and is the recorded one.       *)
OutcomesTrue ==
  history # <<>> =>
    LET o == history[Len(history)]
        kept == journal = None \/ journal.at = o.at
        served == IF o.status = "succeeded" THEN o.candidate ELSE o.previous
    IN /\ kept /\ o.status \in {"succeeded", "rolled back"}
            => running = served /\ root = served /\ marker = served /\ Active = served
       /\ \A i \in 1 .. Len(history) - 1 : history[i].at < history[i + 1].at

=============================================================================
