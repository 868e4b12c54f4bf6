-------------------------- MODULE SidePartsProofs --------------------------
(* What the three parts that keep to themselves promise, for every value   *)
(* of their constants: a release, a tenant, and the web pushes.            *)
EXTENDS SideParts, NaturalFacts, FiniteSetTheorems, TLAPS

-----------------------------------------------------------------------------
(* The inductive invariant.                                                *)

Opening == {"decide", "open"}
Cutting == {"start", "smoke", "healthy", "sync_started", "sync", "sync_completed",
            "marker", "previous", "current", "unadopt", "published", "outcome",
            "done_prepared", "done_journal", "failed"}
Returning == {"back_start", "back_smoke", "back_sync", "back_marker", "back_previous",
              "back_current", "back_unadopt", "back_outcome", "back_recovered",
              "clean_started", "clean_tags", "clean_tagless", "clean_removing",
              "clean_dir", "clean_removed", "clean_prepared", "clean_pointerless",
              "clean_journal", "lost"}
Replacing == {"expired_tags", "expired_dir", "expired_prepared", "expired_decision",
              "superseded_tags", "superseded_dir"}

(* The lock and the disk, the two halves of the type invariant.            *)
LockTyped ==
  /\ pc \in PCs
  /\ op \in Operations
  /\ owned \subseteq {"adoption dir", "adoption tags", "dir", "tags"}
  /\ started \in 0 .. MaxOperations

EvidenceTyped ==
  /\ releases \subseteq Commits
  /\ observed \in [Commits -> Pointer]
  /\ tags \in [Commits -> {"none", "some", "all"}]

SiteTyped ==
  /\ {current, previous, adoption, prepared} \subseteq Pointer
  /\ decisions \in [Commits -> {None, "backward-compatible", "forward-only"}]
  /\ marker \in Commits
  /\ {root, running} \subseteq Commits \cup {Mixed}
  /\ expired \in BOOLEAN

RecordsTyped ==
  /\ journal \in Transactions \cup {None}
  /\ history \in Seq(Outcomes)

(* An operation knows its releases, the transaction of a cutover is that   *)
(* of the operation, and nothing goes back under a forward-only decision.  *)
OpKnown ==
  /\ pc # "idle" => op.commit \in Commits /\ op.from \in Commits /\ started # 0
  /\ pc \in Opening \cup Cutting \cup Returning => op.commit # op.from
  /\ pc \in Replacing => op.obsolete \in Commits

JournalMatches ==
  pc \in Cutting \cup Returning =>
    journal # None /\ journal.policy = op.policy /\ journal.previous = op.from

PolicyAllowed ==
  /\ pc \in Returning => op.policy # "forward-only"
  /\ pc = "decide" => op.policy # "automatic"

ReleaseInv ==
  /\ LockTyped /\ EvidenceTyped /\ SiteTyped /\ RecordsTyped
  /\ OpKnown /\ JournalMatches /\ PolicyAllowed

LEMMA TypesSplit ==
  TypeOK <=> LockTyped /\ EvidenceTyped /\ SiteTyped /\ RecordsTyped
BY DEF TypeOK, LockTyped, EvidenceTyped, SiteTyped, RecordsTyped

-----------------------------------------------------------------------------
(* Where a command leads.                                                  *)

LEMMA ThenLands ==
  ASSUME NEW p \in DOMAIN Then
  PROVE  Then[p] \in PCs
BY DEF Then, PCs

LEMMA ThenStays ==
  ASSUME NEW p \in DOMAIN Then
  PROVE  /\ Then[p] \in Cutting \cup Returning => p \in Cutting \cup Returning \cup {"open"}
         /\ Then[p] \in Opening => p \in Opening
         /\ Then[p] \in Returning => p \in Returning
         /\ Then[p] # "decide"
BY DEF Then, Cutting, Returning, Opening

LEMMA ThenReplaces ==
  ASSUME NEW p \in DOMAIN Then
  PROVE  Then[p] \in Replacing => p \in Replacing \/ p = "done_journal"
BY DEF Then, Replacing

LEMMA StagesStay ==
  ASSUME NEW p \in DOMAIN StageAt
  PROVE  StageAt[p] \in Stages /\ p \in Cutting
BY DEF StageAt, Stages, Cutting

LEMMA PhasesStay ==
  ASSUME NEW p \in DOMAIN PhaseAt
  PROVE  p \in Cutting \cup Returning /\ p \in DOMAIN Then
BY DEF PhaseAt, Cutting, Returning, Then

LEMMA Outside ==
  /\ "idle" \notin Opening \cup Cutting \cup Returning \cup Replacing
  /\ "abort" \notin Opening \cup Cutting \cup Returning \cup Replacing
  /\ "failed" \in Cutting /\ "failed" \notin Replacing
  /\ "lost" \in Returning /\ "lost" \notin Replacing
  /\ {"idle", "abort", "failed", "lost", "expiry", "import"} \subseteq PCs
  /\ Reversing \subseteq Returning
BY DEF Opening, Cutting, Returning, Replacing, PCs, Reversing

-----------------------------------------------------------------------------
(* The ends of the commands, whatever they have written.                   *)

LockKept ==
  /\ LockTyped' /\ OpKnown' /\ PolicyAllowed'
  /\ pc' \in Cutting \cup Returning =>
       pc \in Cutting \cup Returning \cup {"open"} /\ op'.policy = op.policy /\ op'.from = op.from

LEMMA NoOpTyped == NoOp \in Operations
BY DEF NoOp, Operations, Pointer, Policies, Stages

LEMMA EndKeeps ==
  ASSUME ReleaseInv, NEW to \in PCs \ {"decide"}, End(to), pc # "idle",
         to \in Cutting \cup Returning => pc \in Cutting \cup Returning \cup {"open"},
         to \in Opening => pc \in Opening,
         to \in Replacing => op.obsolete \in Commits,
         to \in Returning => op.policy # "forward-only"
  PROVE  LockKept
<1>1. pc' = to /\ started' = started
  BY DEF End
<1>2. CASE to = "idle"
  <2>1. op' = NoOp /\ owned' = {}
    BY <1>2 DEF End
  <2>2. LockTyped'
    BY <1>1, <2>1, NoOpTyped DEF LockTyped, ReleaseInv
  <2>3. OpKnown' /\ PolicyAllowed'
    BY <1>1, <1>2, Outside DEF OpKnown, PolicyAllowed
  <2> QED
    BY <1>1, <1>2, <2>2, <2>3, Outside DEF LockKept
<1>3. CASE to # "idle"
  <2>1. op' = op /\ owned' = owned
    BY <1>3 DEF End
  <2>2. LockTyped'
    BY <1>1, <2>1 DEF LockTyped, ReleaseInv
  <2>3. OpKnown' /\ PolicyAllowed'
    <3>1. "open" \in Opening
      BY DEF Opening
    <3> QED
      BY <1>1, <2>1, <3>1 DEF OpKnown, PolicyAllowed, ReleaseInv
  <2> QED
    BY <1>1, <2>1, <2>2, <2>3 DEF LockKept
<1> QED
  BY <1>2, <1>3

LEMMA SucceedKeeps ==
  ASSUME ReleaseInv, Succeed, pc \in DOMAIN Then, pc # "idle",
         pc = "done_journal" => op.obsolete # None
  PROVE  LockKept
<1>1. End(Then[pc]) /\ Then[pc] \in PCs \ {"decide"}
  BY ThenLands, ThenStays DEF Succeed
<1>2. Then[pc] \in Replacing => op.obsolete \in Commits
  BY ThenReplaces DEF ReleaseInv, OpKnown, LockTyped, Operations, Pointer
<1>3. /\ Then[pc] \in Cutting \cup Returning => pc \in Cutting \cup Returning \cup {"open"}
      /\ Then[pc] \in Opening => pc \in Opening
      /\ Then[pc] \in Returning => pc \in Returning
  BY ThenStays
<1> QED
  BY <1>1, <1>2, <1>3, EndKeeps DEF ReleaseInv, PolicyAllowed

LEMMA FailKeeps ==
  ASSUME ReleaseInv, Fail, pc # "idle"
  PROVE  LockKept /\ (pc' \in Cutting \cup Returning => pc \in Cutting \cup Returning)
<1>1. CASE FailureOf(pc) = "failed"
  <2>1. pc \in DOMAIN StageAt
    BY <1>1 DEF FailureOf
  <2>2. pc \in Cutting /\ StageAt[pc] \in Stages
    BY <2>1, StagesStay
  <2>3. /\ pc' = "failed" /\ op' = [op EXCEPT !.stage = StageAt[pc]]
        /\ owned' = owned /\ started' = started
    BY <1>1 DEF Fail
  <2>4. /\ op \in Operations /\ op' \in Operations /\ op'.policy = op.policy
        /\ op'.from = op.from /\ op'.commit = op.commit /\ op'.obsolete = op.obsolete
    BY <2>2, <2>3 DEF ReleaseInv, LockTyped, Operations
  <2>5. LockTyped'
    BY <2>3, <2>4, Outside DEF LockTyped, ReleaseInv
  <2>6. OpKnown'
    BY <2>2, <2>3, <2>4, Outside DEF OpKnown, ReleaseInv
  <2>7. PolicyAllowed'
    BY <2>3 DEF PolicyAllowed, Returning
  <2> QED
    BY <2>2, <2>3, <2>4, <2>5, <2>6, <2>7 DEF LockKept
<1>2. CASE FailureOf(pc) # "failed"
  <2>1. End(FailureOf(pc))
    BY <1>2 DEF Fail
  <2>2. /\ FailureOf(pc) \in {"abort", "lost", "idle"}
        /\ FailureOf(pc) = "lost" => pc \in Returning
    BY <1>2, Outside DEF FailureOf
  <2>3. "abort" \notin Cutting /\ "idle" \notin Cutting /\ "lost" \notin Cutting
        /\ "abort" \notin Returning /\ "idle" \notin Returning /\ "lost" \notin Opening
    BY DEF Cutting, Returning, Opening
  <2>4. LockKept
    BY <2>1, <2>2, <2>3, EndKeeps, Outside DEF ReleaseInv, PolicyAllowed
  <2>5. pc' = FailureOf(pc)
    BY <2>1 DEF End
  <2> QED
    BY <2>2, <2>3, <2>4, <2>5
<1> QED
  BY <1>1, <1>2

LEMMA JournalKept ==
  ASSUME ReleaseInv, LockKept, pc # "open" \/ pc' \notin Cutting \cup Returning,
         journal' = journal
  PROVE  JournalMatches'
BY DEF JournalMatches, LockKept, ReleaseInv

LEMMA TargetKnown ==
  ASSUME ReleaseInv, pc # "idle"
  PROVE  Target \in Commits
BY DEF ReleaseInv, OpKnown, Target, Replacing

LEMMA InvHolds ==
  ASSUME LockKept, EvidenceTyped', SiteTyped', RecordsTyped', JournalMatches'
  PROVE  ReleaseInv'
BY DEF LockKept, ReleaseInv

-----------------------------------------------------------------------------
(* Each command keeps the invariant.                                       *)

LEMMA RemoveTagsInv ==
  ASSUME ReleaseInv, RemoveTags
  PROVE  ReleaseInv'
<1>1. pc \in DOMAIN Then /\ pc \notin {"idle", "open", "done_journal"}
  BY DEF RemoveTags, Then
<1>2. LockKept
  BY <1>1, SucceedKeeps, FailKeeps DEF RemoveTags
<1>3. tags[Target] \in {"none", "some", "all"}
  BY <1>1, TargetKnown DEF ReleaseInv, EvidenceTyped
<1>4. tags' \in [Commits -> {"none", "some", "all"}]
  BY <1>3 DEF RemoveTags, ReleaseInv, EvidenceTyped
<1>5. EvidenceTyped' /\ SiteTyped' /\ RecordsTyped'
  BY <1>4 DEF RemoveTags, ReleaseInv, EvidenceTyped, SiteTyped, RecordsTyped, pointers, site
<1> QED
  BY <1>1, <1>2, <1>5, JournalKept, InvHolds DEF RemoveTags

LEMMA RetagTyped ==
  ASSUME ReleaseInv, Retag
  PROVE  tags' \in [Commits -> {"none", "some", "all"}]
<1>1. ASSUME NEW left \in {"none", "some", "all"}
      PROVE  [tags EXCEPT ![Target] = left] \in [Commits -> {"none", "some", "all"}]
  BY DEF ReleaseInv, EvidenceTyped
<1> QED
  BY <1>1 DEF Retag, ReleaseInv, EvidenceTyped

LEMMA RemoveDirectoryInv ==
  ASSUME ReleaseInv, RemoveDirectory
  PROVE  ReleaseInv'
<1>1. pc \in DOMAIN Then /\ pc \notin {"idle", "open", "done_journal"}
  BY DEF RemoveDirectory, Then
<1>2. LockKept
  BY <1>1, SucceedKeeps, FailKeeps DEF RemoveDirectory
<1>3. tags' \in [Commits -> {"none", "some", "all"}]
  BY RetagTyped DEF RemoveDirectory, ReleaseInv, EvidenceTyped
<1>4. observed' \in [Commits -> Pointer] /\ releases' \subseteq Commits
  BY DEF RemoveDirectory, ReleaseInv, EvidenceTyped, Pointer
<1>5. EvidenceTyped' /\ SiteTyped' /\ RecordsTyped'
  BY <1>3, <1>4
     DEF RemoveDirectory, ReleaseInv, EvidenceTyped, SiteTyped, RecordsTyped, pointers, site
<1> QED
  BY <1>1, <1>2, <1>5, JournalKept, InvHolds DEF RemoveDirectory

LEMMA RemovePreparedInv ==
  ASSUME ReleaseInv, RemovePrepared
  PROVE  ReleaseInv'
<1>1. pc \in DOMAIN Then /\ pc \notin {"idle", "open", "done_journal"}
  BY DEF RemovePrepared, Then
<1>2. LockKept
  BY <1>1, SucceedKeeps, FailKeeps DEF RemovePrepared
<1>3. EvidenceTyped' /\ SiteTyped' /\ RecordsTyped'
  BY DEF RemovePrepared, ReleaseInv, EvidenceTyped, SiteTyped, RecordsTyped, evidence, site,
         Pointer
<1> QED
  BY <1>1, <1>2, <1>3, JournalKept, InvHolds DEF RemovePrepared

LEMMA RemoveDecisionInv ==
  ASSUME ReleaseInv, RemoveDecision
  PROVE  ReleaseInv'
<1>1. pc \in DOMAIN Then /\ pc \notin {"idle", "open", "done_journal"}
  BY DEF RemoveDecision, Then
<1>2. LockKept
  BY <1>1, SucceedKeeps, FailKeeps DEF RemoveDecision
<1>3. decisions' \in [Commits -> {None, "backward-compatible", "forward-only"}]
  BY DEF RemoveDecision, ReleaseInv, SiteTyped
<1>4. EvidenceTyped' /\ SiteTyped' /\ RecordsTyped'
  BY <1>3
     DEF RemoveDecision, ReleaseInv, EvidenceTyped, SiteTyped, RecordsTyped, evidence, pointers,
         site
<1> QED
  BY <1>1, <1>2, <1>4, JournalKept, InvHolds DEF RemoveDecision

LEMMA RemoveJournalInv ==
  ASSUME ReleaseInv, RemoveJournal
  PROVE  ReleaseInv'
<1>1. pc \in DOMAIN Then /\ pc \in {"clean_journal", "done_journal"} /\ "idle" \in PCs
  BY Outside DEF RemoveJournal, Then
<1>2. ASSUME End("idle") PROVE LockKept
  BY <1>1, <1>2, EndKeeps, Outside
<1>3. pc' \notin Cutting \cup Returning
  <2>1. Then["clean_journal"] = "idle" /\ Then["done_journal"] = "superseded_tags"
    BY DEF Then
  <2>2. FailureOf("clean_journal") = "idle" /\ FailureOf("done_journal") = "idle"
    BY DEF FailureOf, Preparing, StageAt, Reversing
  <2>3. pc' \in {"idle", "superseded_tags"}
    BY <1>1, <2>1, <2>2 DEF RemoveJournal, End, Succeed, Fail
  <2> QED
    BY <2>3 DEF Cutting, Returning
<1>4. LockKept
  BY <1>1, <1>2, SucceedKeeps, FailKeeps, Outside DEF RemoveJournal
<1>5. EvidenceTyped' /\ SiteTyped' /\ RecordsTyped'
  BY DEF RemoveJournal, ReleaseInv, EvidenceTyped, SiteTyped, RecordsTyped, evidence, pointers,
         site
<1> QED
  BY <1>3, <1>4, <1>5, InvHolds DEF JournalMatches

LEMMA WritePhaseInv ==
  ASSUME ReleaseInv, WritePhase
  PROVE  ReleaseInv'
<1>1. pc \in DOMAIN PhaseAt /\ pc \in Cutting \cup Returning /\ pc \in DOMAIN Then
  BY PhasesStay DEF WritePhase
<1>2. pc \notin {"idle", "open", "done_journal"}
  BY <1>1 DEF PhaseAt
<1>3. LockKept
  BY <1>1, <1>2, SucceedKeeps, FailKeeps DEF WritePhase
<1>4. journal \in Transactions /\ journal # None
  BY <1>1 DEF ReleaseInv, JournalMatches, RecordsTyped
<1> DEFINE later == [journal EXCEPT !.phase = PhaseAt[pc]]
<1>5. later \in Transactions /\ later.policy = journal.policy /\ later.previous = journal.previous
  BY <1>1, <1>4 DEF Transactions
<1>6. later # None
  BY <1>5, NoneAssumption
<1>7. journal' \in {journal, later}
  BY DEF WritePhase
<1>8. tags' \in [Commits -> {"none", "some", "all"}]
  BY RetagTyped DEF WritePhase, ReleaseInv, EvidenceTyped
<1>9. EvidenceTyped' /\ SiteTyped'
  BY <1>8 DEF WritePhase, ReleaseInv, EvidenceTyped, SiteTyped, pointers, site
<1>10. RecordsTyped'
  BY <1>5, <1>7 DEF WritePhase, ReleaseInv, RecordsTyped
<1>11. JournalMatches'
  BY <1>2, <1>3, <1>4, <1>5, <1>6, <1>7 DEF JournalMatches, LockKept, ReleaseInv
<1> QED
  BY <1>3, <1>9, <1>10, <1>11, InvHolds

(* prepare *)

LEMMA ActiveKnown ==
  ASSUME SiteTyped
  PROVE  Active \in Commits
BY DEF SiteTyped, Active, Pointer

LEMMA PrepareInv ==
  ASSUME ReleaseInv, NEW c \in Commits, NEW retry \in BOOLEAN, Prepare(c, retry)
  PROVE  ReleaseInv'
<1>1. Active \in Commits
  BY ActiveKnown DEF ReleaseInv
<1>2. /\ pc' \in {"retry_tags", "expiry"} /\ pc' \in PCs
      /\ pc' \notin Opening \cup Cutting \cup Returning \cup Replacing
  BY DEF Prepare, PCs, Then, Opening, Cutting, Returning, Replacing
<1>3. op' \in Operations /\ op'.commit = c /\ op'.from = Active
  BY <1>1, NoOpTyped DEF Prepare, Operations, NoOp, Pointer
<1>4. started' \in 0 .. MaxOperations /\ started' # 0 /\ owned' = owned
  <2>1. started \in 0 .. MaxOperations /\ started < MaxOperations /\ started' = started + 1
    BY DEF Prepare, MayStart, ReleaseInv, LockTyped
  <2>2. owned' = owned
    BY DEF Prepare
  <2> QED
    BY <2>1, <2>2, ReleaseAssumption
<1>5. LockKept
  BY <1>1, <1>2, <1>3, <1>4 DEF LockKept, LockTyped, OpKnown, PolicyAllowed, ReleaseInv
<1>6. EvidenceTyped' /\ SiteTyped' /\ RecordsTyped' /\ JournalMatches'
  BY <1>2 DEF Prepare, ReleaseInv, EvidenceTyped, SiteTyped, RecordsTyped, JournalMatches,
              evidence, pointers, site
<1> QED
  BY <1>5, <1>6, InvHolds

(* A step of prepare that does not write the pc with End or Fail: pc' is    *)
(* one of the commands of prepare, and op stays.                            *)
LEMMA PreparingKeeps ==
  ASSUME ReleaseInv, pc # "idle", op' = op, started' = started,
         pc' \in PCs \ (Opening \cup Cutting \cup Returning \cup Replacing),
         owned' \subseteq {"adoption dir", "adoption tags", "dir", "tags"}
  PROVE  LockKept
<1>1. pc' # "decide"
  BY DEF Opening
<1> QED
  BY <1>1 DEF LockKept, LockTyped, OpKnown, PolicyAllowed, ReleaseInv

LEMMA PrepareSteps ==
  ASSUME NEW p \in {"extract", "adopt_extract", "adopt_tag", "built", "adopted", "build",
                    "manifest", "adopt_manifest", "pointer", "adopt_pointer", "publish"}
  PROVE  /\ p \in DOMAIN Then /\ p \notin Opening \cup Cutting \cup Returning \cup Replacing
         /\ p # "idle" /\ p # "done_journal"
         /\ Then[p] \in PCs \ (Opening \cup Cutting \cup Returning \cup Replacing)
BY DEF Then, PCs, Opening, Cutting, Returning, Replacing

LEMMA ExpiryInv ==
  ASSUME ReleaseInv, Expiry
  PROVE  ReleaseInv'
<1>1. pc = "expiry" /\ pc \notin Opening \cup Cutting \cup Returning
  BY DEF Expiry, Opening, Cutting, Returning
<1>2. LockKept
  <2>1. CASE End("import")
    <3>1. "import" \notin Opening \cup Cutting \cup Returning \cup Replacing
      BY DEF Opening, Cutting, Returning, Replacing
    <3> QED
      BY <1>1, <2>1, <3>1, EndKeeps, Outside
  <2>2. CASE /\ prepared # None /\ pc' = "expired_tags"
             /\ op' = [op EXCEPT !.obsolete = prepared] /\ UNCHANGED <<owned, started>>
    <3>1. op' \in Operations /\ op'.commit = op.commit /\ op'.from = op.from
          /\ op'.obsolete \in Commits
      BY <2>2 DEF ReleaseInv, LockTyped, Operations, SiteTyped, Pointer
    <3>2. pc' \in PCs /\ pc' \notin Opening \cup Cutting \cup Returning
      BY <2>2 DEF PCs, Then, Opening, Cutting, Returning
    <3> QED
      BY <1>1, <2>2, <3>1, <3>2 DEF LockKept, LockTyped, OpKnown, PolicyAllowed, ReleaseInv
  <2>3. CASE Fail
    BY <1>1, <2>3, FailKeeps
  <2> QED
    BY <2>1, <2>2, <2>3 DEF Expiry
<1>3. EvidenceTyped' /\ SiteTyped' /\ RecordsTyped'
  BY DEF Expiry, ReleaseInv, EvidenceTyped, SiteTyped, RecordsTyped, evidence, pointers, site
<1> QED
  BY <1>1, <1>2, <1>3, JournalKept, InvHolds DEF Expiry

LEMMA ImportInv ==
  ASSUME ReleaseInv, Import
  PROVE  ReleaseInv'
<1>1. {"extract", "adopt_extract"} \subseteq
         PCs \ (Opening \cup Cutting \cup Returning \cup Replacing)
  BY DEF PCs, Then, Opening, Cutting, Returning, Replacing
<1>2. LockKept
  BY <1>1, EndKeeps, FailKeeps DEF Import
<1>3. EvidenceTyped' /\ SiteTyped' /\ RecordsTyped'
  BY DEF Import, ReleaseInv, EvidenceTyped, SiteTyped, RecordsTyped, evidence, pointers, site
<1> QED
  BY <1>2, <1>3, JournalKept, InvHolds DEF Import

LEMMA ExtractInv ==
  ASSUME ReleaseInv, Extract
  PROVE  ReleaseInv'
<1>1. pc \in {"extract", "adopt_extract"}
  BY DEF Extract
<1>2. pc' \in {Then[pc], "abort"} /\ pc' \in PCs \ (Opening \cup Cutting \cup Returning \cup Replacing)
  BY <1>1, PrepareSteps, Outside DEF Extract
<1>3. owned' \subseteq {"adoption dir", "adoption tags", "dir", "tags"}
  BY <1>1 DEF Extract, ReleaseInv, LockTyped
<1>4. LockKept
  BY <1>1, <1>2, <1>3, PreparingKeeps DEF Extract
<1>5. op.commit \in Commits /\ op.from \in Commits
  BY <1>1 DEF ReleaseInv, OpKnown
<1>6. releases' \subseteq Commits
  BY <1>5 DEF Extract, ReleaseInv, EvidenceTyped
<1>7. EvidenceTyped' /\ SiteTyped' /\ RecordsTyped'
  BY <1>6 DEF Extract, ReleaseInv, EvidenceTyped, SiteTyped, RecordsTyped, pointers, site
<1> QED
  BY <1>1, <1>4, <1>7, JournalKept, InvHolds DEF Extract

LEMMA AdoptTagInv ==
  ASSUME ReleaseInv, AdoptTag
  PROVE  ReleaseInv'
<1>1. pc = "adopt_tag"
  BY DEF AdoptTag
<1>2. pc' \in PCs \ (Opening \cup Cutting \cup Returning \cup Replacing)
  <2>1. pc' \in {Then[pc], "abort"}
    BY DEF AdoptTag
  <2>2. Then[pc] \in PCs \ (Opening \cup Cutting \cup Returning \cup Replacing)
    BY <1>1, PrepareSteps
  <2> QED
    BY <2>1, <2>2, Outside
<1>3. owned' \subseteq {"adoption dir", "adoption tags", "dir", "tags"}
  BY DEF AdoptTag, ReleaseInv, LockTyped
<1>4. LockKept
  BY <1>1, <1>2, <1>3, PreparingKeeps DEF AdoptTag
<1>5. tags' \in [Commits -> {"none", "some", "all"}]
  BY DEF AdoptTag, ReleaseInv, EvidenceTyped
<1>6. EvidenceTyped' /\ SiteTyped' /\ RecordsTyped'
  BY <1>5 DEF AdoptTag, ReleaseInv, EvidenceTyped, SiteTyped, RecordsTyped, pointers, site
<1> QED
  BY <1>1, <1>4, <1>6, JournalKept, InvHolds DEF AdoptTag

LEMMA BuildInv ==
  ASSUME ReleaseInv, Build
  PROVE  ReleaseInv'
<1>1. pc = "build"
  BY DEF Build
<1>2. LockKept
  BY <1>1, PrepareSteps, SucceedKeeps, FailKeeps DEF Build
<1>3. tags' \in [Commits -> {"none", "some", "all"}]
  BY DEF Build, ReleaseInv, EvidenceTyped
<1>4. EvidenceTyped' /\ SiteTyped' /\ RecordsTyped'
  BY <1>3 DEF Build, ReleaseInv, EvidenceTyped, SiteTyped, RecordsTyped, pointers, site
<1> QED
  BY <1>1, <1>2, <1>4, JournalKept, InvHolds DEF Build

LEMMA OwnInv ==
  ASSUME ReleaseInv, Own
  PROVE  ReleaseInv'
<1>1. pc \in {"built", "adopted", "publish"}
  BY DEF Own
<1>2. ASSUME Succeed \/ Fail PROVE LockKept
  BY <1>1, <1>2, PrepareSteps, SucceedKeeps, FailKeeps
<1>3. ASSUME ~ (Succeed \/ Fail) PROVE LockKept
  <2>1. /\ pc' = Then[pc] /\ op' = op /\ started' = started
        /\ owned' \subseteq {"adoption dir", "adoption tags", "dir", "tags"}
    BY <1>3 DEF Own, ReleaseInv, LockTyped
  <2> QED
    BY <1>1, <2>1, PrepareSteps, PreparingKeeps
<1>4. LockKept
  BY <1>2, <1>3
<1>5. EvidenceTyped' /\ SiteTyped' /\ RecordsTyped'
  BY DEF Own, ReleaseInv, EvidenceTyped, SiteTyped, RecordsTyped, evidence, pointers, site
<1> QED
  BY <1>1, <1>4, <1>5, JournalKept, InvHolds DEF Own

LEMMA WriteManifestInv ==
  ASSUME ReleaseInv, WriteManifest
  PROVE  ReleaseInv'
<1>1. pc \in {"manifest", "adopt_manifest"}
  BY DEF WriteManifest
<1>2. LockKept
  BY <1>1, PrepareSteps, SucceedKeeps, FailKeeps DEF WriteManifest
<1>3. op.from \in Commits
  BY <1>1 DEF ReleaseInv, OpKnown
<1>4. observed' \in [Commits -> Pointer]
  BY <1>3 DEF WriteManifest, ReleaseInv, EvidenceTyped, Pointer
<1>5. EvidenceTyped' /\ SiteTyped' /\ RecordsTyped'
  BY <1>4 DEF WriteManifest, ReleaseInv, EvidenceTyped, SiteTyped, RecordsTyped, pointers, site
<1> QED
  BY <1>1, <1>2, <1>5, JournalKept, InvHolds DEF WriteManifest

LEMMA WritePointerInv ==
  ASSUME ReleaseInv, WritePointer
  PROVE  ReleaseInv'
<1>1. pc \in {"pointer", "adopt_pointer"}
  BY DEF WritePointer
<1>2. LockKept
  BY <1>1, PrepareSteps, SucceedKeeps, FailKeeps DEF WritePointer
<1>3. op.from \in Commits /\ op.commit \in Commits
  BY <1>1 DEF ReleaseInv, OpKnown
<1>4. EvidenceTyped' /\ SiteTyped' /\ RecordsTyped'
  BY <1>3 DEF WritePointer, ReleaseInv, EvidenceTyped, SiteTyped, RecordsTyped, evidence, site,
              Pointer
<1> QED
  BY <1>1, <1>2, <1>4, JournalKept, InvHolds DEF WritePointer

LEMMA AbortInv ==
  ASSUME ReleaseInv, Abort
  PROVE  ReleaseInv'
<1>1. pc = "abort" /\ End("idle")
  BY DEF Abort
<1>2. LockKept
  BY <1>1, EndKeeps, Outside
<1>3. releases' \subseteq Commits /\ observed' \in [Commits -> Pointer]
      /\ tags' \in [Commits -> {"none", "some", "all"}]
  BY DEF Abort, ReleaseInv, EvidenceTyped, Pointer
<1>4. EvidenceTyped' /\ SiteTyped' /\ RecordsTyped'
  BY <1>3 DEF Abort, ReleaseInv, EvidenceTyped, SiteTyped, RecordsTyped, pointers, site
<1> QED
  BY <1>1, <1>2, <1>4, JournalKept, InvHolds DEF Abort

(* activate *)

LEMMA CutSteps ==
  ASSUME NEW p \in {"start", "back_start", "smoke", "back_smoke", "sync", "back_sync",
                    "marker", "back_marker", "previous", "back_previous", "current",
                    "back_current", "unadopt", "back_unadopt", "outcome", "back_outcome"}
  PROVE  /\ p \in DOMAIN Then /\ p \in Cutting \cup Returning
         /\ p \notin {"idle", "open", "done_journal"}
BY DEF Then, Cutting, Returning

LEMMA ActivateInv ==
  ASSUME ReleaseInv, NEW c \in Commits, NEW policy \in Policies, Activate(c, policy)
  PROVE  ReleaseInv'
<1>1. Active \in Commits /\ c # Active
  BY ActiveKnown DEF ReleaseInv, Activate
<1>2. pc' \in {"decide", "open"} /\ pc' \in PCs
      /\ pc' \notin Cutting \cup Returning \cup Replacing
  BY DEF Activate, PCs, Then, Cutting, Returning, Replacing
<1>3. op' \in Operations /\ op'.commit = c /\ op'.from = Active
  BY <1>1, NoOpTyped DEF Activate, Operations, NoOp, Pointer, ReleaseInv, SiteTyped
<1>4. started' \in 0 .. MaxOperations /\ started' # 0 /\ owned' = owned
  <2>1. started \in 0 .. MaxOperations /\ started < MaxOperations /\ started' = started + 1
    BY DEF Activate, MayStart, ReleaseInv, LockTyped
  <2>2. owned' = owned
    BY DEF Activate
  <2> QED
    BY <2>1, <2>2, ReleaseAssumption
<1>5. pc' = "decide" => op'.policy # "automatic"
  BY DEF Activate, NoOp
<1>6. LockKept
  BY <1>1, <1>2, <1>3, <1>4, <1>5 DEF LockKept, LockTyped, OpKnown, PolicyAllowed, ReleaseInv
<1>7. EvidenceTyped' /\ SiteTyped' /\ RecordsTyped' /\ JournalMatches'
  BY <1>2 DEF Activate, ReleaseInv, EvidenceTyped, SiteTyped, RecordsTyped, JournalMatches,
              evidence, pointers, site
<1> QED
  BY <1>6, <1>7, InvHolds

LEMMA DecideInv ==
  ASSUME ReleaseInv, Decide
  PROVE  ReleaseInv'
<1>1. pc = "decide" /\ pc \in DOMAIN Then
  BY DEF Decide, Then
<1>2. LockKept
  BY <1>1, SucceedKeeps, FailKeeps DEF Decide
<1>3. op.policy \in {"backward-compatible", "forward-only"}
  BY <1>1 DEF ReleaseInv, PolicyAllowed, LockTyped, Operations, Policies
<1>4. decisions' \in [Commits -> {None, "backward-compatible", "forward-only"}]
  BY <1>3 DEF Decide, ReleaseInv, SiteTyped
<1>5. EvidenceTyped' /\ SiteTyped' /\ RecordsTyped'
  BY <1>4 DEF Decide, ReleaseInv, EvidenceTyped, SiteTyped, RecordsTyped, evidence, pointers,
              site
<1> QED
  BY <1>1, <1>2, <1>5, JournalKept, InvHolds DEF Decide

\* The transaction that is opened.
Opened == [candidate |-> op.commit, previous |-> op.from, policy |-> op.policy,
           phase |-> "cutover_started", at |-> started]

LEMMA OpenedTyped ==
  ASSUME ReleaseInv, pc = "open"
  PROVE  Opened \in Transactions /\ Opened # None
<1>1. pc \in Opening
  BY DEF Opening
<1>2. started \in 0 .. MaxOperations /\ started # 0
  BY <1>1 DEF ReleaseInv, OpKnown, LockTyped
<1>3. op.commit \in Commits /\ op.from \in Commits /\ op.policy \in Policies
  BY <1>1 DEF ReleaseInv, OpKnown, LockTyped, Operations
<1>4. started \in 1 .. MaxOperations
  BY <1>2, ReleaseAssumption
<1>5. Opened \in Transactions
  BY <1>3, <1>4 DEF Opened, Transactions
<1> QED
  BY <1>5, NoneAssumption

LEMMA OpenJournalInv ==
  ASSUME ReleaseInv, OpenJournal
  PROVE  ReleaseInv'
<1>1. pc = "open" /\ pc \in DOMAIN Then /\ pc \in Opening
      /\ pc \notin Cutting \cup Returning \cup Replacing
  BY DEF OpenJournal, Then, Opening, Cutting, Returning, Replacing
<1>2. LockKept /\ (Fail => pc' \notin Cutting \cup Returning)
  BY <1>1, SucceedKeeps, FailKeeps DEF OpenJournal
<1>3. journal' = Opened \/ (journal' = journal /\ Fail)
  BY DEF OpenJournal, Opened
<1>4. EvidenceTyped' /\ SiteTyped' /\ RecordsTyped'
  BY <1>1, <1>3, OpenedTyped
     DEF OpenJournal, ReleaseInv, EvidenceTyped, SiteTyped, RecordsTyped, evidence, pointers, site
<1>5. JournalMatches'
  <2>1. Opened.policy = op.policy /\ Opened.previous = op.from
    BY DEF Opened
  <2> QED
    BY <1>1, <1>2, <1>3, <2>1, OpenedTyped DEF JournalMatches, LockKept
<1> QED
  BY <1>2, <1>4, <1>5, InvHolds

LEMMA StartServicesInv ==
  ASSUME ReleaseInv, StartServices
  PROVE  ReleaseInv'
<1>1. pc \in {"start", "back_start"}
  BY DEF StartServices
<1>2. LockKept
  BY <1>1, CutSteps, SucceedKeeps, FailKeeps DEF StartServices
<1>3. op.commit \in Commits /\ op.from \in Commits
  BY <1>1 DEF ReleaseInv, OpKnown
<1>4. EvidenceTyped' /\ SiteTyped' /\ RecordsTyped'
  BY <1>3 DEF StartServices, ReleaseInv, EvidenceTyped, SiteTyped, RecordsTyped, evidence,
              pointers
<1> QED
  BY <1>1, <1>2, <1>4, JournalKept, InvHolds DEF StartServices

LEMMA SmokeInv ==
  ASSUME ReleaseInv, Smoke
  PROVE  ReleaseInv'
<1>1. pc \in {"smoke", "back_smoke"}
  BY DEF Smoke
<1>2. ASSUME Succeed \/ Fail PROVE LockKept
  BY <1>1, <1>2, CutSteps, SucceedKeeps, FailKeeps
<1>3. ASSUME pc = "back_smoke", End("back_outcome") PROVE LockKept
  <2>1. /\ "back_outcome" \in PCs /\ "back_outcome" \in Returning
        /\ "back_outcome" \notin Opening \cup Replacing /\ "back_smoke" \in Returning
    BY DEF PCs, Then, Returning, Opening, Replacing
  <2> QED
    BY <1>3, <2>1, EndKeeps DEF ReleaseInv, PolicyAllowed
<1>4. ASSUME pc = "smoke", pc' = "failed", op' = [op EXCEPT !.stage = "service_state"],
             UNCHANGED <<owned, started>>
      PROVE  LockKept
  <2>1. /\ op' \in Operations /\ op'.policy = op.policy
        /\ op'.from = op.from /\ op'.commit = op.commit
    BY <1>4 DEF ReleaseInv, LockTyped, Operations, Stages
  <2>2. "smoke" \in Cutting /\ "failed" \notin Returning \cup Replacing
    BY DEF Cutting, Returning, Replacing
  <2> QED
    BY <1>4, <2>1, <2>2, Outside
       DEF LockKept, LockTyped, OpKnown, PolicyAllowed, ReleaseInv
<1>5. LockKept
  BY <1>2, <1>3, <1>4 DEF Smoke
<1>6. EvidenceTyped' /\ SiteTyped' /\ RecordsTyped'
  BY DEF Smoke, ReleaseInv, EvidenceTyped, SiteTyped, RecordsTyped, evidence, pointers, site
<1> QED
  BY <1>1, <1>5, <1>6, JournalKept, InvHolds DEF Smoke

LEMMA PublishInv ==
  ASSUME ReleaseInv,
         SyncRoot \/ PublishMarker \/ PublishPrevious \/ PublishCurrent \/ RemoveAdoption
  PROVE  ReleaseInv'
<1>1. pc \in {"sync", "back_sync", "marker", "back_marker", "previous", "back_previous",
              "current", "back_current", "unadopt", "back_unadopt"}
  BY DEF SyncRoot, PublishMarker, PublishPrevious, PublishCurrent, RemoveAdoption
<1>2. LockKept
  BY <1>1, CutSteps, SucceedKeeps, FailKeeps
     DEF SyncRoot, PublishMarker, PublishPrevious, PublishCurrent, RemoveAdoption
<1>3. op.commit \in Commits /\ op.from \in Commits /\ op.obsolete \in Pointer
  BY <1>1 DEF ReleaseInv, OpKnown, LockTyped, Operations
<1>4. EvidenceTyped' /\ RecordsTyped' /\ journal' = journal
  BY DEF SyncRoot, PublishMarker, PublishPrevious, PublishCurrent, RemoveAdoption, ReleaseInv,
         EvidenceTyped, RecordsTyped, evidence
<1>5. SiteTyped'
  BY <1>3 DEF SyncRoot, PublishMarker, PublishPrevious, PublishCurrent, RemoveAdoption,
              ReleaseInv, SiteTyped, Pointer, pointers, site
<1> QED
  BY <1>1, <1>2, <1>4, <1>5, JournalKept, InvHolds

LEMMA RecordTyped ==
  ASSUME ReleaseInv, journal # None, NEW status \in Statuses, Record(status)
  PROVE  history' \in Seq(Outcomes)
<1>1. journal \in Transactions
  BY DEF ReleaseInv, RecordsTyped
<1>2. [candidate |-> journal.candidate, previous |-> journal.previous,
       status |-> status, at |-> journal.at] \in Outcomes
  BY <1>1 DEF Transactions, Outcomes
<1> QED
  BY <1>2 DEF Record, ReleaseInv, RecordsTyped

LEMMA OutcomeInv ==
  ASSUME ReleaseInv, RecordSuccess \/ CandidateFailed \/ RollbackFailed \/ RecordRollback
  PROVE  ReleaseInv'
<1>1. pc \in {"outcome", "failed", "lost", "back_outcome"}
      /\ pc \in Cutting \cup Returning /\ pc # "open" /\ pc # "idle"
  BY DEF RecordSuccess, CandidateFailed, RollbackFailed, RecordRollback, Cutting, Returning
<1>2. journal # None /\ Statuses = {"succeeded", "rolled back", "rollback failed", "forward only"}
  BY <1>1 DEF ReleaseInv, JournalMatches, Statuses
<1>3. ASSUME pc \in {"outcome", "back_outcome"}, Succeed \/ Fail PROVE LockKept
  BY <1>3, CutSteps, SucceedKeeps, FailKeeps
<1>4. ASSUME End("idle") PROVE LockKept
  BY <1>1, <1>4, EndKeeps, Outside
<1>5. ASSUME End("back_start"), op.policy # "forward-only" PROVE LockKept
  <2>1. "back_start" \in PCs /\ "back_start" \notin Opening \cup Replacing
    BY DEF PCs, Then, Opening, Replacing
  <2> QED
    BY <1>1, <1>5, <2>1, EndKeeps
<1>6. LockKept
  BY <1>3, <1>4, <1>5 DEF RecordSuccess, CandidateFailed, RollbackFailed, RecordRollback
<1>7. history' \in Seq(Outcomes)
  BY <1>2, RecordTyped
     DEF RecordSuccess, CandidateFailed, RollbackFailed, RecordRollback, ReleaseInv, RecordsTyped
<1>8. EvidenceTyped' /\ SiteTyped' /\ RecordsTyped' /\ journal' = journal
  BY <1>7 DEF RecordSuccess, CandidateFailed, RollbackFailed, RecordRollback, ReleaseInv,
              EvidenceTyped, SiteTyped, RecordsTyped, evidence, pointers, site
<1> QED
  BY <1>1, <1>6, <1>8, JournalKept, InvHolds

LEMMA KillInv ==
  ASSUME ReleaseInv, Kill
  PROVE  ReleaseInv'
<1>1. LockKept
  BY EndKeeps, Outside DEF Kill
<1>2. EvidenceTyped' /\ SiteTyped' /\ RecordsTyped' /\ pc' = "idle"
  BY DEF Kill, End, ReleaseInv, EvidenceTyped, SiteTyped, RecordsTyped, evidence, pointers, site
<1> QED
  BY <1>1, <1>2, Outside, InvHolds DEF JournalMatches

LEMMA LockFree ==
  ASSUME ReleaseInv, Expire \/ UNCHANGED vars
  PROVE  ReleaseInv'
BY DEF Expire, vars, ReleaseInv, LockTyped, EvidenceTyped, SiteTyped, RecordsTyped, OpKnown,
       JournalMatches, PolicyAllowed, lock, evidence, pointers, site

-----------------------------------------------------------------------------
(* The invariant is inductive.                                             *)

LEMMA InitInv ==
  Init => ReleaseInv
<1> SUFFICES ASSUME Init PROVE ReleaseInv
  OBVIOUS
<1>1. LockTyped
  <2>1. started \in 0 .. MaxOperations
    BY ReleaseAssumption DEF Init
  <2> QED
    BY <2>1, NoOpTyped, Outside DEF Init, LockTyped
<1>2. EvidenceTyped /\ SiteTyped /\ RecordsTyped
  <2>1. EvidenceTyped
    BY DEF Init, EvidenceTyped, Pointer
  <2>2. SiteTyped
    BY ReleaseAssumption DEF Init, SiteTyped, Pointer
  <2>3. RecordsTyped
    BY DEF Init, RecordsTyped
  <2> QED
    BY <2>1, <2>2, <2>3
<1>3. OpKnown /\ JournalMatches /\ PolicyAllowed
  BY Outside DEF Init, OpKnown, JournalMatches, PolicyAllowed
<1> QED
  BY <1>1, <1>2, <1>3 DEF ReleaseInv

LEMMA StepInv ==
  ReleaseInv /\ [Next]_vars => ReleaseInv'
<1> SUFFICES ASSUME ReleaseInv, [Next]_vars PROVE ReleaseInv'
  OBVIOUS
<1>1. CASE \E c \in Commits, retry \in BOOLEAN : Prepare(c, retry)
  BY <1>1, PrepareInv
<1>2. CASE \E c \in Commits, policy \in Policies : Activate(c, policy)
  BY <1>2, ActivateInv
<1>3. CASE RemoveStep
  BY <1>3, RemoveTagsInv, RemoveDirectoryInv, RemovePreparedInv, RemoveDecisionInv,
     RemoveJournalInv DEF RemoveStep
<1>4. CASE PrepareStep
  BY <1>4, ExpiryInv, ImportInv, ExtractInv, AdoptTagInv, BuildInv, OwnInv, WriteManifestInv,
     WritePointerInv, AbortInv DEF PrepareStep
<1>5. CASE ActivateStep
  BY <1>5, DecideInv, OpenJournalInv, WritePhaseInv, StartServicesInv, SmokeInv, PublishInv,
     OutcomeInv DEF ActivateStep
<1>6. CASE Expire \/ Kill \/ UNCHANGED vars
  BY <1>6, LockFree, KillInv
<1> QED
  BY <1>1, <1>2, <1>3, <1>4, <1>5, <1>6 DEF Next

LEMMA InvAlways == Spec => []ReleaseInv
BY InitInv, StepInv, PTL DEF Spec

(* Every variable keeps its type: no command writes a pointer to nothing,  *)
(* a record without a release or a phase the transaction does not know.    *)
THEOREM ReleaseTypeCorrect == Spec => []TypeOK
<1>1. ReleaseInv => TypeOK
  BY TypesSplit DEF ReleaseInv
<1> QED
  BY <1>1, InvAlways, PTL

(* Under a forward-only decision nothing starts the previous release again *)
(* (handle_candidate_failure).                                             *)
THEOREM NeverBack == Spec => ForwardOnlyStays
<1> DEFINE Stays == journal # None /\ journal.policy = "forward-only"
                      /\ running # journal.previous => running' # journal.previous
<1>1. ASSUME ReleaseInv, [Next]_vars PROVE Stays
  <2>1. CASE StartServices
    <3>1. /\ journal # None => journal.previous = op.from /\ journal.policy = op.policy
          /\ pc \in {"start", "back_start"}
      BY <1>1, <2>1 DEF StartServices, ReleaseInv, JournalMatches, Cutting, Returning
    <3>2. CASE pc = "start"
      <4>1. op.commit # op.from /\ op.from \in Commits
        BY <1>1, <3>2 DEF ReleaseInv, OpKnown, Cutting
      <4>2. running' \in {Mixed, op.commit, running}
        BY <2>1, <3>2 DEF StartServices
      <4> QED
        BY <3>1, <4>1, <4>2, ReleaseAssumption
    <3>3. CASE pc = "back_start"
      <4>1. op.policy # "forward-only"
        BY <1>1, <3>3 DEF ReleaseInv, PolicyAllowed, Returning
      <4> QED
        BY <3>1, <4>1
    <3> QED
      BY <3>1, <3>2, <3>3
  <2>2. CASE ~ StartServices
    <3>1. running' = running
      BY <1>1, <2>2
         DEF Next, vars, site, RemoveStep, PrepareStep, ActivateStep, Prepare, Activate, RemoveTags,
             RemoveDirectory, RemovePrepared, RemoveDecision, RemoveJournal, Expiry, Import, Extract,
             AdoptTag, Build, Own, WriteManifest, WritePointer, Abort, Decide, OpenJournal,
             WritePhase, Smoke, SyncRoot, PublishMarker, PublishPrevious, PublishCurrent,
             RemoveAdoption, RecordSuccess, CandidateFailed, RollbackFailed, RecordRollback,
             Expire, Kill
    <3> QED
      BY <3>1
  <2> QED
    BY <2>1, <2>2
<1>2. ReleaseInv /\ [Next]_vars => [Stays]_vars
  BY <1>1
<1> QED
  BY <1>2, InvAlways, PTL DEF Spec, ForwardOnlyStays

-----------------------------------------------------------------------------
(* What a transaction has reached, command by command.                     *)

\* The candidate runs; its cutover is complete.
Serving == {"smoke", "healthy", "sync_started", "sync", "sync_completed", "marker", "previous",
            "current", "unadopt", "published", "outcome", "done_prepared", "done_journal"}
Closing == {"done_prepared", "done_journal"}
\* Nothing but containers has been touched yet.
Early == {"start", "smoke", "healthy"}

\* On the way back: the pcs by which the previous release runs again, is the
\* source of the root, is in the marker, and each pointer is as it was.
Cleaning == {"back_outcome", "back_recovered", "clean_started", "clean_tags", "clean_tagless",
             "clean_removing", "clean_dir", "clean_removed", "clean_prepared",
             "clean_pointerless", "clean_journal"}
Recurrent == Cleaning \cup {"back_unadopt"}
Repointed == Recurrent \cup {"back_current"}
Remarked == Repointed \cup {"back_previous"}
Resynced == Remarked \cup {"back_marker"}
Restarted == Resynced \cup {"back_sync", "back_smoke"}

Untouched == /\ root = op.from /\ marker = op.from /\ previous = op.obsolete
             /\ ~ op.first => current = op.from

JournalNamed ==
  /\ pc \notin Cutting \cup Returning \cup {"idle"} => journal = None
  /\ pc \in Cutting \cup Returning => journal.candidate = op.commit

OpeningKnown ==
  pc \in Opening => op.from = Active /\ previous = op.obsolete /\ (~ op.first => current # None)

EarlyUntouched ==
  /\ pc \in Early => Untouched
  /\ pc \in {"failed", "back_start", "back_smoke"} /\ op.stage \notin {"root_sync", "marker_publish"}
       => Untouched

CutReached ==
  /\ pc \in Serving => running = op.commit
  /\ pc \in Closing =>
       root = op.commit /\ marker = op.commit /\ current = op.commit /\ previous = op.from

BackReached ==
  /\ pc \in Restarted => running = op.from
  /\ pc \in Resynced => root = op.from
  /\ pc \in Remarked => marker = op.from
  /\ pc \in Repointed => previous = op.obsolete
  /\ pc \in Recurrent => current = op.from

ServedInv ==
  /\ JournalNamed /\ OpeningKnown /\ EarlyUntouched /\ CutReached /\ BackReached
  /\ ServedIsRecorded


-----------------------------------------------------------------------------
(* Where a command leads among them.                                       *)

\* A step that is no command of the cutover or the way back gains no fact.
Lands ==
  /\ pc' \in Cutting \cup Returning => pc \in Cutting \cup Returning
  /\ pc' \notin Cutting \cup Returning \cup {"idle"} =>
       pc \notin Cutting \cup Returning \cup {"idle"}
  /\ pc' \in Opening => pc \in Opening
  /\ pc' \in Serving => pc \in Serving
  /\ pc' \in Closing => pc \in Closing
  /\ pc' \in Early => pc \in Early
  /\ pc' \in {"failed", "back_start", "back_smoke"}
       /\ op'.stage \notin {"root_sync", "marker_publish"} =>
       \/ pc \in Early
       \/ pc \in {"failed", "back_start", "back_smoke"} /\ op'.stage = op.stage
  /\ pc' \in Restarted => pc \in Restarted
  /\ pc' \in Resynced => pc \in Resynced
  /\ pc' \in Remarked => pc \in Remarked
  /\ pc' \in Repointed => pc \in Repointed
  /\ pc' \in Recurrent => pc \in Recurrent
  /\ pc' \in Opening \cup Cutting \cup Returning =>
       /\ op'.commit = op.commit /\ op'.from = op.from
       /\ op'.first = op.first /\ op'.obsolete = op.obsolete

LEMMA Inclusions ==
  /\ Closing \subseteq Serving /\ Early \subseteq Cutting /\ Serving \subseteq Cutting
  /\ Recurrent \subseteq Repointed /\ Repointed \subseteq Remarked /\ Remarked \subseteq Resynced
  /\ Resynced \subseteq Restarted /\ Restarted \subseteq Returning
  /\ {"back_start", "back_smoke"} \subseteq Returning
  /\ Opening \cap (Cutting \cup Returning) = {} /\ Cutting \cap Returning = {}
BY DEF Closing, Serving, Early, Cutting, Recurrent, Cleaning, Repointed, Remarked, Resynced,
       Restarted, Returning, Opening

LEMMA NowhereElse ==
  ASSUME NEW p \in {"idle", "abort", "lost", "expiry", "import"}
  PROVE  /\ p \notin Opening /\ p \notin Cutting /\ p \notin Early /\ p \notin Serving
         /\ p \notin Closing /\ p \notin {"failed", "back_start", "back_smoke"}
         /\ p \notin Restarted /\ p \notin Resynced /\ p \notin Remarked
         /\ p \notin Repointed /\ p \notin Recurrent
         /\ p \in Returning <=> p = "lost"
BY DEF Opening, Cutting, Returning, Closing, Restarted, Resynced, Remarked, Repointed, Recurrent, Cleaning, Early,
       Serving

LEMMA ThenReaches ==
  ASSUME NEW p \in DOMAIN Then
  PROVE  /\ Then[p] \in Serving => p \in Serving \cup {"start"}
         /\ Then[p] \in Closing => p \in Closing \cup {"outcome"}
         /\ Then[p] \in Early => p \in Early \cup {"open"}
         /\ Then[p] \in {"failed", "back_start", "back_smoke"} => p = "back_start"
BY DEF Then, Serving, Closing, Early

LEMMA ThenCloses ==
  ASSUME NEW p \in DOMAIN Then \ {"done_journal"}, p \in Cutting \cup Returning
  PROVE  Then[p] \in Cutting \cup Returning \cup {"idle"}
BY DEF Then, Cutting, Returning

LEMMA ThenReturns ==
  ASSUME NEW p \in DOMAIN Then
  PROVE  /\ Then[p] \in Restarted => p \in Restarted \cup {"back_start"}
         /\ Then[p] \in Resynced => p \in Resynced \cup {"back_sync"}
         /\ Then[p] \in Remarked => p \in Remarked \cup {"back_marker"}
         /\ Then[p] \in Repointed => p \in Repointed \cup {"back_previous"}
         /\ Then[p] \in Recurrent => p \in Recurrent \cup {"back_current"}
BY DEF Then, Restarted, Resynced, Remarked, Repointed, Recurrent, Cleaning

\* The commands after which something new holds.
Reaching == {"start", "outcome", "open", "back_start", "back_sync", "back_marker",
             "back_previous", "back_current", "done_journal"}

LEMMA SucceedLands ==
  ASSUME ReleaseInv, pc \in DOMAIN Then \ Reaching, Succeed
  PROVE  Lands
<1>1. pc' = Then[pc] /\ (pc' # "idle" => op' = op)
  BY DEF Succeed, End
<1>2. pc' = "idle" => pc' \notin Opening \cup Cutting \cup Returning
  BY Outside
<1>3. /\ Then[pc] \in Cutting \cup Returning => pc \in Cutting \cup Returning
      /\ Then[pc] \in Opening => pc \in Opening
  BY ThenStays DEF Reaching
<1>4. /\ Then[pc] \in Serving => pc \in Serving
      /\ Then[pc] \in Closing => pc \in Closing
      /\ Then[pc] \in Early => pc \in Early
      /\ Then[pc] \notin {"failed", "back_start", "back_smoke"}
  BY ThenReaches DEF Reaching
<1>5. /\ Then[pc] \in Restarted => pc \in Restarted
      /\ Then[pc] \in Resynced => pc \in Resynced
      /\ Then[pc] \in Remarked => pc \in Remarked
      /\ Then[pc] \in Repointed => pc \in Repointed
      /\ Then[pc] \in Recurrent => pc \in Recurrent
  BY ThenReturns DEF Reaching
<1>6. /\ Then[pc] \notin Cutting \cup Returning \cup {"idle"} => pc \notin Cutting \cup Returning
      /\ pc # "idle"
  <2>1. pc # "idle"
    BY DEF Then
  <2> QED
    BY <2>1, ThenCloses DEF Reaching
<1> QED
  BY <1>1, <1>2, <1>3, <1>4, <1>5, <1>6 DEF Lands

LEMMA IdleLands ==
  ASSUME pc' \in {"idle", "abort", "expiry", "import"},
         pc' # "idle" => pc \notin Cutting \cup Returning \cup {"idle"}
  PROVE  Lands
BY NowhereElse DEF Lands

LEMMA FailLands ==
  ASSUME ReleaseInv, pc # "idle", Fail
  PROVE  Lands
<1>1. CASE FailureOf(pc) = "failed"
  <2>1. pc \in DOMAIN StageAt
    BY <1>1 DEF FailureOf
  <2>2. pc \in Cutting /\ StageAt[pc] \in Stages
    BY <2>1, StagesStay
  <2>3. StageAt[pc] \notin {"root_sync", "marker_publish"} => pc \in Early
    BY <2>1 DEF StageAt, Early
  <2>4. pc' = "failed" /\ op' = [op EXCEPT !.stage = StageAt[pc]]
    BY <1>1 DEF Fail
  <2>5. /\ op'.commit = op.commit /\ op'.from = op.from /\ op'.stage = StageAt[pc]
        /\ op'.first = op.first /\ op'.obsolete = op.obsolete
    BY <2>2, <2>4 DEF ReleaseInv, LockTyped, Operations
  <2>6. "failed" \notin Opening \cup Serving \cup Early \cup Restarted /\ "failed" \in Cutting
    BY DEF Opening, Serving, Early, Restarted, Resynced, Remarked, Repointed, Recurrent, Cleaning,
           Cutting
  <2> QED
    BY <2>2, <2>3, <2>4, <2>5, <2>6, Inclusions DEF Lands
<1>2. CASE FailureOf(pc) = "lost"
  <2>1. pc \in Returning
    BY <1>2, Outside DEF FailureOf
  <2>2. pc' = "lost" /\ op' = op
    BY <1>2 DEF Fail, End
  <2> QED
    BY <2>1, <2>2, NowhereElse DEF Lands
<1>3. CASE FailureOf(pc) \in {"idle", "abort"}
  <2>1. pc' \in {"idle", "abort"}
    BY <1>3 DEF Fail, End
  <2>2. pc' = "abort" => pc \in Preparing
    BY <1>3 DEF Fail, End, FailureOf
  <2>3. Preparing \cap (Cutting \cup Returning) = {}
    BY DEF Preparing, Cutting, Returning
  <2> QED
    BY <2>1, <2>2, <2>3, IdleLands
<1> QED
  BY <1>1, <1>2, <1>3 DEF FailureOf

-----------------------------------------------------------------------------
(* What is served is what is recorded.                                     *)

Sites == <<root, running, marker, current, previous>>

LEMMA ServedStays ==
  ASSUME ReleaseInv, ServedInv, Lands, UNCHANGED Sites,
         \/ journal' = journal
         \/ journal # None /\ journal' # None /\ journal'.candidate = journal.candidate
  PROVE  ServedInv' 
<1>1. /\ JournalNamed /\ OpeningKnown /\ EarlyUntouched /\ CutReached /\ BackReached
      /\ ServedIsRecorded
  BY DEF ServedInv
<1>2. UNCHANGED <<root, running, marker, current, previous>> /\ Active' = Active
  BY DEF Sites, Active
<1>3. OpeningKnown'
  BY <1>1, <1>2 DEF OpeningKnown, Lands
<1>4. EarlyUntouched'
  <2>1. Untouched /\ pc' \in Cutting \cup Returning => Untouched'
    BY <1>2 DEF Untouched, Lands
  <2>2. pc' \in Early => Untouched'
    BY <1>1, <2>1, Inclusions DEF EarlyUntouched, Lands
  <2>3. pc' \in {"failed", "back_start", "back_smoke"}
          /\ op'.stage \notin {"root_sync", "marker_publish"} => Untouched'
    <3>1. {"failed", "back_start", "back_smoke"} \subseteq Cutting \cup Returning
      BY Outside, Inclusions
    <3> QED
      BY <1>1, <2>1, <3>1 DEF EarlyUntouched, Lands
  <2> QED
    BY <2>2, <2>3 DEF EarlyUntouched
<1>5. CutReached'
  BY <1>1, <1>2, Inclusions DEF CutReached, Lands
<1>6. BackReached'
  BY <1>1, <1>2, Inclusions DEF BackReached, Lands
<1>7. JournalNamed' /\ ServedIsRecorded'
  <2>1. ServedIsRecorded'
    BY <1>1, <1>2 DEF ServedIsRecorded
  <2>2. pc' \in Cutting \cup Returning => journal'.candidate = op'.commit
    BY <1>1 DEF JournalNamed, Lands
  <2>3. pc' \notin Cutting \cup Returning \cup {"idle"} => journal' = None
    BY <1>1 DEF JournalNamed, Lands
  <2> QED
    BY <2>1, <2>2, <2>3 DEF JournalNamed
<1> QED
  BY <1>3, <1>4, <1>5, <1>6, <1>7 DEF ServedInv

LEMMA AsideLands ==
  ASSUME pc' \notin Opening \cup Cutting \cup Returning,
         pc' # "idle" => pc \notin Cutting \cup Returning \cup {"idle"}
  PROVE  Lands
<1>1. pc' \notin Restarted /\ pc' \notin Serving /\ pc' \notin Early
      /\ pc' \notin {"failed", "back_start", "back_smoke"}
  BY Inclusions, Outside
<1>2. pc' \notin Closing /\ pc' \notin Resynced /\ pc' \notin Remarked /\ pc' \notin Repointed
      /\ pc' \notin Recurrent
  <2>1. /\ Closing \subseteq Serving /\ Resynced \subseteq Restarted
        /\ Remarked \subseteq Resynced /\ Repointed \subseteq Remarked
        /\ Recurrent \subseteq Repointed
    BY Inclusions
  <2> QED
    BY <1>1, <2>1
<1> QED
  BY <1>1, <1>2 DEF Lands

(* A prepare never enters a cutover.                                       *)
LEMMA PrepareLeads ==
  ASSUME PrepareStep
  PROVE  {pc, pc'} \cap (Opening \cup Cutting \cup Returning) = {} /\ pc # "idle"
<1> DEFINE Aside == {"expired_tags", "import", "extract", "adopt_extract", "abort", "idle",
                     "adopt_tag", "adopt_manifest", "adopt_pointer", "adopted", "build", "built",
                     "manifest", "pointer", "publish", "expiry"}
<1>2. Aside \cap (Opening \cup Cutting \cup Returning) = {}
  BY DEF Opening, Cutting, Returning
<1>3. pc \in Aside \ {"idle"} /\ pc # "idle"
  BY DEF PrepareStep, Expiry, Import, Extract, AdoptTag, Build, Own, WriteManifest, WritePointer,
         Abort
<1>4. ASSUME Fail, pc # "abort" PROVE pc' \in Aside
  <2>1. FailureOf(pc) = "abort"
    BY <1>3, <1>4 DEF FailureOf, Preparing
  <2> QED
    BY <1>4, <2>1 DEF Fail, End
<1>5. ASSUME pc \in {"extract", "adopt_extract", "adopt_tag", "built", "adopted", "build",
                     "manifest", "adopt_manifest", "pointer", "adopt_pointer", "publish"}
      PROVE  Then[pc] \in Aside
  BY <1>5 DEF Then
<1>6. pc' \in Aside
  <2>1. CASE Expiry
    BY <1>4, <2>1 DEF Expiry, End
  <2>2. CASE Import
    BY <1>4, <2>2 DEF Import, End
  <2>3. CASE Extract \/ AdoptTag \/ Build \/ Own \/ WriteManifest \/ WritePointer
    <3>1. /\ pc \in {"extract", "adopt_extract", "adopt_tag", "built", "adopted", "build",
                     "manifest", "adopt_manifest", "pointer", "adopt_pointer", "publish"}
          /\ pc' \in {Then[pc], "abort"} \/ Fail
      BY <2>3 DEF Extract, AdoptTag, Build, Own, WriteManifest, WritePointer, Succeed, End
    <3> QED
      BY <1>4, <1>5, <3>1
  <2>4. CASE Abort
    BY <2>4 DEF Abort, End
  <2> QED
    BY <2>1, <2>2, <2>3, <2>4 DEF PrepareStep
<1> HIDE DEF Aside
<1> QED
  BY <1>2, <1>3, <1>6

LEMMA ServedPrepareSteps ==
  ASSUME ReleaseInv, ServedInv, PrepareStep
  PROVE  ServedInv'
<1>1. UNCHANGED Sites /\ journal' = journal
  BY DEF PrepareStep, Expiry, Import, Extract, AdoptTag, Build, Own, WriteManifest, WritePointer,
         Abort, Sites, site, pointers
<1>2. Lands
  BY PrepareLeads, AsideLands
<1> QED
  BY <1>1, <1>2, ServedStays

(* The commands of a cleanup, and what else leaves the site alone.         *)
LEMMA ServedQuietSteps ==
  ASSUME ReleaseInv, ServedInv,
         \/ RemoveTags \/ RemoveDirectory \/ RemovePrepared \/ RemoveDecision \/ WritePhase
         \/ Decide \/ RemoveAdoption \/ RecordRollback \/ RollbackFailed \/ Kill
  PROVE  ServedInv'
<1>1. UNCHANGED Sites
  BY DEF RemoveTags, RemoveDirectory, RemovePrepared, RemoveDecision, WritePhase, Decide,
         RemoveAdoption, RecordRollback, RollbackFailed, Kill, Sites, site, pointers
<1>2. \/ journal' = journal
      \/ journal # None /\ journal' # None /\ journal'.candidate = journal.candidate
  <2>1. CASE WritePhase
    <3>1. pc \in DOMAIN PhaseAt /\ pc \in Cutting \cup Returning
      BY <2>1, PhasesStay DEF WritePhase
    <3>2. journal \in Transactions /\ journal # None
      BY <3>1 DEF ReleaseInv, JournalMatches, RecordsTyped
    <3> DEFINE later == [journal EXCEPT !.phase = PhaseAt[pc]]
    <3>3. later \in Transactions /\ later.candidate = journal.candidate
      BY <3>1, <3>2 DEF Transactions
    <3>4. later # None
      BY <3>3, NoneAssumption
    <3> QED
      BY <2>1, <3>2, <3>3, <3>4 DEF WritePhase
  <2>2. CASE ~ WritePhase
    BY <2>2 DEF RemoveTags, RemoveDirectory, RemovePrepared, RemoveDecision, Decide,
                RemoveAdoption, RecordRollback, RollbackFailed, Kill
  <2> QED
    BY <2>1, <2>2
<1>3. Lands
  <2>1. CASE RemoveTags \/ RemoveDirectory \/ RemovePrepared \/ RemoveDecision \/ WritePhase
             \/ Decide \/ RemoveAdoption \/ RecordRollback
    <3>1. pc \in {"retry_tags", "expired_tags", "clean_tags", "superseded_tags", "retry_dir",
                  "expired_dir", "clean_dir", "superseded_dir", "retry_prepared",
                  "expired_prepared", "clean_prepared", "done_prepared", "retry_decision",
                  "expired_decision", "decide", "unadopt", "back_unadopt", "back_outcome"}
            \/ pc \in DOMAIN PhaseAt
      BY <2>1 DEF RemoveTags, RemoveDirectory, RemovePrepared, RemoveDecision, WritePhase, Decide,
                  RemoveAdoption, RecordRollback
    <3>2. Succeed \/ Fail
      BY <2>1 DEF RemoveTags, RemoveDirectory, RemovePrepared, RemoveDecision, WritePhase,
                  Decide, RemoveAdoption, RecordRollback
    <3>3. pc \in DOMAIN PhaseAt => pc \in DOMAIN Then /\ pc \notin Reaching \cup {"idle"}
      BY DEF Then, Reaching, PhaseAt
    <3>4. pc \notin DOMAIN PhaseAt => pc \in DOMAIN Then /\ pc \notin Reaching \cup {"idle"}
      BY <3>1 DEF Then, Reaching
    <3> QED
      BY <3>2, <3>3, <3>4, SucceedLands, FailLands
  <2>2. CASE RollbackFailed \/ Kill
    <3>1. pc' = "idle"
      BY <2>2 DEF RollbackFailed, Kill, End
    <3> QED
      BY <3>1, IdleLands
  <2> QED
    BY <2>1, <2>2
<1> QED
  BY <1>1, <1>2, <1>3, ServedStays

(* The commands of the cutover.                                            *)
LEMMA ForwardReached ==
  ASSUME ReleaseInv, ServedInv, pc \in {"sync", "marker", "previous", "current"},
         Succeed \/ Fail, running' = running, journal' = journal
  PROVE  ServedInv'
<1>1. /\ pc \in Cutting /\ pc \in Serving /\ pc \in DOMAIN StageAt /\ FailureOf(pc) = "failed"
      /\ StageAt[pc] \in {"root_sync", "marker_publish"}
      /\ Then[pc] \in {"sync_completed", "previous", "current", "unadopt"}
  BY DEF Cutting, Serving, StageAt, FailureOf, Preparing, Then
<1>2. \/ pc' = "failed" /\ op' = [op EXCEPT !.stage = StageAt[pc]]
      \/ pc' \in {"sync_completed", "previous", "current", "unadopt"} /\ op' = op
  BY <1>1 DEF Succeed, Fail, End
<1>3. /\ op'.commit = op.commit /\ op'.from = op.from
      /\ pc' = "failed" => op'.stage \in {"root_sync", "marker_publish"}
  BY <1>1, <1>2 DEF ReleaseInv, LockTyped, Operations
<1>4. /\ pc' \in Cutting /\ pc' \notin Opening /\ pc' \notin Closing /\ pc' \notin Early
      /\ pc' \notin Restarted /\ pc' \notin {"back_start", "back_smoke"}
      /\ pc' = "failed" \/ pc' \in Serving
  BY <1>2 DEF Cutting, Opening, Closing, Early, Serving, Restarted, Resynced, Remarked, Repointed,
              Recurrent, Cleaning
<1>5. journal # None /\ journal.candidate = op.commit /\ running = op.commit
  BY <1>1 DEF ReleaseInv, JournalMatches, ServedInv, JournalNamed, CutReached
<1>6. JournalNamed' /\ OpeningKnown' /\ ServedIsRecorded' /\ EarlyUntouched'
  BY <1>3, <1>4, <1>5 DEF JournalNamed, OpeningKnown, ServedIsRecorded, EarlyUntouched
<1>7. CutReached'
  <2>1. pc' = "failed" => pc' \notin Serving
    BY DEF Serving
  <2> QED
    BY <1>3, <1>4, <1>5, <2>1 DEF CutReached
<1>8. BackReached'
  BY <1>4, Inclusions DEF BackReached
<1> QED
  BY <1>6, <1>7, <1>8 DEF ServedInv

LEMMA LostReached ==
  ASSUME ReleaseInv, ServedInv, pc \in Reversing, Fail, journal' = journal
  PROVE  ServedInv'
<1>1. pc' = "lost" /\ op' = op /\ pc \in Returning
  <2>1. FailureOf(pc) = "lost"
    BY DEF FailureOf, Reversing, Preparing, StageAt
  <2> QED
    BY <2>1, Outside DEF Fail, End
<1>2. journal # None /\ journal.candidate = op.commit
  BY <1>1 DEF ReleaseInv, JournalMatches, ServedInv, JournalNamed
<1>3. /\ pc' \in Returning /\ pc' \notin Opening /\ pc' \notin Early /\ pc' \notin Serving
      /\ pc' \notin Closing /\ pc' \notin {"failed", "back_start", "back_smoke"}
      /\ pc' \notin Restarted /\ pc' \notin Resynced /\ pc' \notin Remarked
      /\ pc' \notin Repointed /\ pc' \notin Recurrent
  BY <1>1, NowhereElse
<1> QED
  BY <1>1, <1>2, <1>3
     DEF ServedInv, JournalNamed, OpeningKnown, EarlyUntouched, CutReached, BackReached,
         ServedIsRecorded

(* The commands of the way back that succeed.                              *)
LEMMA BackwardReached ==
  ASSUME ReleaseInv, ServedInv, journal' = journal, Succeed,
         \/ pc = "back_sync" /\ root' = op.from /\ UNCHANGED <<running, marker, current, previous>>
         \/ pc = "back_marker" /\ marker' = op.from
              /\ UNCHANGED <<root, running, current, previous>>
         \/ pc = "back_previous" /\ previous' = op.obsolete
              /\ UNCHANGED <<root, running, marker, current>>
         \/ pc = "back_current" /\ current' = op.from
              /\ UNCHANGED <<root, running, marker, previous>>
  PROVE  ServedInv'
<1>1. /\ pc = "back_sync" => pc' = "back_marker"
      /\ pc = "back_marker" => pc' = "back_previous"
      /\ pc = "back_previous" => pc' = "back_current"
      /\ pc = "back_current" => pc' = "back_unadopt"
  BY DEF Succeed, End, Then
<1>2. op' = op
  BY <1>1 DEF Succeed, End
<1>3. /\ pc \in Returning /\ pc' \in Returning
      /\ pc' \notin Opening /\ pc' \notin Early /\ pc' \notin Serving
      /\ pc' \notin Closing /\ pc' \notin {"failed", "back_start", "back_smoke"}
  BY <1>1 DEF Returning, Opening, Early, Serving, Closing
<1>4. journal # None /\ journal.candidate = op.commit
  BY <1>3 DEF ReleaseInv, JournalMatches, ServedInv, JournalNamed
<1>5. BackReached'
  <2>1. /\ pc \in Restarted
        /\ pc' \in Resynced => pc \in Resynced \/ pc = "back_sync"
        /\ pc' \in Remarked => pc \in Remarked \/ pc = "back_marker"
        /\ pc' \in Repointed => pc \in Repointed \/ pc = "back_previous"
        /\ pc' \in Recurrent => pc \in Recurrent \/ pc = "back_current"
    BY <1>1, ThenReturns DEF Restarted, Resynced, Remarked, Repointed, Recurrent, Cleaning
  <2>2. BackReached
    BY DEF ServedInv
  <2>3. running' = op'.from
    BY <1>2, <2>1, <2>2 DEF BackReached
  <2>4. pc' \in Resynced => root' = op'.from
    BY <1>2, <2>1, <2>2 DEF BackReached
  <2>5. pc' \in Remarked => marker' = op'.from
    BY <1>2, <2>1, <2>2 DEF BackReached
  <2>6. pc' \in Repointed => previous' = op'.obsolete
    BY <1>2, <2>1, <2>2 DEF BackReached
  <2>7. pc' \in Recurrent => current' = op'.from
    BY <1>2, <2>1, <2>2 DEF BackReached
  <2> QED
    BY <2>3, <2>4, <2>5, <2>6, <2>7 DEF BackReached
<1> QED
  BY <1>2, <1>3, <1>4, <1>5
     DEF ServedInv, JournalNamed, OpeningKnown, EarlyUntouched, CutReached, ServedIsRecorded

LEMMA ServedSiteSteps ==
  ASSUME ReleaseInv, ServedInv, SyncRoot \/ PublishMarker \/ PublishPrevious \/ PublishCurrent
  PROVE  ServedInv'
<1>1. journal' = journal /\ running' = running
  BY DEF SyncRoot, PublishMarker, PublishPrevious, PublishCurrent, site
<1>2. Succeed \/ Fail
  BY DEF SyncRoot, PublishMarker, PublishPrevious, PublishCurrent
<1>3. CASE pc \in {"sync", "marker", "previous", "current"}
  BY <1>1, <1>2, <1>3, ForwardReached
<1>4. CASE pc \notin {"sync", "marker", "previous", "current"}
  <2>1. pc \in {"back_sync", "back_marker", "back_previous", "back_current"}
    BY <1>4 DEF SyncRoot, PublishMarker, PublishPrevious, PublishCurrent
  <2>2. CASE Fail
    BY <1>1, <2>1, <2>2, LostReached DEF Reversing
  <2>3. CASE Succeed /\ ~ Fail
    <3>1. \/ pc = "back_sync" /\ root' = op.from /\ UNCHANGED <<running, marker, current, previous>>
          \/ pc = "back_marker" /\ marker' = op.from
               /\ UNCHANGED <<root, running, current, previous>>
          \/ pc = "back_previous" /\ previous' = op.obsolete
               /\ UNCHANGED <<root, running, marker, current>>
          \/ pc = "back_current" /\ current' = op.from
               /\ UNCHANGED <<root, running, marker, previous>>
      BY <2>1, <2>3 DEF SyncRoot, PublishMarker, PublishPrevious, PublishCurrent, site, pointers
    <3> QED
      BY <1>1, <2>3, <3>1, BackwardReached
  <2> QED
    BY <1>2, <2>2, <2>3
<1> QED
  BY <1>3, <1>4

LEMMA ServedOpen ==
  ASSUME ReleaseInv, ServedInv, OpenJournal
  PROVE  ServedInv'
<1>1. /\ pc = "open" /\ pc \in Opening /\ journal = None
      /\ root = op.from /\ marker = op.from /\ previous = op.obsolete
      /\ ~ op.first => current = op.from
  <2>1. pc = "open" /\ pc \in Opening /\ pc \notin Cutting \cup Returning \cup {"idle"}
    BY DEF OpenJournal, Opening, Cutting, Returning
  <2> QED
    BY <2>1 DEF ServedInv, JournalNamed, OpeningKnown, ServedIsRecorded, Active
<1>2. UNCHANGED Sites
  BY DEF OpenJournal, Sites, site, pointers
<1>3. CASE Fail /\ journal' = journal
  <2>1. Lands
    BY <1>1, <1>3, FailLands
  <2> QED
    BY <1>2, <1>3, <2>1, ServedStays
<1>4. CASE journal' = Opened /\ (Succeed \/ Fail)
  <2>1. Succeed \/ Fail
    BY <1>4
  <2>2. journal' # None /\ journal'.candidate = op.commit
    <3>1. Opened.candidate = op.commit
      BY DEF Opened
    <3> QED
      BY <1>1, <1>4, <3>1, OpenedTyped
  <2>3. CASE Succeed
    <3>1. pc' = "start" /\ op' = op
      BY <1>1, <2>3 DEF Succeed, End, Then
    <3>2. /\ pc' \in Cutting /\ pc' \in Early /\ pc' \notin Opening /\ pc' \notin Serving
          /\ pc' \notin Closing /\ pc' \notin {"failed", "back_start", "back_smoke"}
          /\ pc' \notin Restarted
      BY <3>1 DEF Cutting, Early, Opening, Serving, Closing, Restarted, Resynced, Remarked,
                  Repointed, Recurrent, Cleaning
    <3>3. Untouched'
      BY <1>1, <1>2, <3>1 DEF Untouched, Sites
    <3>4. BackReached'
      BY <3>2, Inclusions DEF BackReached
    <3> QED
      BY <2>2, <3>1, <3>2, <3>3, <3>4
         DEF ServedInv, JournalNamed, OpeningKnown, EarlyUntouched, CutReached, ServedIsRecorded
  <2>4. CASE Fail
    <3>1. pc' = "idle"
      BY <1>1, <2>4 DEF Fail, FailureOf, Preparing, StageAt, Reversing, End
    <3>2. /\ pc' \notin Opening /\ pc' \notin Early /\ pc' \notin Serving
          /\ pc' \notin Closing /\ pc' \notin {"failed", "back_start", "back_smoke"}
          /\ pc' \notin Restarted /\ pc' \notin Resynced /\ pc' \notin Remarked
          /\ pc' \notin Repointed /\ pc' \notin Recurrent
          /\ pc' \notin Cutting /\ pc' \notin Returning
      BY <3>1, NowhereElse
    <3> QED
      BY <2>2, <3>1, <3>2
         DEF ServedInv, JournalNamed, OpeningKnown, EarlyUntouched, CutReached, BackReached,
             ServedIsRecorded
  <2> QED
    BY <2>1, <2>3, <2>4
<1> QED
  BY <1>3, <1>4 DEF OpenJournal, Opened

LEMMA ServedStart ==
  ASSUME ReleaseInv, ServedInv, StartServices
  PROVE  ServedInv'
<1>1. UNCHANGED <<journal, root, marker, current, previous>>
  BY DEF StartServices, pointers
<1>2. journal # None /\ journal.candidate = op.commit
  <2>1. pc \in Cutting \cup Returning
    BY DEF StartServices, Cutting, Returning
  <2> QED
    BY <2>1 DEF ReleaseInv, JournalMatches, ServedInv, JournalNamed
<1>3. CASE pc = "start"
  <2>1. pc \in Early /\ Untouched
    BY <1>3 DEF Early, ServedInv, EarlyUntouched
  <2>2. \/ pc' = "smoke" /\ op' = op /\ running' = op.commit
        \/ pc' = "failed" /\ op' = [op EXCEPT !.stage = "compose_wait"]
    <3>1. Then["start"] = "smoke" /\ FailureOf("start") = "failed" /\ StageAt["start"] = "compose_wait"
      BY DEF Then, FailureOf, Preparing, StageAt
    <3> QED
      BY <1>3, <3>1 DEF StartServices, Succeed, Fail, End
  <2>3. /\ op'.commit = op.commit /\ op'.from = op.from /\ op'.first = op.first
        /\ op'.obsolete = op.obsolete
    BY <2>2 DEF ReleaseInv, LockTyped, Operations
  <2>4. Untouched'
    BY <1>1, <2>1, <2>3 DEF Untouched
  <2>5. /\ pc' \in Cutting /\ pc' \notin Opening /\ pc' \notin Closing /\ pc' \notin Restarted
        /\ pc' = "smoke" \/ pc' \notin Serving
    BY <2>2 DEF Cutting, Opening, Serving, Closing, Restarted, Resynced, Remarked, Repointed,
                Recurrent, Cleaning
  <2>6. BackReached'
    BY <2>5, Inclusions DEF BackReached
  <2> QED
    BY <1>1, <1>2, <2>2, <2>3, <2>4, <2>5, <2>6
       DEF ServedInv, JournalNamed, OpeningKnown, EarlyUntouched, CutReached, ServedIsRecorded
<1>4. CASE pc = "back_start" /\ Fail
  BY <1>1, <1>4, LostReached DEF Reversing
<1>5. CASE pc = "back_start" /\ ~ Fail
  <2>1. pc' = "back_smoke" /\ op' = op /\ running' = op.from
    BY <1>5 DEF StartServices, Succeed, End, Then
  <2>2. /\ pc' \in Returning /\ pc' \in Restarted /\ pc' \notin Resynced
        /\ pc' \notin Remarked /\ pc' \notin Repointed /\ pc' \notin Recurrent
        /\ pc' \notin Opening /\ pc' \notin Early /\ pc' \notin Serving /\ pc' \notin Closing
    BY <2>1 DEF Returning, Opening, Early, Serving, Closing, Restarted, Resynced, Remarked,
                Repointed, Recurrent, Cleaning
  <2>3. Untouched => Untouched'
    BY <1>1, <2>1 DEF Untouched
  <2> QED
    BY <1>1, <1>2, <1>5, <2>1, <2>2, <2>3
       DEF ServedInv, JournalNamed, OpeningKnown, EarlyUntouched, CutReached, BackReached,
           ServedIsRecorded
<1> QED
  BY <1>3, <1>4, <1>5 DEF StartServices

LEMMA ServedSmoke ==
  ASSUME ReleaseInv, ServedInv, Smoke
  PROVE  ServedInv'
<1>1. UNCHANGED Sites /\ journal' = journal
  BY DEF Smoke, Sites, site, pointers
<1>2. CASE Succeed \/ Fail
  <2>1. pc \in DOMAIN Then \ Reaching /\ pc # "idle"
    BY DEF Smoke, Then, Reaching
  <2>2. Lands
    BY <1>2, <2>1, SucceedLands, FailLands
  <2> QED
    BY <1>1, <2>2, ServedStays
<1>3. CASE pc = "smoke" /\ pc' = "failed" /\ op' = [op EXCEPT !.stage = "service_state"]
  <2>1. /\ op'.commit = op.commit /\ op'.from = op.from /\ op'.first = op.first
        /\ op'.obsolete = op.obsolete
    BY <1>3 DEF ReleaseInv, LockTyped, Operations
  <2>2. /\ pc \in Cutting /\ pc \in Early /\ pc' \in Cutting /\ pc' \notin Opening
        /\ pc' \notin Serving /\ pc' \notin Closing /\ pc' \notin Early /\ pc' \notin Restarted
        /\ pc' \notin Resynced /\ pc' \notin Remarked /\ pc' \notin Repointed
        /\ pc' \notin Recurrent
    BY <1>3 DEF Cutting, Early, Opening, Serving, Closing, Restarted, Resynced, Remarked,
                Repointed, Recurrent, Cleaning
  <2>3. Lands
    BY <2>1, <2>2 DEF Lands
  <2> QED
    BY <1>1, <2>3, ServedStays
<1>4. CASE /\ pc = "back_smoke" /\ op.stage \notin {"root_sync", "marker_publish"} /\ ~ op.first
           /\ End("back_outcome")
  <2>1. pc' = "back_outcome" /\ op' = op
    BY <1>4 DEF End
  <2>2. /\ pc \in Returning /\ pc \in Restarted /\ pc' \in Returning
        /\ pc' \notin Opening /\ pc' \notin Early /\ pc' \notin Serving /\ pc' \notin Closing
        /\ pc' \notin {"failed", "back_start", "back_smoke"}
    BY <1>4, <2>1 DEF Returning, Opening, Early, Serving, Closing, Restarted, Resynced, Remarked,
                      Repointed, Recurrent, Cleaning
  <2>3. Untouched /\ running = op.from
    BY <1>4, <2>2 DEF ServedInv, EarlyUntouched, BackReached
  <2>4. journal # None /\ journal.candidate = op.commit
    BY <2>2 DEF ReleaseInv, JournalMatches, ServedInv, JournalNamed
  <2>5. BackReached'
    BY <1>1, <1>4, <2>1, <2>3 DEF BackReached, Untouched, Sites
  <2> QED
    BY <1>1, <2>1, <2>2, <2>4, <2>5
       DEF ServedInv, JournalNamed, OpeningKnown, EarlyUntouched, CutReached, ServedIsRecorded
<1> QED
  BY <1>2, <1>3, <1>4 DEF Smoke

LEMMA ServedOutcome ==
  ASSUME ReleaseInv, ServedInv, RecordSuccess
  PROVE  ServedInv'
<1>1. UNCHANGED Sites /\ journal' = journal /\ pc = "outcome"
  BY DEF RecordSuccess, Sites, site, pointers
<1>2. CASE Committed /\ Succeed
  <2>1. pc' = "done_prepared" /\ op' = op
    BY <1>1, <1>2 DEF Succeed, End, Then
  <2>2. /\ pc \in Cutting /\ pc \in Serving /\ pc' \in Cutting /\ pc' \in Serving
        /\ pc' \notin Opening /\ pc' \notin Early
        /\ pc' \notin {"failed", "back_start", "back_smoke"} /\ pc' \notin Restarted
    BY <1>1, <2>1 DEF Cutting, Early, Opening, Serving, Restarted, Resynced, Remarked, Repointed,
                      Recurrent, Cleaning
  <2>3. running = op.commit /\ journal # None /\ journal.candidate = op.commit
    BY <2>2 DEF ServedInv, CutReached, JournalNamed, ReleaseInv, JournalMatches
  <2>4. CutReached'
    BY <1>1, <1>2, <2>1, <2>3 DEF CutReached, Committed, Sites
  <2>5. BackReached'
    BY <2>2, Inclusions DEF BackReached
  <2> QED
    BY <1>1, <2>1, <2>2, <2>3, <2>4, <2>5
       DEF ServedInv, JournalNamed, OpeningKnown, EarlyUntouched, ServedIsRecorded
<1>3. CASE End("idle") \/ Fail
  <2>1. Lands
    BY <1>1, <1>3, IdleLands, FailLands DEF End
  <2> QED
    BY <1>1, <2>1, ServedStays
<1> QED
  BY <1>2, <1>3 DEF RecordSuccess

LEMMA ServedCandidateFailed ==
  ASSUME ReleaseInv, ServedInv, CandidateFailed
  PROVE  ServedInv'
<1>1. UNCHANGED Sites /\ journal' = journal /\ pc = "failed"
  BY DEF CandidateFailed, Sites, site, pointers
<1>2. CASE End("back_start")
  <2>1. pc' = "back_start" /\ op' = op
    BY <1>2 DEF End
  <2>2. /\ pc \in Cutting /\ pc' \in Returning /\ pc' \notin Opening
        /\ pc' \notin Serving /\ pc' \notin Closing /\ pc' \notin Early /\ pc' \notin Restarted
        /\ pc' \notin Resynced /\ pc' \notin Remarked /\ pc' \notin Repointed
        /\ pc' \notin Recurrent
    BY <1>1, <2>1 DEF Cutting, Returning, Early, Opening, Serving, Closing, Restarted, Resynced,
                      Remarked, Repointed, Recurrent, Cleaning
  <2>3. Lands
    BY <1>1, <2>1, <2>2 DEF Lands
  <2> QED
    BY <1>1, <2>3, ServedStays
<1>3. CASE End("idle")
  <2>1. Lands
    BY <1>3, IdleLands DEF End
  <2> QED
    BY <1>1, <2>1, ServedStays
<1> QED
  BY <1>2, <1>3 DEF CandidateFailed

LEMMA ServedClosed ==
  ASSUME ReleaseInv, ServedInv, RemoveJournal
  PROVE  ServedInv'
<1>1. UNCHANGED Sites /\ journal' \in {journal, None} /\ pc \in {"clean_journal", "done_journal"}
  BY DEF RemoveJournal, Sites, site, pointers
<1>2. running = Active /\ root = Active /\ marker = Active
  <2>1. /\ pc \in Cutting \cup Returning
        /\ pc = "done_journal" => pc \in Serving /\ pc \in Closing
        /\ pc = "clean_journal" => pc \in Restarted /\ pc \in Resynced /\ pc \in Remarked
                                    /\ pc \in Recurrent
    BY <1>1 DEF Serving, Closing, Restarted, Resynced, Remarked, Repointed, Recurrent, Cleaning,
                Cutting, Returning
  <2>2. op.commit # None /\ op.from # None
    BY <1>1, ReleaseAssumption DEF ReleaseInv, OpKnown
  <2>3. pc = "done_journal" => running = op.commit /\ root = op.commit /\ marker = op.commit
                                 /\ current = op.commit
    BY <2>1 DEF ServedInv, CutReached
  <2>4. pc = "clean_journal" => running = op.from /\ root = op.from /\ marker = op.from
                                  /\ current = op.from
    BY <2>1 DEF ServedInv, BackReached
  <2> QED
    BY <1>1, <2>2, <2>3, <2>4 DEF Active
<1>3. pc' = "idle" \/ (pc' = "superseded_tags" /\ journal' = None)
  <2>1. Then["clean_journal"] = "idle" /\ Then["done_journal"] = "superseded_tags"
    BY DEF Then
  <2>2. FailureOf("clean_journal") = "idle" /\ FailureOf("done_journal") = "idle"
    BY DEF FailureOf, Preparing, StageAt, Reversing
  <2> QED
    BY <1>1, <2>1, <2>2 DEF RemoveJournal, End, Succeed, Fail
<1>4. pc' \notin Opening \cup Cutting \cup Returning
  BY <1>3 DEF Opening, Cutting, Returning
<1>5. /\ pc' \notin Restarted /\ pc' \notin Serving /\ pc' \notin Early
      /\ pc' \notin Closing /\ pc' \notin Resynced /\ pc' \notin Remarked
      /\ pc' \notin Repointed /\ pc' \notin Recurrent
      /\ pc' \notin {"failed", "back_start", "back_smoke"}
  BY <1>3 DEF Early, Serving, Closing, Restarted, Resynced, Remarked, Repointed, Recurrent,
              Cleaning
<1>6. ServedIsRecorded'
  BY <1>1, <1>2 DEF ServedIsRecorded, Sites, Active
<1> QED
  BY <1>3, <1>4, <1>5, <1>6
     DEF ServedInv, JournalNamed, OpeningKnown, EarlyUntouched, CutReached, BackReached

LEMMA ServedBegins ==
  ASSUME ReleaseInv, ServedInv,
         \/ \E c \in Commits, retry \in BOOLEAN : Prepare(c, retry)
         \/ \E c \in Commits, policy \in Policies : Activate(c, policy)
  PROVE  ServedInv'
<1>1. UNCHANGED Sites /\ journal' = journal /\ journal = None
  BY DEF Prepare, Activate, MayStart, Blocked, Sites, site, pointers
<1>2. /\ pc' \in {"retry_tags", "expiry", "decide", "open"}
      /\ pc' \in Opening =>
           op'.from = Active /\ op'.obsolete = previous /\ op'.first = (current = None)
  BY DEF Prepare, Activate, Opening, NoOp
<1>3. /\ pc' \notin Restarted /\ pc' \notin Serving /\ pc' \notin Early
      /\ pc' \notin Closing /\ pc' \notin Resynced /\ pc' \notin Remarked
      /\ pc' \notin Repointed /\ pc' \notin Recurrent
      /\ pc' \notin {"failed", "back_start", "back_smoke"}
      /\ pc' \notin Cutting \cup Returning
  BY <1>2 DEF Early, Serving, Closing, Restarted, Resynced, Remarked, Repointed, Recurrent,
              Cleaning, Cutting, Returning
<1>4. OpeningKnown'
  BY <1>1, <1>2 DEF OpeningKnown, Sites, Active
<1>5. ServedIsRecorded'
  BY <1>1 DEF ServedInv, ServedIsRecorded, Sites, Active
<1> QED
  BY <1>1, <1>3, <1>4, <1>5
     DEF ServedInv, JournalNamed, EarlyUntouched, CutReached, BackReached

LEMMA ServedInit == Init => ServedInv
<1> SUFFICES ASSUME Init PROVE ServedInv
  OBVIOUS
<1>1. pc = "idle" /\ journal = None /\ ServedIsRecorded
  BY DEF Init, ServedIsRecorded, Active
<1>2. /\ pc \notin Opening /\ pc \notin Early /\ pc \notin Serving
      /\ pc \notin Closing /\ pc \notin {"failed", "back_start", "back_smoke"}
      /\ pc \notin Restarted /\ pc \notin Resynced /\ pc \notin Remarked
      /\ pc \notin Repointed /\ pc \notin Recurrent
      /\ pc \notin Cutting /\ pc \notin Returning
  BY <1>1, NowhereElse
<1> QED
  BY <1>1, <1>2
     DEF ServedInv, JournalNamed, OpeningKnown, EarlyUntouched, CutReached, BackReached

LEMMA ServedStep == ReleaseInv /\ ServedInv /\ [Next]_vars => ServedInv'
<1> SUFFICES ASSUME ReleaseInv, ServedInv, [Next]_vars PROVE ServedInv'
  OBVIOUS
<1>1. CASE Expire \/ UNCHANGED vars
  <2>1. UNCHANGED <<pc, op>> /\ UNCHANGED Sites /\ journal' = journal
    BY <1>1 DEF Expire, vars, Sites, site, pointers, lock
  <2>2. Lands
    BY <2>1 DEF Lands
  <2> QED
    BY <2>1, <2>2, ServedStays
<1>2. CASE RemoveStep
  BY <1>2, ServedQuietSteps, ServedClosed DEF RemoveStep
<1>3. CASE ActivateStep
  BY <1>3, ServedQuietSteps, ServedOpen, ServedStart, ServedSmoke, ServedSiteSteps, ServedOutcome,
     ServedCandidateFailed DEF ActivateStep
<1>4. CASE Kill
  BY <1>4, ServedQuietSteps
<1>5. CASE PrepareStep
  BY <1>5, ServedPrepareSteps
<1>6. CASE \/ \E c \in Commits, retry \in BOOLEAN : Prepare(c, retry)
           \/ \E c \in Commits, policy \in Policies : Activate(c, policy)
  BY <1>6, ServedBegins
<1> QED
  BY <1>1, <1>2, <1>3, <1>4, <1>5, <1>6 DEF Next

LEMMA ServedAlways == Spec => [](ReleaseInv /\ ServedInv)
<1>1. ReleaseInv /\ ServedInv /\ [Next]_vars => (ReleaseInv /\ ServedInv)'
  BY StepInv, ServedStep
<1>2. Init => ReleaseInv /\ ServedInv
  BY InitInv, ServedInit
<1> QED
  BY <1>1, <1>2, PTL DEF Spec

(* For any releases, and wherever the script fails or is killed: as long   *)
(* as no transaction is open, what runs is the source of the root, is in   *)
(* the marker, and is the active release.                                  *)
THEOREM RecordsServed == Spec => []ServedIsRecorded
<1>1. ServedInv => ServedIsRecorded
  BY DEF ServedInv
<1> QED
  BY <1>1, ServedAlways, PTL

-----------------------------------------------------------------------------
(* What may be removed, and what may not.                                  *)

\* Where the candidate is known to be neither of the releases to keep, and where
\* the release that serves is imported.
Extracted == {"build", "built", "manifest", "pointer", "publish",
              "retry_tags", "retry_decision", "retry_dir", "retry_prepared"}
Adopting == {"adopt_extract", "adopt_tag", "adopt_manifest", "adopt_pointer", "adopted"}
Kept == {current, previous}

\* What a prepare may remove is not what has to be kept.
Expendable ==
  /\ pc \notin Preparing \cup {"abort"} => owned = {}
  /\ pc \in Extracted => op.commit \notin Kept
  /\ owned \cap {"dir", "tags"} # {} => op.commit \notin Kept
  /\ pc \in Adopting \/ owned \cap {"adoption dir", "adoption tags"} # {} =>
       current = None /\ previous = None
  /\ pc \in Preparing /\ current = None => previous = None
  /\ pc \in Replacing => op.obsolete \notin Kept

ReleasesKept ==
  /\ pc \in Opening \cup Cutting \cup Returning => Intact(op.from)
  /\ pc \in Opening \cup Cutting => Intact(op.commit)
  /\ pc \in Opening \cup Cutting \cup Returning /\ op.obsolete # None =>
       Intact(op.obsolete) /\ op.obsolete \notin {op.commit, op.from}

PreparedParts ==
  /\ journal = None /\ prepared # None => prepared # previous
  /\ pc \in {"done_journal", "clean_pointerless", "clean_journal"} => prepared = None

RollbackInv == Expendable /\ ReleasesKept /\ PreparedParts /\ RollbackReady


(* Nothing to keep is touched by a prepare, and nothing is opened.         *)
LEMMA KeptApart ==
  ASSUME RollbackInv, journal = None, journal' = None, UNCHANGED <<current, previous>>,
         pc' \notin Opening \cup Cutting \cup Returning,
         prepared' # None => prepared' = prepared \/ prepared' \notin Kept,
         \A x \in Kept \ {None} : Intact(x) => Intact(x)',
         Expendable'
  PROVE  RollbackInv'
<1>1. ReleasesKept'
  BY DEF ReleasesKept
<1>2. PreparedParts'
  <2>1. {"done_journal", "clean_pointerless", "clean_journal"} \subseteq Cutting \cup Returning
    BY DEF Cutting, Returning
  <2> QED
    BY <2>1 DEF RollbackInv, PreparedParts, Kept
<1>3. \A x \in {current, previous} \ {None} : Intact(x)'
  BY DEF RollbackInv, RollbackReady, Kept
<1>4. \A x \in {current', previous'} \ {None} : Intact(x)'
  BY <1>3
<1>5. RollbackReady'
  BY <1>4 DEF RollbackReady
<1> QED
  BY <1>1, <1>2, <1>5 DEF RollbackInv

LEMMA ThenPrepares ==
  ASSUME NEW p \in DOMAIN Then
  PROVE  /\ p \in Preparing => Then[p] \in Preparing \cup {"idle"}
         /\ Then[p] \in Preparing => p \in Preparing
         /\ Then[p] \in Extracted => p \in Extracted \cup {"extract"}
         /\ Then[p] \in Adopting => p \in Adopting
         /\ Then[p] \in Replacing => p \in Replacing \cup {"done_journal"}
BY DEF Then, Preparing, Extracted, Adopting, Replacing

LEMMA Apart ==
  /\ "idle" \notin Preparing \cup Extracted \cup Adopting \cup Replacing
  /\ "abort" \notin Preparing \cup Extracted \cup Adopting \cup Replacing
  /\ Extracted \subseteq Preparing /\ Adopting \subseteq Preparing
  /\ Preparing \cap (Opening \cup Cutting \cup Returning) = {}
  /\ Replacing \cap (Opening \cup Cutting \cup Returning) = {}
  /\ {"abort", "superseded_tags", "superseded_dir"} \cap (Opening \cup Cutting \cup Returning) = {}
BY DEF Preparing, Extracted, Adopting, Replacing, Opening, Cutting, Returning

LEMMA IdleExpendable ==
  ASSUME pc' = "idle", owned' = {}
  PROVE  Expendable'
BY Apart DEF Expendable

LEMMA SucceedExpendable ==
  ASSUME Expendable, UNCHANGED <<current, previous>>, pc \in DOMAIN Then,
         pc \in Preparing \/ pc \in Replacing, pc # "extract", Succeed
  PROVE  Expendable'
<1>1. CASE Then[pc] = "idle"
  BY <1>1, IdleExpendable DEF Succeed, End
<1>2. CASE Then[pc] # "idle"
  <2>1. pc' = Then[pc] /\ op' = op /\ owned' = owned
    BY <1>2 DEF Succeed, End
  <2>2. pc \in Preparing => pc' \in Preparing
    BY <1>2, <2>1, ThenPrepares
  <2>3. /\ pc' \in Preparing => pc \in Preparing
        /\ pc' \in Extracted => pc \in Extracted
        /\ pc' \in Adopting => pc \in Adopting
        /\ pc' \in Replacing => pc \in Replacing \cup {"done_journal"}
    BY <2>1, ThenPrepares
  <2>4. pc # "done_journal" /\ pc # "abort"
    BY DEF Preparing, Replacing
  <2> QED
    BY <2>1, <2>2, <2>3, <2>4 DEF Expendable, Kept
<1> QED
  BY <1>1, <1>2

LEMMA FailExpendable ==
  ASSUME Expendable, UNCHANGED <<current, previous>>, Fail, pc \in Preparing \/ pc \in Replacing
  PROVE  Expendable' /\ pc' \in {"abort", "idle"}
<1>1. FailureOf(pc) \in {"abort", "idle"}
  BY DEF FailureOf, Preparing, Replacing, StageAt, Reversing
<1>2. CASE FailureOf(pc) = "idle"
  BY <1>2, IdleExpendable DEF Fail, End
<1>3. CASE FailureOf(pc) = "abort"
  <2>1. pc' = "abort" /\ op' = op /\ owned' = owned
    BY <1>3 DEF Fail, End
  <2> QED
    BY <2>1, Apart DEF Expendable, Kept
<1> QED
  BY <1>1, <1>2, <1>3

(* What the commands that remove do to a release they are not about.       *)
LEMMA RemovesTarget ==
  ASSUME ReleaseInv, RemoveTags \/ RemoveDirectory \/ WritePhase, NEW x, x # Target
  PROVE  Intact(x) => Intact(x)'
<1>1. /\ releases' \in {releases, releases \ {Target}}
      /\ observed' = observed \/ observed' = [observed EXCEPT ![Target] = None]
      /\ tags' = tags \/ \E left \in {"none", "some", "all"} : tags' = [tags EXCEPT ![Target] = left]
                      \/ tags' = [tags EXCEPT ![Target] = tags[Target]]
  BY DEF RemoveTags, RemoveDirectory, WritePhase, Retag
<1>2. /\ observed \in [Commits -> Pointer] /\ releases \subseteq Commits
      /\ tags \in [Commits -> {"none", "some", "all"}]
  BY DEF ReleaseInv, EvidenceTyped
<1>3. x \in releases => x \in releases' /\ observed'[x] = observed[x] /\ tags'[x] = tags[x]
  BY <1>1, <1>2
<1> QED
  BY <1>3 DEF Intact

LEMMA PreparedRemoveSteps ==
  ASSUME ReleaseInv, ServedInv, RollbackInv, pc \in Preparing \/ pc \in Replacing,
         RemoveTags \/ RemoveDirectory \/ RemovePrepared \/ RemoveDecision
  PROVE  RollbackInv'
<1>1. /\ pc \in DOMAIN Then /\ pc # "extract" /\ pc # "idle"
      /\ pc \in {"retry_tags", "expired_tags", "superseded_tags", "retry_dir", "expired_dir",
                 "superseded_dir", "retry_prepared", "expired_prepared", "retry_decision",
                 "expired_decision"}
  BY DEF RemoveTags, RemoveDirectory, RemovePrepared, RemoveDecision, Then, Preparing, Replacing
<1>2. /\ UNCHANGED <<current, previous, journal>>
      /\ Succeed \/ Fail
      /\ prepared' \in {prepared, None}
  BY DEF RemoveTags, RemoveDirectory, RemovePrepared, RemoveDecision, pointers
<1>3. journal = None
  BY <1>1, Apart DEF ServedInv, JournalNamed
<1>4. ASSUME NEW x \in Kept \ {None} PROVE Intact(x) => Intact(x)'
  <2>1. CASE RemoveTags \/ RemoveDirectory
    <3>1. \/ pc \in Replacing /\ Target = op.obsolete
          \/ pc \in Extracted /\ Target = op.commit
      BY <1>1, <2>1 DEF RemoveTags, RemoveDirectory, Target, Replacing, Extracted
    <3>2. Target \notin Kept
      BY <3>1 DEF RollbackInv, Expendable
    <3>3. x # Target
      BY <1>4, <3>2
    <3> QED
      BY <2>1, <3>3, RemovesTarget
  <2>2. CASE RemovePrepared \/ RemoveDecision
    BY <2>2 DEF RemovePrepared, RemoveDecision, evidence, Intact
  <2> QED
    BY <2>1, <2>2
<1>5. Expendable'
  BY <1>1, <1>2, SucceedExpendable, FailExpendable DEF RollbackInv
<1>6. pc' \notin Opening \cup Cutting \cup Returning
  <2>1. CASE Fail
    <3>1. pc' \in {"abort", "idle"}
      BY <1>2, <2>1, FailExpendable DEF RollbackInv
    <3> QED
      BY <3>1, Apart, Outside
  <2>2. CASE Succeed
    <3>1. /\ Then[pc] \in Cutting \cup Returning => pc \in Cutting \cup Returning \cup {"open"}
          /\ Then[pc] \in Opening => pc \in Opening
      BY <1>1, ThenStays
    <3>2. pc \notin Opening \cup Cutting \cup Returning /\ pc # "open"
      BY <1>1, Apart DEF Opening
    <3> QED
      BY <2>2, <3>1, <3>2 DEF Succeed, End
  <2> QED
    BY <1>2, <2>1, <2>2
<1> QED
  BY <1>2, <1>3, <1>4, <1>5, <1>6, KeptApart

(* A release that is not the one an action is about stays intact.          *)
LEMMA Elsewhere ==
  ASSUME ReleaseInv, NEW y, NEW x, x # y,
         x \in releases => x \in releases',
         observed' = observed \/ \E o : observed' = [observed EXCEPT ![y] = o],
         tags' = tags \/ \E left : tags' = [tags EXCEPT ![y] = left]
  PROVE  Intact(x) => Intact(x)'
<1>1. /\ observed \in [Commits -> Pointer] /\ releases \subseteq Commits
      /\ tags \in [Commits -> {"none", "some", "all"}]
  BY DEF ReleaseInv, EvidenceTyped
<1>2. x \in releases => x \in releases' /\ observed'[x] = observed[x] /\ tags'[x] = tags[x]
  BY <1>1
<1> QED
  BY <1>2 DEF Intact

LEMMA AdoptingAlone ==
  ASSUME Expendable, pc \in Adopting
  PROVE  Kept \ {None} = {}
BY DEF Expendable, Kept

(* The steps of a prepare that make something.                             *)
LEMMA PrepareMakes ==
  ASSUME ReleaseInv, RollbackInv, NEW x \in Kept \ {None},
         Extract \/ AdoptTag \/ Build \/ Own \/ WriteManifest \/ WritePointer \/ Import \/ Expiry
  PROVE  Intact(x) => Intact(x)'
<1>1. CASE Own \/ WritePointer \/ Import \/ Expiry
  BY <1>1 DEF Own, WritePointer, Import, Expiry, evidence, Intact
<1>2. CASE Extract
  BY <1>2 DEF Extract, Intact
<1>3. CASE AdoptTag
  BY <1>3, AdoptingAlone DEF AdoptTag, Adopting, RollbackInv
<1>4. CASE Build
  <2>1. op.commit # x
    BY <1>4 DEF Build, Extracted, RollbackInv, Expendable
  <2> QED
    BY <1>4, <2>1, Elsewhere DEF Build
<1>5. CASE WriteManifest
  <2>1. CASE pc = "adopt_manifest"
    BY <2>1, AdoptingAlone DEF Adopting, RollbackInv
  <2>2. CASE pc = "manifest"
    <3>1. op.commit # x
      BY <2>2 DEF Extracted, RollbackInv, Expendable
    <3> QED
      BY <1>5, <2>2, <3>1, Elsewhere DEF WriteManifest
  <2> QED
    BY <1>5, <2>1, <2>2 DEF WriteManifest
<1> QED
  BY <1>1, <1>2, <1>3, <1>4, <1>5

LEMMA ExtractExpendable ==
  ASSUME ReleaseInv, RollbackInv, journal = None, Extract
  PROVE  Expendable'
<1>1. Expendable /\ UNCHANGED <<current, previous>> /\ op' = op /\ pc \in Preparing
  BY DEF RollbackInv, Extract, pointers, Preparing
<1>2. /\ Then["extract"] = "build" /\ Then["adopt_extract"] = "adopt_tag"
      /\ "build" \in Preparing /\ "adopt_tag" \in Preparing
      /\ "build" \notin Adopting /\ "adopt_tag" \notin Extracted
      /\ {"build", "adopt_tag"} \cap Replacing = {}
  BY DEF Then, Preparing, Adopting, Extracted, Replacing
<1>3. CASE pc = "extract"
  <2>1. CASE owned' = owned \cup {"dir"} /\ op.commit \notin releases
    <3>1. op.commit \notin Kept
      <4>1. op.commit \in Commits /\ op.commit # None
        BY <1>3, ReleaseAssumption DEF ReleaseInv, OpKnown
      <4>2. \A c \in {current, previous} \ {None} : c \in releases
        BY DEF RollbackInv, RollbackReady, Intact
      <4> QED
        BY <2>1, <4>1, <4>2 DEF Kept
    <3>2. pc' \in {"build", "abort"}
      BY <1>2, <1>3 DEF Extract
    <3>3. owned' \cap {"adoption dir", "adoption tags"} = owned \cap {"adoption dir", "adoption tags"}
      BY <2>1
    <3> QED
      BY <1>1, <1>2, <3>1, <3>2, <3>3, Apart DEF Expendable, Kept
  <2>2. CASE pc' = "abort" /\ owned' = owned
    BY <1>1, <2>2, Apart DEF Expendable, Kept
  <2> QED
    BY <1>3, <2>1, <2>2 DEF Extract
<1>4. CASE pc = "adopt_extract"
  <2>1. current = None /\ previous = None
    BY <1>1, <1>4 DEF Expendable, Adopting
  <2>2. /\ pc' \in {"adopt_tag", "abort"} /\ owned' \in {owned, owned \cup {"adoption dir"}}
    BY <1>2, <1>4 DEF Extract
  <2>3. owned' \cap {"dir", "tags"} = owned \cap {"dir", "tags"}
    BY <2>2
  <2> QED
    BY <1>1, <1>2, <2>1, <2>2, <2>3, Apart DEF Expendable, Kept
<1> QED
  BY <1>3, <1>4 DEF Extract

LEMMA MakeExpendable ==
  ASSUME ReleaseInv, RollbackInv, journal = None,
         Expiry \/ Import \/ AdoptTag \/ Build \/ Own \/ WriteManifest \/ WritePointer
  PROVE  Expendable'
<1>1. /\ Expendable /\ UNCHANGED <<current, previous>>
      /\ pc \in Preparing /\ pc # "extract" /\ pc # "abort"
  BY DEF RollbackInv, Expiry, Import, AdoptTag, Build, Own, WriteManifest, WritePointer, pointers,
         Preparing
<1>2. ASSUME Fail PROVE Expendable'
  BY <1>1, <1>2, FailExpendable
<1>3. ASSUME Succeed, pc \in DOMAIN Then PROVE Expendable'
  BY <1>1, <1>3, SucceedExpendable
<1>4. CASE Expiry
  <2>1. CASE End("import")
    <3>1. pc' = "import" /\ op' = op /\ owned' = owned
      BY <2>1 DEF End
    <3>2. /\ "import" \in Preparing /\ "import" \notin Extracted /\ "import" \notin Adopting
          /\ "import" \notin Replacing
      BY DEF Preparing, Extracted, Adopting, Replacing
    <3> QED
      BY <1>1, <3>1, <3>2 DEF Expendable, Kept
  <2>2. CASE /\ Removable(prepared) /\ pc' = "expired_tags"
             /\ op' = [op EXCEPT !.obsolete = prepared] /\ UNCHANGED <<owned, started>>
    <3>1. op'.obsolete = prepared /\ op'.commit = op.commit /\ prepared \notin Kept
      BY <2>2 DEF ReleaseInv, LockTyped, Operations, Removable, Kept
    <3>2. /\ "expired_tags" \in Preparing /\ "expired_tags" \notin Extracted
          /\ "expired_tags" \notin Adopting
      BY DEF Preparing, Extracted, Adopting
    <3> QED
      BY <1>1, <2>2, <3>1, <3>2 DEF Expendable, Kept
  <2> QED
    BY <1>2, <1>4, <2>1, <2>2 DEF Expiry
<1>5. CASE Import
  <2>1. CASE \E to \in {"extract", "adopt_extract"} :
               End(to) /\ (to = "adopt_extract" => current = None)
    <3>1. PICK to \in {"extract", "adopt_extract"} :
            End(to) /\ (to = "adopt_extract" => current = None)
      BY <2>1
    <3>2. pc' = to /\ op' = op /\ owned' = owned
      BY <3>1 DEF End
    <3>3. /\ to \in Preparing /\ to \notin Extracted /\ to \notin Replacing
          /\ to = "extract" => to \notin Adopting
      BY DEF Preparing, Extracted, Adopting, Replacing
    <3> QED
      BY <1>1, <3>1, <3>2, <3>3 DEF Expendable, Kept
  <2>2. Fail \/ \E to \in {"extract", "adopt_extract"} :
                  End(to) /\ (to = "adopt_extract" => current = None)
    BY <1>5 DEF Import
  <2> QED
    BY <1>2, <2>1, <2>2
<1>6. CASE AdoptTag
  <2>1. current = None /\ previous = None
    BY <1>1, <1>6 DEF AdoptTag, Expendable, Adopting
  <2>2. /\ pc' \in {"adopt_manifest", "abort"} /\ owned' \in {owned, owned \cup {"adoption tags"}}
        /\ op' = op
    BY <1>6 DEF AdoptTag, Then
  <2>3. owned' \cap {"dir", "tags"} = owned \cap {"dir", "tags"}
    BY <2>2
  <2>4. /\ "adopt_manifest" \in Preparing /\ "adopt_manifest" \notin Extracted
        /\ "adopt_manifest" \notin Replacing
    BY DEF Preparing, Extracted, Replacing
  <2> QED
    BY <1>1, <2>1, <2>2, <2>3, <2>4, Apart DEF Expendable, Kept
<1>7. CASE Own
  <2>1. CASE pc \in {"built", "adopted"} /\ pc' = Then[pc] /\ op' = op
             /\ owned' = IF pc = "built" THEN owned \cup {"tags"} ELSE {}
    <3>1. pc' = (IF pc = "built" THEN "manifest" ELSE "extract")
      BY <2>1 DEF Then
    <3>2. /\ {"manifest", "extract"} \subseteq Preparing /\ "built" \in Extracted
          /\ {"manifest", "extract"} \cap Adopting = {} /\ "extract" \notin Extracted
          /\ {"manifest", "extract"} \cap Replacing = {}
      BY DEF Preparing, Extracted, Adopting, Replacing
    <3>3. pc = "built" => op.commit \notin Kept
      BY <1>1, <3>2 DEF Expendable
    <3>4. owned' \cap {"adoption dir", "adoption tags"} # {} =>
            owned \cap {"adoption dir", "adoption tags"} # {}
      BY <2>1
    <3> QED
      BY <1>1, <2>1, <3>1, <3>2, <3>3, <3>4 DEF Expendable, Kept
  <2>2. pc \in DOMAIN Then
    BY <1>7 DEF Own, Then
  <2> QED
    BY <1>2, <1>3, <1>7, <2>1, <2>2 DEF Own
<1>8. CASE Build \/ WriteManifest \/ WritePointer
  <2>1. pc \in DOMAIN Then /\ (Succeed \/ Fail)
    BY <1>8 DEF Build, WriteManifest, WritePointer, Then
  <2> QED
    BY <1>2, <1>3, <2>1
<1> QED
  BY <1>4, <1>5, <1>6, <1>7, <1>8

LEMMA AbortKept ==
  ASSUME ReleaseInv, RollbackInv, Abort, NEW x \in Kept \ {None}
  PROVE  Intact(x) => Intact(x)'
<1>1. ~ (x = op.commit /\ ("dir" \in owned \/ "tags" \in owned))
      /\ ~ (x = op.from /\ ("adoption dir" \in owned \/ "adoption tags" \in owned))
  <2>1. "dir" \in owned \/ "tags" \in owned => op.commit \notin Kept
    BY DEF RollbackInv, Expendable
  <2>2. "adoption dir" \in owned \/ "adoption tags" \in owned => Kept \ {None} = {}
    BY DEF RollbackInv, Expendable, Kept
  <2> QED
    BY <2>1, <2>2
<1>2. x \in releases => x \in releases' /\ observed'[x] = observed[x] /\ tags'[x] = tags[x]
  <2>1. x \in releases => x \in Commits
    BY DEF ReleaseInv, EvidenceTyped
  <2> QED
    BY <1>1, <2>1 DEF Abort
<1> QED
  BY <1>2 DEF Intact

LEMMA RollbackPrepareSteps ==
  ASSUME ReleaseInv, ServedInv, RollbackInv, PrepareStep
  PROVE  RollbackInv'
<1>1. UNCHANGED <<current, previous, journal>>
  BY DEF PrepareStep, Expiry, Import, Extract, AdoptTag, Build, Own, WriteManifest, WritePointer,
         Abort, pointers
<1>2. journal = None
  BY PrepareLeads DEF ServedInv, JournalNamed
<1>3. prepared' # None => prepared' = prepared \/ prepared' \notin Kept
  <2>1. prepared' = prepared \/ (pc = "pointer" /\ prepared' = op.commit)
    BY DEF PrepareStep, Expiry, Import, Extract, AdoptTag, Build, Own, WriteManifest, WritePointer,
           Abort, pointers
  <2> QED
    BY <2>1 DEF RollbackInv, Expendable, Extracted
<1>4. \A x \in Kept \ {None} : Intact(x) => Intact(x)'
  BY PrepareMakes, AbortKept DEF PrepareStep
<1>5. Expendable'
  <2>1. CASE Abort
    BY <2>1, IdleExpendable DEF Abort, End
  <2> QED
    BY <1>2, <2>1, ExtractExpendable, MakeExpendable DEF PrepareStep
<1>6. pc' \notin Opening \cup Cutting \cup Returning
  BY PrepareLeads
<1> QED
  BY <1>1, <1>2, <1>3, <1>4, <1>5, <1>6, KeptApart

(* Where the commands of a cutover lead, and what they know then.          *)
Trans == Opening \cup Cutting \cup Returning
Cleared == {"done_journal", "clean_pointerless", "clean_journal"}

Goes ==
  \/ pc' = "idle" /\ owned' = {}
  \/ /\ pc' \in Trans /\ owned' = owned
     /\ op'.commit = op.commit /\ op'.from = op.from /\ op'.obsolete = op.obsolete
     /\ pc' \in Opening \cup Cutting => pc \in Opening \cup Cutting
     /\ pc' \in Cleared => pc \in {"done_prepared", "clean_prepared", "clean_pointerless"}

LEMMA ClearedInside ==
  Cleared \subseteq Cutting \cup Returning /\ Cleared \cap {"failed", "lost", "back_start"} = {}
BY DEF Cleared, Cutting, Returning

LEMMA ThenGoes ==
  ASSUME NEW p \in DOMAIN Then, p \in Trans
  PROVE  /\ p # "done_journal" => Then[p] \in Trans \cup {"idle"}
         /\ Then[p] \in Opening \cup Cutting => p \in Opening \cup Cutting
         /\ Then[p] \in Cleared => p \in {"done_prepared", "clean_prepared", "clean_pointerless"}
<1>1. p # "done_journal" => Then[p] \in Trans \cup {"idle"}
  BY DEF Then, Trans, Opening, Cutting, Returning
<1>2. Then[p] \in Opening \cup Cutting => p \in Opening \cup Cutting
  BY DEF Then, Trans, Opening, Cutting, Returning
<1>3. Then[p] \in Cleared => p \in {"done_prepared", "clean_prepared", "clean_pointerless"}
  BY DEF Then, Cleared
<1> QED
  BY <1>1, <1>2, <1>3

LEMMA SucceedGoes ==
  ASSUME Expendable, pc \in Trans, pc \in DOMAIN Then, pc # "done_journal", Succeed
  PROVE  Goes
<1>1. CASE Then[pc] = "idle"
  BY <1>1 DEF Goes, Succeed, End
<1>2. CASE Then[pc] # "idle"
  <2>1. pc' = Then[pc] /\ op' = op /\ owned' = owned
    BY <1>2 DEF Succeed, End
  <2> QED
    BY <1>2, <2>1, ThenGoes DEF Goes
<1> QED
  BY <1>1, <1>2

LEMMA IdleGoes ==
  ASSUME End("idle")
  PROVE  Goes /\ pc' = "idle"
BY DEF Goes, End

LEMMA FailGoes ==
  ASSUME ReleaseInv, pc \in Trans, Fail
  PROVE  Goes /\ pc' \in {"failed", "lost", "idle"}
<1>1. pc \notin Preparing
  BY Apart DEF Trans
<1>2. CASE pc \in DOMAIN StageAt
  <2>1. FailureOf(pc) = "failed" /\ pc \in Cutting /\ "failed" \in Trans
    BY <1>1, <1>2, StagesStay, Outside DEF FailureOf, Trans
  <2>2. pc' = "failed" /\ op' = [op EXCEPT !.stage = StageAt[pc]] /\ owned' = owned
    BY <2>1 DEF Fail
  <2>3. op'.commit = op.commit /\ op'.from = op.from /\ op'.obsolete = op.obsolete
    BY <2>2 DEF ReleaseInv, LockTyped, Operations
  <2> QED
    BY <2>1, <2>2, <2>3, ClearedInside DEF Goes
<1>3. CASE pc \notin DOMAIN StageAt /\ pc \in Reversing
  <2>1. FailureOf(pc) = "lost" /\ "lost" \in Trans /\ "lost" \notin Opening \cup Cutting
    BY <1>1, <1>3 DEF FailureOf, Trans, Opening, Cutting, Returning
  <2>2. pc' = "lost" /\ op' = op /\ owned' = owned
    BY <2>1 DEF Fail, End
  <2> QED
    BY <2>1, <2>2, ClearedInside DEF Goes
<1>4. CASE pc \notin DOMAIN StageAt /\ pc \notin Reversing
  <2>1. FailureOf(pc) = "idle"
    BY <1>1, <1>4 DEF FailureOf
  <2>2. End("idle")
    BY <2>1 DEF Fail
  <2> QED
    BY <2>2, IdleGoes
<1> QED
  BY <1>2, <1>3, <1>4

LEMMA GoesExpendable ==
  ASSUME Expendable, pc \in Trans, Goes
  PROVE  Expendable'
<1>1. CASE pc' = "idle" /\ owned' = {}
  BY <1>1, IdleExpendable
<1>2. CASE pc' \in Trans /\ owned' = owned
  <2>1. owned = {} /\ pc \notin Preparing
    <3>1. pc \notin Preparing \cup {"abort"}
      BY Apart DEF Trans
    <3> QED
      BY <3>1 DEF Expendable
  <2>2. pc' \notin Preparing /\ pc' \notin Extracted /\ pc' \notin Adopting /\ pc' \notin Replacing
    BY <1>2, Apart DEF Trans
  <2> QED
    BY <1>2, <2>1, <2>2 DEF Expendable
<1> QED
  BY <1>1, <1>2 DEF Goes

(* While the transaction is open the releases it is about are there.       *)
LEMMA TransactionKeeps ==
  ASSUME RollbackInv, pc \in Trans, Goes,
         journal' # None => Intact(journal.previous)',
         journal' = None => journal = None /\ UNCHANGED <<current, previous, prepared>>,
         \A x \in {op.from, op.obsolete} : Intact(x) => Intact(x)',
         \A x : x = op.commit /\ pc' \in Opening \cup Cutting => (Intact(x) => Intact(x)'),
         journal = None => \A x : Intact(x) => Intact(x)',
         pc' \in Cleared => prepared' = None
  PROVE  RollbackInv'
<1>1. Expendable'
  BY GoesExpendable DEF RollbackInv
<1>2. ReleasesKept'
  <2>1. CASE pc' = "idle"
    BY <2>1, Outside DEF ReleasesKept
  <2>2. CASE pc' # "idle"
    <3>1. /\ op'.commit = op.commit /\ op'.from = op.from /\ op'.obsolete = op.obsolete
          /\ pc' \in Opening \cup Cutting => pc \in Opening \cup Cutting
      BY <2>2 DEF Goes
    <3>2. /\ Intact(op.from)
          /\ pc \in Opening \cup Cutting => Intact(op.commit)
          /\ op.obsolete # None => Intact(op.obsolete) /\ op.obsolete \notin {op.commit, op.from}
      BY DEF RollbackInv, ReleasesKept, Trans
    <3>3. /\ \A x : x = op.from => Intact(x)'
          /\ \A x : x = op.commit /\ pc' \in Opening \cup Cutting => Intact(x)'
          /\ \A x : x = op.obsolete /\ x # None => Intact(x)' /\ x \notin {op.commit, op.from}
      BY <3>1, <3>2
    <3>4. /\ \A x : x = op'.from => Intact(x)'
          /\ \A x : x = op'.commit /\ pc' \in Opening \cup Cutting => Intact(x)'
          /\ \A x : x = op'.obsolete /\ x # None => Intact(x)' /\ x \notin {op'.commit, op'.from}
      BY <3>1, <3>3
    <3> QED
      BY <3>4 DEF ReleasesKept
  <2> QED
    BY <2>1, <2>2
<1>3. PreparedParts'
  BY DEF RollbackInv, PreparedParts, Cleared
<1>4. RollbackReady'
  <2>1. CASE journal' = None
    <3>1. \A x \in {current, previous} \ {None} : Intact(x)'
      BY <2>1 DEF RollbackInv, RollbackReady
    <3>2. \A x \in {current', previous'} \ {None} : Intact(x)'
      BY <2>1, <3>1
    <3> QED
      BY <2>1, <3>2 DEF RollbackReady
  <2>2. CASE journal' # None
    BY <2>2 DEF RollbackReady
  <2> QED
    BY <2>1, <2>2
<1> QED
  BY <1>1, <1>2, <1>3, <1>4 DEF RollbackInv

LEMMA QuietCutover ==
  ASSUME ReleaseInv, RollbackInv, pc \in Cutting \cup Returning,
         pc \notin {"done_prepared", "clean_prepared", "clean_pointerless"},
         UNCHANGED <<evidence, journal>>, Goes
  PROVE  RollbackInv'
<1>1. journal # None /\ journal' = journal /\ journal.previous = op.from
  BY DEF ReleaseInv, JournalMatches
<1>2. \A x : Intact(x) => Intact(x)'
  BY DEF evidence, Intact
<1>3. Intact(op.from)
  BY DEF RollbackInv, ReleasesKept
<1>4. Intact(journal.previous)'
  BY <1>1, <1>2, <1>3
<1>5. pc \in Trans /\ pc' \notin Cleared
  BY ClearedInside, Outside DEF Goes, Trans
<1> QED
  BY <1>1, <1>2, <1>4, <1>5, TransactionKeeps

LEMMA RollbackQuietSteps ==
  ASSUME ReleaseInv, RollbackInv,
         \/ StartServices \/ Smoke \/ SyncRoot \/ PublishMarker \/ PublishPrevious
         \/ PublishCurrent \/ RemoveAdoption \/ RecordSuccess \/ CandidateFailed
         \/ RollbackFailed \/ RecordRollback
  PROVE  RollbackInv'
<1> DEFINE Acting == {"start", "back_start", "smoke", "back_smoke", "sync", "back_sync",
                      "marker", "back_marker", "previous", "back_previous", "current",
                      "back_current", "unadopt", "back_unadopt", "outcome", "back_outcome"}
<1>1. pc \in Acting \cup {"failed", "lost"} /\ UNCHANGED <<evidence, journal>>
  BY DEF StartServices, Smoke, SyncRoot, PublishMarker, PublishPrevious, PublishCurrent,
         RemoveAdoption, RecordSuccess, CandidateFailed, RollbackFailed, RecordRollback
<1>2. /\ Acting \cup {"failed", "lost"} \subseteq Cutting \cup Returning
      /\ (Acting \cup {"failed", "lost"}) \cap
           {"done_journal", "done_prepared", "clean_prepared", "clean_pointerless"} = {}
  BY DEF Cutting, Returning
<1>3. Acting \subseteq DOMAIN Then
  BY DEF Then
<1>4. pc \in Trans /\ Expendable
  BY <1>1, <1>2 DEF Trans, RollbackInv
<1>5. ASSUME pc \in Acting, Succeed PROVE Goes
  BY <1>1, <1>2, <1>3, <1>4, <1>5, SucceedGoes
<1>6. ASSUME Fail PROVE Goes
  BY <1>4, <1>6, FailGoes
<1>7. Goes
  <2>1. CASE StartServices \/ SyncRoot \/ PublishMarker \/ PublishPrevious \/ PublishCurrent
             \/ RemoveAdoption \/ RecordRollback
    <3>1. Succeed \/ Fail
      BY <2>1 DEF StartServices, SyncRoot, PublishMarker, PublishPrevious, PublishCurrent,
                  RemoveAdoption, RecordRollback
    <3>2. pc \in Acting
      BY <2>1 DEF StartServices, SyncRoot, PublishMarker, PublishPrevious, PublishCurrent,
                  RemoveAdoption, RecordRollback
    <3> QED
      BY <1>5, <1>6, <3>1, <3>2
  <2>2. CASE RecordSuccess \/ RollbackFailed
    <3>1. (pc \in Acting /\ Succeed) \/ Fail \/ End("idle")
      BY <2>2 DEF RecordSuccess, RollbackFailed
    <3> QED
      BY <1>5, <1>6, <3>1, IdleGoes
  <2>3. CASE Smoke
    <3>1. CASE pc = "smoke" /\ pc' = "failed" /\ op' = [op EXCEPT !.stage = "service_state"]
               /\ UNCHANGED <<owned, started>>
      <4>1. op'.commit = op.commit /\ op'.from = op.from /\ op'.obsolete = op.obsolete
        BY <3>1 DEF ReleaseInv, LockTyped, Operations
      <4>2. pc' \in Trans /\ pc \in Cutting /\ pc' \notin Cleared
        BY <3>1, ClearedInside DEF Trans, Cutting
      <4> QED
        BY <3>1, <4>1, <4>2 DEF Goes
    <3>2. CASE End("back_outcome")
      <4>1. pc' = "back_outcome" /\ op' = op /\ owned' = owned
        BY <3>2 DEF End
      <4>2. pc' \in Trans /\ pc' \notin Opening \cup Cutting \cup Cleared
        BY <4>1 DEF Trans, Opening, Cutting, Returning, Cleared
      <4> QED
        BY <4>1, <4>2 DEF Goes
    <3>3. \/ pc \in Acting /\ (Succeed \/ Fail \/ End("back_outcome"))
          \/ pc = "smoke" /\ pc' = "failed" /\ op' = [op EXCEPT !.stage = "service_state"]
               /\ UNCHANGED <<owned, started>>
      BY <2>3 DEF Smoke
    <3> QED
      BY <1>5, <1>6, <3>1, <3>2, <3>3
  <2>4. CASE CandidateFailed
    <3>1. CASE End("back_start")
      <4>1. pc' = "back_start" /\ op' = op /\ owned' = owned
        BY <3>1 DEF End
      <4>2. pc' \in Trans /\ pc' \notin Opening \cup Cutting \cup Cleared
        BY <4>1 DEF Trans, Opening, Cutting, Returning, Cleared
      <4> QED
        BY <4>1, <4>2 DEF Goes
    <3> QED
      BY <2>4, <3>1, IdleGoes DEF CandidateFailed
  <2> QED
    BY <2>1, <2>2, <2>3, <2>4
<1> HIDE DEF Acting
<1> QED
  BY <1>1, <1>2, <1>7, QuietCutover

LEMMA RollbackOpenSteps ==
  ASSUME ReleaseInv, ServedInv, RollbackInv, Decide \/ OpenJournal
  PROVE  RollbackInv'
<1>1. /\ pc \in {"decide", "open"} /\ (Succeed \/ Fail)
      /\ UNCHANGED <<evidence, current, previous, prepared>>
      /\ journal' = journal \/ journal'.previous = op.from
  BY DEF Decide, OpenJournal, pointers
<1>2. pc \in Opening /\ pc \in Trans /\ pc \in DOMAIN Then /\ pc # "done_journal"
  BY <1>1 DEF Opening, Trans, Then
<1>3. journal = None
  <2>1. pc \notin Cutting \cup Returning \cup {"idle"}
    BY <1>1 DEF Cutting, Returning
  <2> QED
    BY <2>1 DEF ServedInv, JournalNamed
<1>4. \A x : Intact(x) => Intact(x)'
  BY <1>1 DEF evidence, Intact
<1>5. Intact(op.from)
  BY <1>2 DEF RollbackInv, ReleasesKept
<1>6. journal' # None => Intact(journal.previous)'
  BY <1>1, <1>3, <1>4, <1>5
<1>7. Goes
  BY <1>1, <1>2, SucceedGoes, FailGoes DEF RollbackInv
<1>8. pc' \notin Cleared
  BY <1>1, <1>7, ClearedInside, Outside DEF Goes
<1> QED
  BY <1>1, <1>2, <1>3, <1>4, <1>6, <1>7, <1>8, TransactionKeeps

(* The cleanup of a failed candidate touches nothing else.                 *)
LEMMA RollbackCleanSteps ==
  ASSUME ReleaseInv, RollbackInv, pc \notin Preparing \cup Replacing,
         RemoveTags \/ RemoveDirectory \/ RemovePrepared \/ WritePhase
  PROVE  RollbackInv'
<1>1. /\ pc \in {"clean_tags", "clean_dir", "clean_prepared", "done_prepared"}
           \/ pc \in DOMAIN PhaseAt
      /\ Succeed \/ Fail
      /\ pc # "done_journal"
  <2>1. pc \in {"clean_tags", "clean_dir", "clean_prepared", "done_prepared"}
           \/ pc \in DOMAIN PhaseAt
    BY DEF RemoveTags, RemoveDirectory, RemovePrepared, WritePhase, Preparing, Replacing
  <2>2. Succeed \/ Fail
    BY DEF RemoveTags, RemoveDirectory, RemovePrepared, WritePhase
  <2> QED
    BY <2>1, <2>2 DEF PhaseAt
<1>2. pc \in Cutting \cup Returning /\ pc \in Trans /\ pc \in DOMAIN Then
  <2>1. {"clean_tags", "clean_dir", "clean_prepared", "done_prepared"}
          \subseteq (Cutting \cup Returning) \cap DOMAIN Then
    BY DEF Cutting, Returning, Then
  <2> QED
    BY <1>1, <2>1, PhasesStay DEF Trans
<1>3. Goes
  BY <1>1, <1>2, SucceedGoes, FailGoes DEF RollbackInv
<1>4. journal # None /\ journal.previous = op.from /\ journal \in Transactions
  BY <1>2 DEF ReleaseInv, JournalMatches, RecordsTyped
<1>5. journal' # None /\ journal'.previous = op.from
  <2>1. CASE journal' = journal
    BY <1>4, <2>1
  <2>2. CASE WritePhase /\ journal' = [journal EXCEPT !.phase = PhaseAt[pc]]
    <3>1. pc \in DOMAIN PhaseAt
      BY <2>2 DEF WritePhase
    <3>2. journal' \in Transactions /\ journal'.previous = journal.previous
      BY <1>4, <2>2, <3>1 DEF Transactions
    <3> QED
      BY <1>4, <3>2, NoneAssumption
  <2> QED
    BY <2>1, <2>2 DEF RemoveTags, RemoveDirectory, RemovePrepared, WritePhase
<1>6. /\ Intact(op.from)
      /\ pc \in Opening \cup Cutting => Intact(op.commit)
      /\ op.from # op.commit /\ op.obsolete # op.commit
  <2>1. op.commit \in Commits /\ op.commit # op.from
    BY <1>2, Outside DEF ReleaseInv, OpKnown
  <2> QED
    BY <1>2, <2>1, ReleaseAssumption DEF RollbackInv, ReleasesKept
<1>7. \A x \in {op.from, op.obsolete} : Intact(x) => Intact(x)'
  <2>1. Target = op.commit
    <3>1. pc \notin {"expired_tags", "expired_dir", "expired_decision",
                     "superseded_tags", "superseded_dir"}
      BY DEF Replacing
    <3> QED
      BY <3>1 DEF Target
  <2>2. CASE RemoveTags \/ RemoveDirectory \/ WritePhase
    BY <1>6, <2>1, <2>2, RemovesTarget
  <2>3. CASE RemovePrepared
    BY <2>3 DEF RemovePrepared, evidence, Intact
  <2> QED
    BY <2>2, <2>3
<1>8. \A x : x = op.commit /\ pc' \in Opening \cup Cutting => (Intact(x) => Intact(x)')
  <2>1. SUFFICES ASSUME pc' \in Opening \cup Cutting, NEW x, x = op.commit, Intact(x)
                 PROVE  Intact(x)'
    OBVIOUS
  <2>2. pc' # "idle" /\ pc \in Opening \cup Cutting
    BY <1>3, <2>1, Outside DEF Goes
  <2>3. pc \notin {"clean_tags", "clean_tagless", "clean_removing", "clean_dir"}
    BY <2>2 DEF Opening, Cutting
  <2>4. UNCHANGED evidence
    BY <2>3 DEF RemoveTags, RemoveDirectory, RemovePrepared, WritePhase, Retag, evidence,
                Preparing, Replacing
  <2> QED
    BY <2>1, <2>4 DEF evidence, Intact
<1>9. pc' \in Cleared => prepared' = None
  <2>1. SUFFICES ASSUME pc' \in Cleared PROVE prepared' = None
    OBVIOUS
  <2>2. pc \in {"done_prepared", "clean_prepared", "clean_pointerless"}
    BY <1>3, <2>1, ClearedInside, Outside DEF Goes
  <2>3. CASE pc = "clean_pointerless"
    <3>1. prepared = None
      BY <2>3 DEF RollbackInv, PreparedParts
    <3>2. prepared' = prepared
      BY <2>3 DEF RemoveTags, RemoveDirectory, RemovePrepared, WritePhase, pointers
    <3> QED
      BY <3>1, <3>2
  <2>4. CASE pc \in {"done_prepared", "clean_prepared"}
    <3>1. ~ Fail
      BY <1>2, <2>1, FailGoes, ClearedInside, Outside
    <3>2. pc \notin DOMAIN PhaseAt /\ pc \notin {"clean_tags", "clean_dir"}
      BY <2>4 DEF PhaseAt
    <3> QED
      BY <2>4, <3>1, <3>2 DEF RemoveTags, RemoveDirectory, RemovePrepared, WritePhase
  <2> QED
    BY <2>2, <2>3, <2>4
<1>10. journal' # None => Intact(journal.previous)'
  BY <1>5, <1>6, <1>7
<1> QED
  BY <1>2, <1>3, <1>4, <1>5, <1>7, <1>8, <1>9, <1>10, TransactionKeeps

(* When the journal is removed, what it stood for is in the pointers.      *)
LEMMA RollbackClosed ==
  ASSUME ReleaseInv, ServedInv, RollbackInv, RemoveJournal
  PROVE  RollbackInv'
<1>1. /\ pc \in {"clean_journal", "done_journal"} /\ pc \in Cutting \cup Returning /\ pc \in Trans
      /\ UNCHANGED <<evidence, current, previous, prepared>>
      /\ pc \in DOMAIN Then
  BY DEF RemoveJournal, pointers, Cutting, Returning, Trans, Then
<1>2. /\ journal # None /\ journal.previous = op.from
      /\ op.commit \in Commits /\ op.from \in Commits /\ op.commit # op.from
  BY <1>1, Outside DEF ReleaseInv, JournalMatches, OpKnown
<1>3. /\ Intact(op.from)
      /\ pc \in Opening \cup Cutting => Intact(op.commit)
      /\ op.obsolete # None => Intact(op.obsolete) /\ op.obsolete \notin {op.commit, op.from}
  BY <1>1 DEF RollbackInv, ReleasesKept
<1>4. \A x : Intact(x) => Intact(x)'
  BY <1>1 DEF evidence, Intact
<1>5. /\ pc = "done_journal" => current = op.commit /\ previous = op.from
      /\ pc = "clean_journal" => current = op.from /\ previous = op.obsolete
  BY DEF ServedInv, CutReached, BackReached, Closing, Repointed, Recurrent, Cleaning
<1>6. pc = "done_journal" => pc \in Cutting
  BY DEF Cutting
<1>7. \A x \in {current, previous} \ {None} : Intact(x)'
  <2>1. \A x \in {current, previous} \ {None} : Intact(x)
    BY <1>1, <1>3, <1>5, <1>6
  <2> QED
    BY <1>4, <2>1
<1>8. RollbackReady'
  <2>1. journal' # None => journal' = journal
    BY DEF RemoveJournal
  <2>2. journal' # None => Intact(journal.previous)'
    BY <1>2, <1>3, <1>4, <2>1
  <2>3. \A x \in {current', previous'} \ {None} : Intact(x)'
    BY <1>1, <1>7
  <2> QED
    BY <2>2, <2>3 DEF RollbackReady
<1>9. prepared' = None
  BY <1>1 DEF RollbackInv, PreparedParts
<1>10. CASE pc' = "idle" /\ owned' = {}
  <2>1. Expendable'
    BY <1>10, IdleExpendable
  <2>2. ReleasesKept'
    BY <1>10, Outside DEF ReleasesKept
  <2>3. PreparedParts'
    BY <1>9 DEF PreparedParts
  <2> QED
    BY <1>8, <2>1, <2>2, <2>3 DEF RollbackInv
<1>11. CASE pc = "done_journal" /\ op.obsolete # None /\ pc' = "superseded_tags"
            /\ op' = op /\ owned' = owned
  <2>1. Expendable'
    <3>1. owned = {}
      <4>1. pc \notin Preparing \cup {"abort"}
        BY <1>11 DEF Preparing
      <4> QED
        BY <4>1 DEF RollbackInv, Expendable
    <3>2. op'.obsolete \notin {current', previous'}
      BY <1>1, <1>3, <1>5, <1>11
    <3>3. pc' \notin Preparing /\ pc' \notin Extracted /\ pc' \notin Adopting
      BY <1>11 DEF Preparing, Extracted, Adopting
    <3> QED
      BY <1>11, <3>1, <3>2, <3>3 DEF Expendable, Kept
  <2>2. ReleasesKept'
    <3>1. pc' \notin Opening \cup Cutting \cup Returning
      BY <1>11, Apart
    <3> QED
      BY <3>1 DEF ReleasesKept
  <2>3. PreparedParts'
    BY <1>9 DEF PreparedParts
  <2> QED
    BY <1>8, <2>1, <2>2, <2>3 DEF RollbackInv
<1>12. ASSUME Fail PROVE pc' = "idle" /\ owned' = {}
  <2>1. FailureOf(pc) = "idle"
    BY <1>1 DEF FailureOf, Preparing, StageAt, Reversing
  <2> QED
    BY <1>12, <2>1 DEF Fail, End
<1>13. Then["done_journal"] = "superseded_tags" /\ Then["clean_journal"] = "idle"
  BY DEF Then
<1> QED
  BY <1>1, <1>10, <1>11, <1>12, <1>13 DEF RemoveJournal, Succeed, End

LEMMA RollbackKilled ==
  ASSUME RollbackInv, Kill
  PROVE  RollbackInv'
<1>1. /\ pc' = "idle" /\ owned' = {} /\ UNCHANGED <<evidence, current, previous, prepared, journal>>
  BY DEF Kill, End, pointers
<1>2. Expendable' /\ ReleasesKept'
  BY <1>1, IdleExpendable, Outside DEF ReleasesKept
<1>3. PreparedParts'
  BY <1>1 DEF RollbackInv, PreparedParts
<1>4. RollbackReady'
  BY <1>1 DEF RollbackInv, RollbackReady, evidence, Intact
<1> QED
  BY <1>2, <1>3, <1>4 DEF RollbackInv

LEMMA RollbackPrepares ==
  ASSUME ReleaseInv, RollbackInv, NEW c \in Commits, NEW retry \in BOOLEAN, Prepare(c, retry)
  PROVE  RollbackInv'
<1>1. /\ pc = "idle" /\ journal = None /\ LayoutValid /\ c # Active
      /\ UNCHANGED <<evidence, current, previous, prepared, journal, owned>>
      /\ retry => prepared = c
      /\ pc' = IF retry THEN "retry_tags" ELSE "expiry"
      /\ op' = [NoOp EXCEPT !.commit = c, !.from = Active]
  BY DEF Prepare, MayStart, Blocked, Retryable, pointers
<1>2. owned' = {}
  <2>1. pc \notin Preparing \cup {"abort"}
    BY <1>1, Apart
  <2> QED
    BY <1>1, <2>1 DEF RollbackInv, Expendable
<1>3. current = None => previous = None
  BY <1>1 DEF LayoutValid
<1>4. retry => c \notin Kept
  <2>1. c # None
    BY ReleaseAssumption
  <2>2. c # current
    BY <1>1, <2>1 DEF Active
  <2>3. retry => c # previous
    BY <1>1, <2>1 DEF RollbackInv, PreparedParts
  <2> QED
    BY <2>2, <2>3 DEF Kept
<1>5. /\ pc' \in Preparing /\ pc' \notin Adopting /\ pc' \notin Replacing
      /\ pc' \in Extracted => retry
      /\ pc' \notin Opening \cup Cutting \cup Returning
  <2>1. pc' \in {"retry_tags", "expiry"} /\ (pc' = "retry_tags" => retry)
    BY <1>1
  <2> QED
    BY <2>1 DEF Preparing, Adopting, Replacing, Extracted, Opening, Cutting, Returning
<1>6. op'.commit = c
  BY <1>1 DEF NoOp
<1>7. Expendable'
  BY <1>1, <1>2, <1>3, <1>4, <1>5, <1>6 DEF Expendable, Kept
<1>8. \A x \in Kept \ {None} : Intact(x) => Intact(x)'
  BY <1>1 DEF evidence, Intact
<1> QED
  BY <1>1, <1>5, <1>7, <1>8, KeptApart

LEMMA RollbackActivates ==
  ASSUME ReleaseInv, RollbackInv, NEW c \in Commits, NEW policy \in Policies, Activate(c, policy)
  PROVE  RollbackInv'
<1>1. /\ pc = "idle" /\ journal = None /\ LayoutValid /\ c # Active
      /\ UNCHANGED <<evidence, current, previous, prepared, journal, owned>>
      /\ prepared = c /\ observed[c] = Active /\ tags[c] = "all" /\ Intact(Active)
      /\ pc' \in {"decide", "open"}
      /\ op' = [NoOp EXCEPT !.commit = c, !.policy = policy, !.from = Active,
                            !.obsolete = previous, !.first = (current = None)]
  BY DEF Activate, MayStart, Blocked, pointers
<1>2. op'.commit = c /\ op'.from = Active /\ op'.obsolete = previous
  BY <1>1 DEF NoOp
<1>3. Intact(c)
  <2>1. c \in releases
    BY <1>1, ReleaseAssumption DEF LayoutValid, Pointed
  <2>2. Active \in Commits
    BY ActiveKnown DEF ReleaseInv
  <2>3. observed[c] # None
    BY <1>1, <2>2, ReleaseAssumption
  <2> QED
    BY <1>1, <2>1, <2>3 DEF Intact
<1>4. previous # None => Intact(previous) /\ previous \notin {c, Active}
  <2>1. previous # None => Intact(previous)
    BY <1>1 DEF RollbackInv, RollbackReady
  <2>2. previous # None => previous # c
    BY <1>1, ReleaseAssumption DEF RollbackInv, PreparedParts
  <2>3. previous # None => previous # Active
    BY <1>1 DEF LayoutValid, Active
  <2> QED
    BY <2>1, <2>2, <2>3
<1>5. pc' \notin Preparing /\ pc' \notin Extracted /\ pc' \notin Adopting /\ pc' \notin Replacing
      /\ pc' \notin {"done_journal", "clean_pointerless", "clean_journal"}
  BY <1>1 DEF Preparing, Extracted, Adopting, Replacing
<1>6. owned' = {}
  <2>1. pc \notin Preparing \cup {"abort"}
    BY <1>1, Apart
  <2> QED
    BY <1>1, <2>1 DEF RollbackInv, Expendable
<1>7. Expendable'
  BY <1>5, <1>6 DEF Expendable
<1>8. \A x : Intact(x) => Intact(x)'
  BY <1>1 DEF evidence, Intact
<1>9. ReleasesKept'
  <2>1. /\ \A x : x = op'.from => Intact(x)'
        /\ \A x : x = op'.commit => Intact(x)'
        /\ \A x : x = op'.obsolete /\ x # None => Intact(x)' /\ x \notin {op'.commit, op'.from}
    BY <1>1, <1>2, <1>3, <1>4, <1>8
  <2> QED
    BY <2>1 DEF ReleasesKept
<1>10. PreparedParts'
  BY <1>1, <1>5 DEF RollbackInv, PreparedParts
<1>11. RollbackReady'
  <2>1. \A x \in {current, previous} \ {None} : Intact(x)'
    BY <1>1, <1>8 DEF RollbackInv, RollbackReady
  <2>2. \A x \in {current', previous'} \ {None} : Intact(x)'
    BY <1>1, <2>1
  <2> QED
    BY <1>1, <2>2 DEF RollbackReady
<1> QED
  BY <1>7, <1>9, <1>10, <1>11 DEF RollbackInv

LEMMA RollbackInit == Init => RollbackInv
<1> SUFFICES ASSUME Init PROVE RollbackInv
  OBVIOUS
<1>1. pc = "idle" /\ owned = {} /\ journal = None /\ current = None /\ previous = None
      /\ prepared = None
  BY DEF Init
<1>2. pc \notin Preparing /\ pc \notin Extracted /\ pc \notin Adopting /\ pc \notin Replacing
      /\ pc \notin Opening \cup Cutting \cup Returning
  BY <1>1, Apart, Outside
<1> QED
  BY <1>1, <1>2 DEF RollbackInv, Expendable, ReleasesKept, PreparedParts, RollbackReady

LEMMA RollbackStep == ReleaseInv /\ ServedInv /\ RollbackInv /\ [Next]_vars => RollbackInv'
<1> SUFFICES ASSUME ReleaseInv, ServedInv, RollbackInv, [Next]_vars PROVE RollbackInv'
  OBVIOUS
<1>1. CASE Expire \/ UNCHANGED vars
  <2>1. UNCHANGED <<pc, op, owned, evidence, journal, current, previous, prepared>>
    BY <1>1 DEF Expire, vars, pointers, lock
  <2> QED
    BY <2>1 DEF RollbackInv, Expendable, Kept, ReleasesKept, PreparedParts, RollbackReady, Intact,
                evidence
<1>2. CASE RemoveStep
  <2>1. CASE RemoveJournal
    BY <2>1, RollbackClosed
  <2>2. CASE pc \in Preparing \cup Replacing /\ ~ RemoveJournal
    BY <1>2, <2>2, PreparedRemoveSteps DEF RemoveStep
  <2>3. CASE pc \notin Preparing \cup Replacing /\ ~ RemoveJournal
    <3>1. ~ RemoveDecision
      BY <2>3 DEF RemoveDecision, Preparing, Replacing
    <3> QED
      BY <1>2, <2>3, <3>1, RollbackCleanSteps DEF RemoveStep
  <2> QED
    BY <2>1, <2>2, <2>3
<1>3. CASE ActivateStep
  <2>1. CASE WritePhase
    <3>1. pc \in Cutting \cup Returning
      BY <2>1, PhasesStay DEF WritePhase
    <3>2. pc \notin Preparing \cup Replacing
      BY <3>1, Apart
    <3> QED
      BY <2>1, <3>2, RollbackCleanSteps
  <2> QED
    BY <1>3, <2>1, RollbackOpenSteps, RollbackQuietSteps DEF ActivateStep
<1>4. CASE Kill
  BY <1>4, RollbackKilled
<1>5. CASE PrepareStep
  BY <1>5, RollbackPrepareSteps
<1>6. CASE \/ \E c \in Commits, retry \in BOOLEAN : Prepare(c, retry)
           \/ \E c \in Commits, policy \in Policies : Activate(c, policy)
  BY <1>6, RollbackPrepares, RollbackActivates
<1> QED
  BY <1>1, <1>2, <1>3, <1>4, <1>5, <1>6 DEF Next

(* For any releases, whatever was cleaned up, aborted or killed: the       *)
(* release to go back to is there with its manifest and all its images.    *)
THEOREM AlwaysAWayBack == Spec => []RollbackReady
<1>1. ReleaseInv /\ ServedInv /\ RollbackInv /\ [Next]_vars
        => (ReleaseInv /\ ServedInv /\ RollbackInv)'
  BY StepInv, ServedStep, RollbackStep
<1>2. Init => ReleaseInv /\ ServedInv /\ RollbackInv
  BY InitInv, ServedInit, RollbackInit
<1>3. RollbackInv => RollbackReady
  BY DEF RollbackInv
<1> QED
  BY <1>1, <1>2, <1>3, PTL DEF Spec

-----------------------------------------------------------------------------
(* The outcomes that have been written.                                    *)

Unrecorded == (Cutting \ Closing) \cup (Returning \ (Cleaning \ {"back_outcome"}))

OutcomesDated ==
  /\ \A i \in 1 .. Len(history) : history[i].at <= started
  /\ pc \in Opening => \A i \in 1 .. Len(history) : history[i].at < started
  /\ pc \in Cutting \cup Returning => journal.at <= started
  /\ pc \in Unrecorded => \A i \in 1 .. Len(history) : history[i].at < journal.at

\* Where the outcome of the transaction has been written.
Landed == Closing \cup (Cleaning \ {"back_outcome"})

OutcomesRecorded ==
  pc \in Landed => history # <<>> /\ history[Len(history)].at = journal.at

OutcomesInv == OutcomesDated /\ OutcomesRecorded /\ OutcomesTrue

Served == <<running, root, marker, current>>

Follows ==
  /\ pc' \in Opening => pc \in Opening
  /\ pc' \in Unrecorded => pc \in Unrecorded
  /\ pc' \in Landed => pc \in Landed

LEMMA RecordedOrNot ==
  /\ Unrecorded \cup Landed = Cutting \cup Returning
  /\ Unrecorded \cap Landed = {}
  /\ Opening \cap (Cutting \cup Returning) = {}
<1>1. Opening \cap (Cutting \cup Returning) = {}
  BY DEF Opening, Cutting, Returning
<1>2. Closing \subseteq Cutting /\ Cleaning \subseteq Returning /\ Cutting \cap Returning = {}
  BY DEF Closing, Cutting, Cleaning, Returning
<1> QED
  BY <1>1, <1>2 DEF Unrecorded, Landed

LEMMA HistoryTyped ==
  ASSUME ReleaseInv
  PROVE  /\ Len(history) \in Nat
         /\ history # <<>> => Len(history) \in 1 .. Len(history)
         /\ \A i \in 1 .. Len(history) : history[i] \in Outcomes /\ history[i].at \in Nat
         /\ journal # None => journal.at \in Nat
         /\ started \in Nat
<1>1. history \in Seq(Outcomes) /\ started \in Nat
  <2>1. started \in 0 .. MaxOperations /\ MaxOperations \in Nat
    BY ReleaseAssumption DEF ReleaseInv, LockTyped
  <2> QED
    BY <2>1 DEF ReleaseInv, RecordsTyped
<1>2. \A o \in Outcomes : o.at \in Nat
  BY ReleaseAssumption DEF Outcomes
<1>3. journal # None => journal.at \in Nat
  BY ReleaseAssumption DEF ReleaseInv, RecordsTyped, Transactions
<1>4. Len(history) \in Nat /\ (history # <<>> => Len(history) > 0)
  BY <1>1
<1> QED
  BY <1>1, <1>2, <1>3, <1>4

(* As long as nothing is written, what was true of the outcomes stays so.  *)
LEMMA OutcomesStay ==
  ASSUME ReleaseInv, ReleaseInv', OutcomesInv, UNCHANGED <<history, started>>, Follows,
         journal' = None => (journal = None \/ pc \in Landed) /\ UNCHANGED Served,
         journal' # None => journal # None /\ journal'.at = journal.at,
         pc \in Unrecorded \/ UNCHANGED Served
  PROVE  OutcomesInv'
<1>1. pc' \in Cutting \cup Returning => pc \in Cutting \cup Returning
  BY RecordedOrNot DEF Follows
<1>2. pc' \in Cutting \cup Returning => journal' # None /\ journal'.at = journal.at
  BY DEF ReleaseInv, JournalMatches
<1>3. pc' \in Unrecorded \cup Landed => pc' \in Cutting \cup Returning
  BY RecordedOrNot
<1>4. OutcomesDated'
  BY <1>1, <1>2, <1>3 DEF OutcomesInv, OutcomesDated, Follows
<1>5. OutcomesRecorded'
  BY <1>2, <1>3 DEF OutcomesInv, OutcomesRecorded, Follows
<1>6. OutcomesTrue'
  <2>1. SUFFICES ASSUME history # <<>> PROVE OutcomesTrue'
    BY DEF OutcomesTrue
  <2> DEFINE o == history[Len(history)]
  <2>2. \A i \in 1 .. Len(history) - 1 : history[i].at < history[i + 1].at
    BY <2>1 DEF OutcomesInv, OutcomesTrue
  <2>3. ASSUME journal' = None \/ journal'.at = o.at,
               o.status \in {"succeeded", "rolled back"},
               NEW s, s = IF o.status = "succeeded" THEN o.candidate ELSE o.previous
        PROVE  running' = s /\ root' = s /\ marker' = s /\ Active' = s
    <3>1. journal = None \/ journal.at = o.at
      BY <2>1, <2>3 DEF OutcomesInv, OutcomesRecorded
    <3>2. pc \notin Unrecorded \/ UNCHANGED Served
      <4>1. SUFFICES ASSUME pc \in Unrecorded, journal' # None PROVE FALSE
        OBVIOUS
      <4>2. Len(history) \in 1 .. Len(history) /\ o.at \in Nat /\ journal.at \in Nat
        BY <2>1, <4>1, HistoryTyped
      <4>3. o.at < journal.at
        BY <4>1, <4>2 DEF OutcomesInv, OutcomesDated
      <4>4. journal.at = o.at
        BY <2>3, <4>1
      <4> HIDE DEF o
      <4> QED
        BY <4>2, <4>3, <4>4
    <3>3. UNCHANGED Served
      BY <3>2
    <3>4. running = s /\ root = s /\ marker = s /\ Active = s
      BY <2>1, <2>3, <3>1 DEF OutcomesInv, OutcomesTrue
    <3> QED
      BY <3>3, <3>4 DEF Served, Active
  <2> QED
    BY <2>1, <2>2, <2>3 DEF OutcomesTrue
<1> QED
  BY <1>4, <1>5, <1>6 DEF OutcomesInv

LEMMA Appended ==
  ASSUME NEW S, NEW h \in Seq(S), NEW e \in S
  PROVE  /\ Len(h) \in Nat /\ Len(Append(h, e)) = Len(h) + 1 /\ Append(h, e) # <<>>
         /\ \A i \in 1 .. Len(h) : Append(h, e)[i] = h[i]
         /\ Append(h, e)[Len(h) + 1] = e
OBVIOUS

Rising(h) == \A i \in 1 .. Len(h) - 1 : h[i].at < h[i + 1].at
Before(h, t) == \A i \in 1 .. Len(h) : h[i].at < t
UpTo(h, t) == \A i \in 1 .. Len(h) : h[i].at \in Nat /\ h[i].at <= t

LEMMA OutcomeAppended ==
  ASSUME NEW h \in Seq(Outcomes), NEW e \in Outcomes, Before(h, e.at), Rising(h)
  PROVE  /\ Append(h, e) # <<>> /\ Append(h, e)[Len(Append(h, e))] = e
         /\ UpTo(Append(h, e), e.at) /\ Rising(Append(h, e))
<1> DEFINE g == Append(h, e)
<1> DEFINE k == Len(h)
<1>1. /\ k \in Nat /\ Len(g) = k + 1 /\ g # <<>>
      /\ \A i \in 1 .. k : g[i] = h[i] /\ h[i] \in Outcomes
      /\ g[k + 1] = e
  BY Appended
<1>2. \A o \in Outcomes : o.at \in Nat
  BY ReleaseAssumption DEF Outcomes
<1>3. \A i \in 1 .. k : h[i].at \in Nat /\ h[i].at < e.at
  BY <1>1, <1>2 DEF Before
<1>4. \A i \in 1 .. k - 1 : h[i].at < h[i + 1].at
  BY DEF Rising
<1>5. e.at \in Nat
  BY <1>2
<1> HIDE DEF k, g
<1>6. ASSUME NEW i \in 1 .. k + 1 PROVE g[i].at \in Nat /\ g[i].at <= e.at
  <2>1. CASE i = k + 1
    BY <1>1, <1>5, <2>1
  <2>2. CASE i # k + 1
    <3>1. i \in 1 .. k
      BY <1>1, <2>2
    <3> QED
      BY <1>1, <1>3, <1>5, <3>1
  <2> QED
    BY <2>1, <2>2
<1>7. ASSUME NEW i \in 1 .. k PROVE g[i].at < g[i + 1].at
  <2>1. CASE i = k
    BY <1>1, <1>3, <2>1
  <2>2. CASE i # k
    <3>1. i \in 1 .. k - 1 /\ i + 1 \in 1 .. k
      BY <1>1, <2>2
    <3> QED
      BY <1>1, <1>4, <3>1
  <2> QED
    BY <2>1, <2>2
<1>8. 1 .. Len(g) - 1 = 1 .. k
  BY <1>1
<1>9. UpTo(g, e.at)
  BY <1>1, <1>6 DEF UpTo
<1>10. Rising(g)
  BY <1>7, <1>8 DEF Rising
<1> QED
  BY <1>1, <1>9, <1>10 DEF g

\* What serves is what the outcome will say.
Reached(status) ==
  LET s == IF status = "succeeded" THEN journal.candidate ELSE journal.previous
  IN  status \in {"succeeded", "rolled back"} =>
        running = s /\ root = s /\ marker = s /\ Active = s

(* An outcome is written once, and is that of what serves.                 *)
LEMMA OutcomeWritten ==
  ASSUME ReleaseInv, ReleaseInv', OutcomesInv, pc \in Unrecorded, NEW status \in Statuses, Record(status),
         UNCHANGED <<journal, started>>, UNCHANGED Served, pc' \in {"idle"} \cup Landed,
         Reached(status)
  PROVE  OutcomesInv'
<1> DEFINE entry == [candidate |-> journal.candidate, previous |-> journal.previous,
                     status |-> status, at |-> journal.at]
<1>1. journal # None /\ journal.at \in Nat /\ journal.at <= started /\ started \in Nat
  <2>1. journal # None /\ journal.at <= started
    BY RecordedOrNot DEF OutcomesInv, OutcomesDated, ReleaseInv, JournalMatches
  <2> QED
    BY <2>1, HistoryTyped
<1>2. entry.at = journal.at /\ entry.status = status
      /\ entry.candidate = journal.candidate /\ entry.previous = journal.previous
  OBVIOUS
<1>3. history \in Seq(Outcomes) /\ history' = Append(history, entry) /\ entry \in Outcomes
  <2>1. history \in Seq(Outcomes) /\ history' = Append(history, entry)
    BY DEF ReleaseInv, RecordsTyped, Record
  <2>2. journal \in Transactions
    BY <1>1 DEF ReleaseInv, RecordsTyped
  <2>3. entry \in Outcomes
    BY <2>2 DEF Transactions, Outcomes
  <2> QED
    BY <2>1, <2>3
<1> HIDE DEF entry
<1>4. /\ history' # <<>> /\ history'[Len(history')] = entry
      /\ UpTo(history', entry.at) /\ Rising(history')
  <2>1. Before(history, entry.at)
    BY <1>2 DEF OutcomesInv, OutcomesDated, Before
  <2>2. Rising(history)
    <3>1. CASE history = <<>>
      <4>1. Len(history) = 0
        BY <3>1
      <4> QED
        BY <4>1 DEF Rising
    <3>2. CASE history # <<>>
      BY <3>2 DEF OutcomesInv, OutcomesTrue, Rising
    <3> QED
      BY <3>1, <3>2
  <2> QED
    BY <1>3, <2>1, <2>2, OutcomeAppended
<1>6. OutcomesDated'
  <2>1. pc' \notin Opening /\ pc' \notin Unrecorded
    BY RecordedOrNot, Outside
  <2>2. ASSUME NEW i \in 1 .. Len(history') PROVE history'[i].at <= started
    <3>1. history'[i].at \in Nat /\ history'[i].at <= entry.at
      BY <1>4, <2>2 DEF UpTo
    <3>2. entry.at \in Nat /\ entry.at <= started /\ started \in Nat
      BY <1>1, <1>2
    <3> QED
      BY <3>1, <3>2
  <2> QED
    BY <1>1, <2>1, <2>2 DEF OutcomesDated
<1>7. OutcomesRecorded'
  BY <1>2, <1>4 DEF OutcomesRecorded
<1>9. OutcomesTrue'
  <2>1. Active' = Active /\ UNCHANGED <<running, root, marker>>
    BY DEF Served, Active
  <2>2. history'[Len(history')] = entry
    BY <1>4
  <2> DEFINE s == IF entry.status = "succeeded" THEN entry.candidate ELSE entry.previous
  <2>3. entry.status \in {"succeeded", "rolled back"} =>
          running' = s /\ root' = s /\ marker' = s /\ Active' = s
    BY <1>2, <2>1 DEF Reached
  <2> QED
    BY <1>4, <2>2, <2>3 DEF OutcomesTrue, Rising
<1> QED
  BY <1>6, <1>7, <1>9 DEF OutcomesInv

(* Where the commands lead.                                                *)
LEMMA AsideFollows ==
  ASSUME pc' \notin Opening \cup Cutting \cup Returning
  PROVE  Follows
BY RecordedOrNot DEF Follows

LEMMA IdleFollows ==
  ASSUME pc' = "idle"
  PROVE  Follows
BY AsideFollows, Outside

LEMMA ThenFollows ==
  ASSUME NEW p \in DOMAIN Then, p \notin {"open", "outcome", "back_outcome"}
  PROVE  /\ Then[p] \in Opening => p \in Opening
         /\ Then[p] \in Unrecorded => p \in Unrecorded
         /\ Then[p] \in Landed => p \in Landed
<1>1. Then[p] \in Opening => p \in Opening
  BY ThenStays
<1>2. Then[p] \in Unrecorded => p \in Unrecorded
  <2>1. Then[p] \in Cutting \ Closing => p \in Cutting \ Closing
    BY DEF Then, Cutting, Closing
  <2>2. Then[p] \in Returning \ (Cleaning \ {"back_outcome"}) =>
          p \in Returning \ (Cleaning \ {"back_outcome"})
    BY DEF Then, Returning, Cleaning
  <2> QED
    BY <2>1, <2>2 DEF Unrecorded
<1>3. Then[p] \in Landed => p \in Landed
  BY DEF Then, Landed, Closing, Cleaning
<1> QED
  BY <1>1, <1>2, <1>3

LEMMA SucceedFollows ==
  ASSUME pc \in DOMAIN Then, pc \notin {"open", "outcome", "back_outcome"}, Succeed
  PROVE  Follows
<1>1. pc' = Then[pc]
  BY DEF Succeed, End
<1> QED
  BY <1>1, ThenFollows DEF Follows

LEMMA FailFollows ==
  ASSUME Fail
  PROVE  Follows
<1>1. CASE FailureOf(pc) = "failed"
  <2>1. pc' = "failed"
    BY <1>1 DEF Fail
  <2>2. pc \in DOMAIN StageAt
    BY <1>1 DEF FailureOf
  <2>3. pc \in Cutting \ Closing /\ "failed" \in Cutting \ Closing /\ "failed" \notin Opening
    BY <2>2 DEF StageAt, Cutting, Closing, Opening
  <2>4. "failed" \in Unrecorded /\ pc \in Unrecorded
    BY <2>3 DEF Unrecorded
  <2> QED
    BY <2>1, <2>3, <2>4, RecordedOrNot DEF Follows
<1>2. CASE FailureOf(pc) = "lost"
  <2>1. pc' = "lost"
    BY <1>2 DEF Fail, End
  <2>2. pc \in Reversing
    BY <1>2 DEF FailureOf
  <2>3. /\ {pc, "lost"} \subseteq Returning \ (Cleaning \ {"back_outcome"}) /\ "lost" \notin Opening
    BY <2>2 DEF Reversing, Returning, Cleaning, Opening
  <2>4. "lost" \in Unrecorded /\ pc \in Unrecorded
    BY <2>3 DEF Unrecorded
  <2> QED
    BY <2>1, <2>3, <2>4, RecordedOrNot DEF Follows
<1>3. CASE FailureOf(pc) \in {"abort", "idle"}
  <2>1. pc' \in {"abort", "idle"}
    BY <1>3 DEF Fail, End
  <2> QED
    BY <2>1, AsideFollows, Outside
<1> QED
  BY <1>1, <1>2, <1>3 DEF FailureOf

(* The phase of a transaction changes, not its epoch.                      *)
LEMMA PhaseWritten ==
  ASSUME ReleaseInv, WritePhase
  PROVE  journal # None /\ journal' # None /\ journal'.at = journal.at
<1>1. pc \in DOMAIN PhaseAt /\ pc \in Cutting \cup Returning
  BY PhasesStay DEF WritePhase
<1>2. journal \in Transactions /\ journal # None
  BY <1>1 DEF ReleaseInv, JournalMatches, RecordsTyped
<1> DEFINE later == [journal EXCEPT !.phase = PhaseAt[pc]]
<1>3. later \in Transactions /\ later.at = journal.at
  BY <1>1, <1>2 DEF Transactions
<1>4. later # None
  BY <1>3, NoneAssumption
<1> QED
  BY <1>2, <1>3, <1>4 DEF WritePhase

LEMMA OutcomesQuietSteps ==
  ASSUME ReleaseInv, ReleaseInv', OutcomesInv,
         \/ RemoveTags \/ RemoveDirectory \/ RemovePrepared \/ RemoveDecision \/ RemoveJournal
         \/ WritePhase \/ Decide \/ RemoveAdoption \/ Kill \/ PrepareStep
  PROVE  OutcomesInv'
<1>1. UNCHANGED <<history, started>> /\ UNCHANGED Served
  BY DEF RemoveTags, RemoveDirectory, RemovePrepared, RemoveDecision, RemoveJournal, WritePhase,
         Decide, RemoveAdoption, Kill, PrepareStep, Expiry, Import, Extract, AdoptTag, Build, Own,
         WriteManifest, WritePointer, Abort, Succeed, Fail, End, Served, site, pointers
<1>2. /\ journal' = None => journal = None \/ pc \in Landed
      /\ journal' # None => journal # None /\ journal'.at = journal.at
  <2>1. CASE RemoveJournal
    <3>1. pc \in Landed /\ journal' \in {journal, None}
      BY <2>1 DEF RemoveJournal, Landed, Closing, Cleaning
    <3> QED
      BY <3>1
  <2>2. CASE WritePhase
    BY <2>2, PhaseWritten
  <2>3. CASE ~ RemoveJournal /\ ~ WritePhase
    <3>1. journal' = journal
      BY <2>3 DEF RemoveTags, RemoveDirectory, RemovePrepared, RemoveDecision,
                  Decide, RemoveAdoption, Kill, PrepareStep, Expiry, Import, Extract, AdoptTag,
                  Build, Own, WriteManifest, WritePointer, Abort
    <3> QED
      BY <3>1
  <2> QED
    BY <2>1, <2>2, <2>3
<1>3. Follows
  <2>1. CASE PrepareStep
    BY <2>1, PrepareLeads, AsideFollows
  <2>2. CASE Kill
    BY <2>2, IdleFollows DEF Kill, End
  <2>3. CASE RemoveJournal
    <3>1. pc \in DOMAIN Then /\ pc \notin {"open", "outcome", "back_outcome"}
      BY <2>3 DEF RemoveJournal, Then
    <3>2. Succeed \/ Fail \/ End("idle")
      BY <2>3 DEF RemoveJournal
    <3>3. End("idle") => pc' = "idle"
      BY DEF End
    <3> QED
      BY <3>1, <3>2, <3>3, SucceedFollows, FailFollows, IdleFollows
  <2>4. CASE RemoveTags \/ RemoveDirectory \/ RemovePrepared \/ RemoveDecision \/ WritePhase
             \/ Decide \/ RemoveAdoption
    <3>1. pc \in {"retry_tags", "expired_tags", "clean_tags", "superseded_tags", "retry_dir",
                  "expired_dir", "clean_dir", "superseded_dir", "retry_prepared",
                  "expired_prepared", "clean_prepared", "done_prepared", "retry_decision",
                  "expired_decision", "decide", "unadopt", "back_unadopt"}
            \/ pc \in DOMAIN PhaseAt
      BY <2>4 DEF RemoveTags, RemoveDirectory, RemovePrepared, RemoveDecision, WritePhase, Decide,
                  RemoveAdoption
    <3>2. Succeed \/ Fail
      BY <2>4 DEF RemoveTags, RemoveDirectory, RemovePrepared, RemoveDecision, WritePhase, Decide,
                  RemoveAdoption
    <3>3. pc \in DOMAIN PhaseAt =>
            pc \in DOMAIN Then /\ pc \notin {"open", "outcome", "back_outcome"}
      BY DEF Then, PhaseAt
    <3>4. pc \notin DOMAIN PhaseAt =>
            pc \in DOMAIN Then /\ pc \notin {"open", "outcome", "back_outcome"}
      BY <3>1 DEF Then
    <3> QED
      BY <3>2, <3>3, <3>4, SucceedFollows, FailFollows
  <2> QED
    BY <2>1, <2>2, <2>3, <2>4
<1> QED
  BY <1>1, <1>2, <1>3, OutcomesStay

LEMMA NothingRecorded ==
  ASSUME ReleaseInv, NEW status, Record(status)
  PROVE  history' # history
<1> DEFINE entry == [candidate |-> journal.candidate, previous |-> journal.previous,
                     status |-> status, at |-> journal.at]
<1>1. history \in Seq(Outcomes) /\ history' = Append(history, entry)
  BY DEF ReleaseInv, RecordsTyped, Record
<1> HIDE DEF entry
<1>2. Len(history') = Len(history) + 1 /\ Len(history) \in Nat
  BY <1>1
<1> QED
  BY <1>2

LEMMA OutcomesSiteSteps ==
  ASSUME ReleaseInv, ReleaseInv', OutcomesInv,
         \/ StartServices \/ Smoke \/ SyncRoot \/ PublishMarker \/ PublishPrevious
         \/ PublishCurrent \/ (CandidateFailed /\ UNCHANGED history)
         \/ (RollbackFailed /\ UNCHANGED history)
         \/ (RecordSuccess /\ UNCHANGED history) \/ (RecordRollback /\ UNCHANGED history)
  PROVE  OutcomesInv'
<1>1. UNCHANGED <<history, started, journal>>
  BY DEF StartServices, Smoke, SyncRoot, PublishMarker, PublishPrevious, PublishCurrent,
         CandidateFailed, RollbackFailed, RecordSuccess, RecordRollback, Succeed, Fail, End
<1> DEFINE Acting == {"start", "back_start", "smoke", "back_smoke", "sync", "back_sync",
                      "marker", "back_marker", "previous", "back_previous", "current",
                      "back_current"}
<1>2. pc \in Acting \cup {"failed", "lost", "outcome", "back_outcome"}
  BY DEF StartServices, Smoke, SyncRoot, PublishMarker, PublishPrevious, PublishCurrent,
         CandidateFailed, RollbackFailed, RecordSuccess, RecordRollback
<1>3. /\ Acting \cup {"failed", "lost", "outcome", "back_outcome"} \subseteq Unrecorded
      /\ Acting \subseteq DOMAIN Then /\ Acting \cap {"open", "outcome", "back_outcome"} = {}
      /\ {"back_start", "back_outcome"} \subseteq Unrecorded \ Opening
  BY DEF Unrecorded, Cutting, Closing, Returning, Cleaning, Then, Opening
<1>4. journal # None
  BY <1>2, <1>3, RecordedOrNot DEF ReleaseInv, JournalMatches
<1>5. pc' \in {"failed", "back_start", "back_outcome", "idle"} \/ Fail \/ (pc \in Acting /\ Succeed)
  <2>1. CASE StartServices \/ SyncRoot \/ PublishMarker \/ PublishPrevious \/ PublishCurrent
    BY <2>1 DEF StartServices, SyncRoot, PublishMarker, PublishPrevious, PublishCurrent
  <2>2. CASE Smoke
    BY <2>2 DEF Smoke, End
  <2>3. CASE CandidateFailed \/ RollbackFailed
    BY <2>3 DEF CandidateFailed, RollbackFailed, End
  <2>4. CASE RecordSuccess /\ UNCHANGED history
    BY <2>4, NothingRecorded DEF RecordSuccess
  <2>5. CASE RecordRollback /\ UNCHANGED history
    BY <2>5, NothingRecorded DEF RecordRollback
  <2> QED
    BY <2>1, <2>2, <2>3, <2>4, <2>5
<1>6. Follows
  <2>1. "failed" \in Unrecorded /\ "failed" \notin Opening
    BY <1>3 DEF Opening
  <2>2. ASSUME pc' \in {"failed", "back_start", "back_outcome"} PROVE Follows
    BY <1>2, <1>3, <2>1, <2>2, RecordedOrNot DEF Follows
  <2> HIDE DEF Acting
  <2> QED
    BY <1>3, <1>5, <2>2, IdleFollows, FailFollows, SucceedFollows
<1>7. pc \in Unrecorded
  BY <1>2, <1>3
<1> QED
  BY <1>1, <1>4, <1>6, <1>7, OutcomesStay

LEMMA OutcomesRecordSteps ==
  ASSUME ReleaseInv, ReleaseInv', ServedInv, OutcomesInv, history' # history,
         RecordSuccess \/ CandidateFailed \/ RollbackFailed \/ RecordRollback
  PROVE  OutcomesInv'
<1>1. UNCHANGED <<journal, started>> /\ UNCHANGED Served
  BY DEF CandidateFailed, RollbackFailed, RecordSuccess, RecordRollback, Succeed, Fail, End, Served,
         site, pointers
<1>2. pc \in {"failed", "lost", "outcome", "back_outcome"} /\ pc \in Unrecorded
  <2>1. pc \in {"failed", "lost", "outcome", "back_outcome"}
    BY DEF CandidateFailed, RollbackFailed, RecordSuccess, RecordRollback
  <2> QED
    BY <2>1 DEF Unrecorded, Cutting, Closing, Returning, Cleaning
<1>3. /\ Then["outcome"] = "done_prepared" /\ "done_prepared" \in Landed
      /\ Then["back_outcome"] = "back_recovered" /\ "back_recovered" \in Landed
  BY DEF Then, Landed, Closing, Cleaning
<1>4. journal # None /\ journal.previous = op.from /\ journal.candidate = op.commit
      /\ op.commit \in Commits /\ op.from \in Commits
  BY <1>2, RecordedOrNot, Outside DEF ReleaseInv, JournalMatches, OpKnown, ServedInv, JournalNamed
<1>5. CASE RecordSuccess
  <2>1. Committed /\ Record("succeeded") /\ pc = "outcome" /\ (Succeed \/ End("idle"))
    BY <1>5 DEF RecordSuccess
  <2>2. pc' \in {"idle"} \cup Landed
    BY <1>3, <2>1 DEF Succeed, End
  <2>3. Reached("succeeded")
    <3>1. running = op.commit
      BY <2>1 DEF ServedInv, CutReached, Serving
    <3>2. root = op.commit /\ marker = op.commit /\ current = op.commit /\ Active = op.commit
      BY <1>4, <2>1, ReleaseAssumption DEF Committed, Active
    <3> QED
      BY <1>4, <3>1, <3>2 DEF Reached
  <2>4. "succeeded" \in Statuses
    BY DEF Statuses
  <2> QED
    BY <1>1, <1>2, <2>1, <2>2, <2>3, <2>4, OutcomeWritten
<1>6. CASE RecordRollback
  <2>1. Record("rolled back") /\ pc = "back_outcome" /\ (Succeed \/ Fail)
    BY <1>6 DEF RecordRollback
  <2>2. pc' \in {"idle"} \cup Landed
    <3>1. FailureOf(pc) = "idle"
      BY <2>1 DEF FailureOf, Preparing, StageAt, Reversing
    <3> QED
      BY <1>3, <2>1, <3>1 DEF Succeed, Fail, End
  <2>3. Reached("rolled back")
    <3>1. pc \in Recurrent /\ pc \in Repointed /\ pc \in Remarked /\ pc \in Resynced
          /\ pc \in Restarted
      BY <2>1 DEF Restarted, Resynced, Remarked, Repointed, Recurrent, Cleaning
    <3>2. running = op.from /\ root = op.from /\ marker = op.from /\ current = op.from
      BY <3>1 DEF ServedInv, BackReached
    <3>3. Active = op.from
      BY <1>4, <3>2, ReleaseAssumption DEF Active
    <3> QED
      BY <1>4, <3>2, <3>3 DEF Reached
  <2>4. "rolled back" \in Statuses
    BY DEF Statuses
  <2> QED
    BY <1>1, <1>2, <2>1, <2>2, <2>3, <2>4, OutcomeWritten
<1>7. CASE CandidateFailed \/ RollbackFailed
  <2>1. End("idle") /\ \E status \in {"forward only", "rollback failed"} : Record(status)
    BY <1>7 DEF CandidateFailed, RollbackFailed
  <2>2. PICK status \in {"forward only", "rollback failed"} : Record(status)
    BY <2>1
  <2>3. status \in Statuses /\ Reached(status)
    BY DEF Statuses, Reached
  <2>4. pc' \in {"idle"} \cup Landed
    BY <2>1 DEF End
  <2> QED
    BY <1>1, <1>2, <2>2, <2>3, <2>4, OutcomeWritten
<1> QED
  BY <1>5, <1>6, <1>7

(* A transaction is younger than every outcome.                            *)
LEMMA OutcomesOpen ==
  ASSUME ReleaseInv, ReleaseInv', ServedInv, OutcomesInv, OpenJournal
  PROVE  OutcomesInv'
<1>1. pc = "open" /\ UNCHANGED <<history, started>> /\ UNCHANGED Served /\ (Succeed \/ Fail)
  BY DEF OpenJournal, Succeed, Fail, End, Served, site, pointers
<1>2. pc' \in {"start", "idle"}
  <2>1. FailureOf(pc) = "idle" /\ Then[pc] = "start"
    BY <1>1 DEF FailureOf, Preparing, StageAt, Reversing, Then
  <2> QED
    BY <1>1, <2>1 DEF Succeed, Fail, End
<1>3. pc' \notin Opening /\ pc' \notin Landed
  BY <1>2 DEF Opening, Landed, Closing, Cleaning
<1>4. \A i \in 1 .. Len(history) : history[i].at < started
  BY <1>1 DEF OutcomesInv, OutcomesDated, Opening
<1>5. CASE journal' = journal
  <2>1. journal = None
    BY <1>1 DEF ServedInv, JournalNamed, Cutting, Returning
  <2>2. Follows
    <3>1. pc' \notin Unrecorded
      BY <1>5, <2>1, RecordedOrNot DEF ReleaseInv, JournalMatches
    <3> QED
      BY <1>3, <3>1 DEF Follows
  <2> QED
    BY <1>1, <1>5, <2>1, <2>2, OutcomesStay
<1>6. CASE journal' # journal
  <2>1. journal' = [candidate |-> op.commit, previous |-> op.from, policy |-> op.policy,
                    phase |-> "cutover_started", at |-> started]
    BY <1>6 DEF OpenJournal
  <2>2. journal'.at = started /\ journal' # None /\ started \in Nat
    <3>1. journal' # None
      BY <1>1, <2>1, OpenedTyped DEF Opened
    <3> QED
      BY <2>1, <3>1, HistoryTyped
  <2>3. OutcomesDated'
    BY <1>1, <1>3, <1>4, <2>2, HistoryTyped DEF OutcomesDated
  <2>4. OutcomesRecorded'
    BY <1>3 DEF OutcomesRecorded
  <2>5. OutcomesTrue'
    <3>1. ASSUME history # <<>> PROVE history[Len(history)].at < started
      BY <1>4, <3>1, HistoryTyped
    <3>2. history # <<>> => history[Len(history)].at # journal'.at
      <4>1. history # <<>> => history[Len(history)].at \in Nat
        BY HistoryTyped
      <4> QED
        BY <2>2, <3>1, <4>1
    <3> QED
      BY <1>1, <2>2, <3>2 DEF OutcomesInv, OutcomesTrue
  <2> QED
    BY <2>3, <2>4, <2>5 DEF OutcomesInv
<1> QED
  BY <1>5, <1>6

LEMMA OutcomesBegin ==
  ASSUME ReleaseInv, ReleaseInv', OutcomesInv, NEW c \in Commits,
         \/ \E retry \in BOOLEAN : Prepare(c, retry)
         \/ \E policy \in Policies : Activate(c, policy)
  PROVE  OutcomesInv'
<1>1. /\ UNCHANGED <<history, journal>> /\ UNCHANGED Served /\ started' = started + 1
      /\ journal = None
  BY DEF Prepare, Activate, MayStart, Blocked, Served, site, pointers
<1>2. pc' \notin Unrecorded /\ pc' \notin Landed
  <2>1. pc' \in {"retry_tags", "expiry", "decide", "open"}
    BY DEF Prepare, Activate
  <2> QED
    BY <2>1, RecordedOrNot DEF Cutting, Returning
<1>3. \A i \in 1 .. Len(history) : history[i].at < started'
  BY <1>1, HistoryTyped DEF OutcomesInv, OutcomesDated
<1>4. OutcomesDated'
  <2>1. pc' \notin Cutting \cup Returning
    BY <1>2, RecordedOrNot
  <2>2. \A i \in 1 .. Len(history') : history'[i].at < started' /\ history'[i].at <= started'
    BY <1>1, <1>3, HistoryTyped
  <2> QED
    BY <1>2, <2>1, <2>2 DEF OutcomesDated
<1>5. OutcomesRecorded'
  BY <1>2 DEF OutcomesRecorded
<1>6. OutcomesTrue'
  BY <1>1 DEF OutcomesInv, OutcomesTrue, Served, Active
<1> QED
  BY <1>4, <1>5, <1>6 DEF OutcomesInv

LEMMA OutcomesInit == Init => OutcomesInv
<1> SUFFICES ASSUME Init PROVE OutcomesInv
  OBVIOUS
<1>1. history = <<>> /\ Len(history) = 0 /\ pc = "idle"
  BY DEF Init
<1>2. pc \notin Opening /\ pc \notin Cutting \cup Returning /\ pc \notin Unrecorded
      /\ pc \notin Landed
  BY <1>1, Outside, RecordedOrNot
<1> QED
  BY <1>1, <1>2 DEF OutcomesInv, OutcomesDated, OutcomesRecorded, OutcomesTrue

LEMMA OutcomesStep ==
  ASSUME ReleaseInv, ServedInv, OutcomesInv, [Next]_vars
  PROVE  OutcomesInv'
<1>1. ReleaseInv'
  BY StepInv
<1>2. CASE Expire \/ UNCHANGED vars
  <2>1. UNCHANGED <<pc, history, started, journal, running, root, marker, current>>
    BY <1>2 DEF Expire, vars, pointers, lock, site
  <2> QED
    BY <2>1 DEF OutcomesInv, OutcomesDated, OutcomesRecorded, OutcomesTrue, Active
<1>3. CASE RemoveStep \/ PrepareStep \/ Kill
  BY <1>1, <1>3, OutcomesQuietSteps DEF RemoveStep
<1>4. CASE ActivateStep
  <2>1. CASE Decide \/ WritePhase \/ RemoveAdoption
    BY <1>1, <2>1, OutcomesQuietSteps
  <2>2. CASE OpenJournal
    BY <1>1, <2>2, OutcomesOpen
  <2>3. CASE StartServices \/ Smoke \/ SyncRoot \/ PublishMarker \/ PublishPrevious
             \/ PublishCurrent
    BY <1>1, <2>3, OutcomesSiteSteps
  <2>4. CASE RecordSuccess \/ CandidateFailed \/ RollbackFailed \/ RecordRollback
    BY <1>1, <2>4, OutcomesSiteSteps, OutcomesRecordSteps
  <2> QED
    BY <1>4, <2>1, <2>2, <2>3, <2>4 DEF ActivateStep
<1>5. CASE \E c \in Commits : \/ \E retry \in BOOLEAN : Prepare(c, retry)
                              \/ \E policy \in Policies : Activate(c, policy)
  BY <1>1, <1>5, OutcomesBegin
<1> QED
  BY <1>2, <1>3, <1>4, <1>5 DEF Next

(* For any releases, wherever the script fails or is killed: what the last *)
(* outcome says holds until the next transaction, and the outcomes are in  *)
(* the order of their transactions.                                        *)
THEOREM OutcomesStayTrue == Spec => []OutcomesTrue
<1>1. ReleaseInv /\ ServedInv /\ OutcomesInv /\ [Next]_vars
        => (ReleaseInv /\ ServedInv /\ OutcomesInv)'
  BY StepInv, ServedStep, OutcomesStep
<1>2. Init => ReleaseInv /\ ServedInv /\ OutcomesInv
  BY InitInv, ServedInit, OutcomesInit
<1>3. OutcomesInv => OutcomesTrue
  BY DEF OutcomesInv
<1> QED
  BY <1>1, <1>2, <1>3, PTL DEF Spec

-----------------------------------------------------------------------------
(* The tenant: its inductive invariant.                                    *)

CommandPCs == {"idle", "run", "account", "storeAccount", "createAccount", "member",
               "inbox", "storeInbox", "createInbox", "webhook", "upsert", "name",
               "verify", "activate", "complete", "failed", "suspend", "delete",
               "archive", "listTenants", "probe", "suspendMissing"}
Beginning == {"idle", "run", "account", "createAccount", "storeAccount"}
Joining == {"inbox", "createInbox", "storeInbox"}
Routing == {"webhook", "upsert", "name", "verify", "activate", "complete"}
Upserted == {"name", "verify", "activate", "complete"}
Ending == {"suspend", "delete", "archive", "probe", "suspendMissing"}

RunTyped ==
  /\ run \in [status : {"absent", "pending", "working", "completed", "failed"},
              account : AccountIds \cup {NoId}, inbox : Nat]
  /\ tenant \in [status : {"absent", "provisioning", "active", "suspended", "archived"},
                 account : AccountIds \cup {NoId}, inbox : Nat, named : BOOLEAN]

ChatwootTyped ==
  /\ accounts \in [AccountIds -> [state : {"unborn", "alive", "gone"},
                                  members : SUBSET {Kinds[k] : k \in 1 .. 3},
                                  inboxes : SUBSET (Nat \ {NoId})]]
  /\ inboxes \in [made : Nat, locked : SUBSET Nat]

JobTyped ==
  job \in [Operators -> [pc : CommandPCs, account : AccountIds \cup {NoId}, inbox : Nat,
                         kind : 1 .. 3, named : BOOLEAN]]

\* The three users are the members of account a.
Full(a) == accounts[a].members = {Kinds[k] : k \in 1 .. 3}

\* What the run has recorded is there, or has been there.
RunInv ==
  /\ run.account # NoId => accounts[run.account].state # "unborn"
  /\ run.inbox # NoId => run.account # NoId /\ run.inbox \in accounts[run.account].inboxes
  /\ \A a \in AccountIds : accounts[a].inboxes \subseteq inboxes.locked

\* What a command knows from the calls it has made stays true under the others.
Knows(o) ==
  /\ job[o].pc \in Beginning => job[o].kind = 1
  /\ job[o].pc = "storeAccount" =>
       job[o].account # NoId /\ accounts[job[o].account].state # "unborn"
  /\ job[o].pc \in {"member"} \cup Joining \cup Routing =>
       job[o].account = run.account /\ run.account # NoId
  /\ job[o].pc = "member" =>
       \A k \in 1 .. 3 : k < job[o].kind => Kinds[k] \in accounts[job[o].account].members
  /\ job[o].pc \in Joining \cup Routing => Full(job[o].account)
  /\ job[o].pc = "storeInbox" => job[o].inbox \in accounts[job[o].account].inboxes
  /\ job[o].pc \in Routing => job[o].inbox = run.inbox /\ run.inbox # NoId
  /\ job[o].pc \in Upserted \cup Ending => tenant.status # "absent"
  /\ job[o].pc \in Ending => job[o].account = tenant.account
  /\ job[o].pc = "suspendMissing" => accounts[job[o].account].state = "gone"

RowInv ==
  /\ tenant.status # "absent" =>
       /\ tenant.account = run.account /\ tenant.inbox = run.inbox
       /\ run.account # NoId /\ run.inbox # NoId
  /\ tenant.status = "active" => Full(tenant.account)
  /\ tenant.status = "suspended" =>
       accounts[tenant.account].state = "gone" \/ tenant.account \in condemned

TenantInv ==
  /\ RunTyped /\ ChatwootTyped /\ JobTyped
  /\ RunInv /\ RowInv
  /\ \A o \in Operators : Knows(o)

\* No step takes back what a command relies on: ids are recorded once, accounts
\* come and go once, members and inboxes only come, a tenant's row stays.
Growing ==
  /\ run.account # NoId => run'.account = run.account
  /\ run.inbox # NoId => run'.inbox = run.inbox
  /\ \A a \in AccountIds :
       /\ accounts[a].state # "unborn" => accounts'[a].state # "unborn"
       /\ accounts[a].state = "gone" => accounts'[a].state = "gone"
       /\ accounts[a].members \subseteq accounts'[a].members
       /\ accounts[a].inboxes \subseteq accounts'[a].inboxes
  /\ tenant.status # "absent" => tenant'.status # "absent" /\ tenant'.account = tenant.account

(* What a command knows stays true while others work.                      *)
LEMMA KnowsStill ==
  ASSUME TenantInv, ChatwootTyped', Growing, NEW q \in Operators, job'[q] = job[q]
  PROVE  Knows(q)'
<1>1. /\ Knows(q) /\ run.account \in AccountIds \cup {NoId}
      /\ job[q].account \in AccountIds \cup {NoId}
      /\ tenant.status # "absent" => tenant.account \in AccountIds
  BY DEF TenantInv, RunTyped, JobTyped, RowInv
<1>2. \A a \in AccountIds : Full(a) => Full(a)'
  BY DEF Growing, Full, ChatwootTyped
<1>3. NoId \notin AccountIds
  BY DEF NoId, AccountIds
<1> QED
  BY <1>1, <1>2, <1>3 DEF Growing, Knows, Joining, Routing, Upserted, Ending

(* Where the steps of one command leave the others alone, the invariant    *)
(* holds if it holds for what the command has written.                     *)
LEMMA CommandKeeps ==
  ASSUME TenantInv, NEW o \in Operators,
         RunTyped', ChatwootTyped', RunInv', RowInv', Growing, Knows(o)',
         job' = [job EXCEPT ![o] = job'[o]],
         job'[o] \in [pc : CommandPCs, account : AccountIds \cup {NoId}, inbox : Nat,
                      kind : 1 .. 3, named : BOOLEAN]
  PROVE  TenantInv'
<1>1. JobTyped'
  BY DEF TenantInv, JobTyped
<1>2. ASSUME NEW q \in Operators, q # o PROVE job'[q] = job[q]
  BY <1>2 DEF TenantInv, JobTyped
<1>3. \A q \in Operators : Knows(q)'
  BY <1>2, KnowsStill
<1> QED
  BY <1>1, <1>3 DEF TenantInv

(* A command that changes nothing but its own place and the run's status.  *)
LEMMA MarkKeeps ==
  ASSUME TenantInv, NEW o \in Operators, UNCHANGED <<tenant, accounts, inboxes, condemned>>,
         NEW s \in {"absent", "pending", "working", "completed", "failed"},
         run' \in {run, [run EXCEPT !.status = s]},
         Knows(o)',
         job' = [job EXCEPT ![o] = job'[o]],
         job'[o] \in [pc : CommandPCs, account : AccountIds \cup {NoId}, inbox : Nat,
                      kind : 1 .. 3, named : BOOLEAN]
  PROVE  TenantInv'
<1>1. run'.account = run.account /\ run'.inbox = run.inbox /\ RunTyped'
  BY DEF TenantInv, RunTyped
<1>2. ChatwootTyped' /\ RunInv' /\ RowInv' /\ Growing
  BY <1>1 DEF TenantInv, ChatwootTyped, RunInv, RowInv, Growing, Full
<1> QED
  BY <1>1, <1>2, CommandKeeps

(* A command ends.                                                         *)
LEMMA IdleKnows ==
  ASSUME NEW o \in Operators, job'[o] = Idle
  PROVE  Knows(o)'
BY DEF Idle, Knows, Joining, Routing, Upserted, Ending

LEMMA IdleTyped ==
  Idle \in [pc : CommandPCs, account : AccountIds \cup {NoId}, inbox : Nat,
            kind : 1 .. 3, named : BOOLEAN]
BY DEF Idle, CommandPCs, NoId


JobRecords == [pc : CommandPCs, account : AccountIds \cup {NoId}, inbox : Nat,
               kind : 1 .. 3, named : BOOLEAN]

LEMMA GotoTyped ==
  ASSUME JobTyped, NEW o \in Operators, NEW to \in CommandPCs, Goto(o, to)
  PROVE  /\ job' = [job EXCEPT ![o] = job'[o]] /\ job'[o] \in JobRecords
         /\ job'[o] = [job[o] EXCEPT !.pc = to]
BY DEF JobTyped, Goto, JobRecords

(* The steps of provisionTenant that only look or fail, and mark the run.  *)
LEMMA LookKeeps ==
  ASSUME TenantInv, NEW o \in Operators, UNCHANGED condemned,
         \/ CreateOrResumeRun(o) \/ ResolveAccount(o) \/ ResolveInbox(o)
         \/ ConfigureWebhook(o) \/ MarkCompleted(o) \/ MarkFailed(o) \/ StepFails(o)
  PROVE  TenantInv'
<1>0. /\ job \in [Operators -> JobRecords] /\ job[o] \in JobRecords /\ Knows(o)
      /\ JobTyped /\ RunInv /\ RunTyped /\ ChatwootTyped
  BY DEF TenantInv, JobTyped, JobRecords
<1>1. CASE CreateOrResumeRun(o)
  <2>1. /\ job' = [job EXCEPT ![o] = job'[o]] /\ job'[o] \in JobRecords
        /\ job'[o] = [job[o] EXCEPT !.pc = "account"]
    BY <1>0, <1>1, GotoTyped DEF CreateOrResumeRun, CommandPCs
  <2>2. Knows(o)'
    BY <1>0, <1>1, <2>1
    DEF CreateOrResumeRun, Knows, JobRecords, Beginning, Joining, Routing, Upserted, Ending
  <2>3. run' \in {run, [run EXCEPT !.status = "pending"]}
    BY <1>1 DEF CreateOrResumeRun
  <2> QED
    BY <1>1, <2>1, <2>2, <2>3, MarkKeeps DEF CreateOrResumeRun, JobRecords
<1>2. CASE ResolveAccount(o)
  <2> DEFINE managed == {a \in AccountIds : Alive(a)}
  <2>1. managed # {} => Least(managed) \in managed
    <3>1. managed \subseteq Nat
      BY DEF AccountIds
    <3> HIDE DEF managed
    <3>2. managed # {} => \E x \in managed : \A y \in managed : x <= y
      BY <3>1, SmallestNat
    <3> QED
      BY <3>2 DEF Least
  <2>2. \/ /\ Alive(run.account)
           /\ job' = [job EXCEPT ![o].pc = "member", ![o].account = run.account]
        \/ /\ managed # {}
           /\ job' = [job EXCEPT ![o].pc = "storeAccount", ![o].account = Least(managed)]
        \/ Goto(o, "createAccount")
    BY <1>2 DEF ResolveAccount
  <2> HIDE DEF managed
  <2>3. \A a \in managed : a \in AccountIds /\ accounts[a].state # "unborn"
    BY DEF managed, Alive
  <2>4. NoId \notin AccountIds
    BY DEF NoId, AccountIds
  <2>5. /\ job' = [job EXCEPT ![o] = job'[o]] /\ job'[o] \in JobRecords
        /\ job'[o].pc \in {"member", "storeAccount", "createAccount"}
        /\ job'[o].kind = job[o].kind
        /\ job'[o].pc = "storeAccount" =>
              job'[o].account \in AccountIds /\ accounts[job'[o].account].state # "unborn"
        /\ job'[o].pc = "member" => job'[o].account = run.account /\ run.account \in AccountIds
    <3>1. ASSUME NEW p \in {"member", "storeAccount"}, NEW a \in AccountIds,
                 job' = [job EXCEPT ![o].pc = p, ![o].account = a]
          PROVE  /\ job' = [job EXCEPT ![o] = job'[o]] /\ job'[o] \in JobRecords
                 /\ job'[o].pc = p /\ job'[o].account = a /\ job'[o].kind = job[o].kind
      BY <1>0, <3>1 DEF JobRecords, CommandPCs
    <3>2. CASE Alive(run.account) /\ job' = [job EXCEPT ![o].pc = "member", ![o].account = run.account]
      BY <3>1, <3>2 DEF Alive
    <3>3. CASE /\ managed # {}
               /\ job' = [job EXCEPT ![o].pc = "storeAccount", ![o].account = Least(managed)]
      BY <2>1, <2>3, <3>1, <3>3
    <3>4. CASE Goto(o, "createAccount")
      <4>1. "createAccount" \in CommandPCs
        BY DEF CommandPCs
      <4>2. /\ job' = [job EXCEPT ![o] = job'[o]] /\ job'[o] \in JobRecords
            /\ job'[o] = [job[o] EXCEPT !.pc = "createAccount"]
        BY <1>0, <3>4, <4>1, GotoTyped
      <4>3. /\ job'[o].pc = "createAccount" /\ job'[o].account = job[o].account
            /\ job'[o].kind = job[o].kind
        BY <1>0, <4>2 DEF JobRecords
      <4> QED
        BY <4>2, <4>3
    <3> QED
      BY <2>2, <3>2, <3>3, <3>4
  <2>6. Knows(o)'
    <3>1. job[o].kind = 1
      BY <1>0, <1>2 DEF ResolveAccount, Knows, Beginning
    <3>2. run'.account = run.account /\ accounts' = accounts
      BY <1>0, <1>2 DEF ResolveAccount, Mark, RunTyped
    <3> QED
      BY <2>4, <2>5, <3>1, <3>2
      DEF Knows, Beginning, Joining, Routing, Upserted, Ending
  <2>7. run' = [run EXCEPT !.status = "working"]
    BY <1>2 DEF ResolveAccount, Mark
  <2> QED
    BY <1>2, <2>5, <2>6, <2>7, MarkKeeps DEF ResolveAccount, JobRecords
<1>3. CASE ResolveInbox(o)
  <2> DEFINE named == accounts[job[o].account].inboxes
  <2>0. job[o].account = run.account /\ job[o].account \in AccountIds /\ Full(job[o].account)
    BY <1>0, <1>3 DEF ResolveInbox, Knows, Joining, RunTyped
  <2>1. named # {} => Least(named) \in named
    <3>1. named \subseteq Nat
      BY <1>0, <2>0 DEF ChatwootTyped
    <3> HIDE DEF named
    <3>2. named # {} => \E x \in named : \A y \in named : x <= y
      BY <3>1, SmallestNat
    <3> QED
      BY <3>2 DEF Least
  <2>2. \/ /\ run.inbox # NoId
           /\ job' = [job EXCEPT ![o].pc = "webhook", ![o].inbox = run.inbox]
        \/ /\ named # {}
           /\ job' = [job EXCEPT ![o].pc = "storeInbox", ![o].inbox = Least(named)]
        \/ Goto(o, "createInbox")
    BY <1>3 DEF ResolveInbox
  <2>3. named \subseteq Nat
    BY <1>0, <2>0 DEF ChatwootTyped
  <2> HIDE DEF named
  <2>5. /\ job' = [job EXCEPT ![o] = job'[o]] /\ job'[o] \in JobRecords
        /\ job'[o].pc \in {"webhook", "storeInbox", "createInbox"}
        /\ job'[o].account = job[o].account
        /\ job'[o].pc = "storeInbox" => job'[o].inbox \in named
        /\ job'[o].pc = "webhook" => job'[o].inbox = run.inbox /\ run.inbox # NoId
    <3>1. ASSUME NEW p \in {"webhook", "storeInbox"}, NEW i \in Nat,
                 job' = [job EXCEPT ![o].pc = p, ![o].inbox = i]
          PROVE  /\ job' = [job EXCEPT ![o] = job'[o]] /\ job'[o] \in JobRecords
                 /\ job'[o].pc = p /\ job'[o].inbox = i /\ job'[o].account = job[o].account
      BY <1>0, <3>1 DEF JobRecords, CommandPCs
    <3>2. CASE /\ run.inbox # NoId
               /\ job' = [job EXCEPT ![o].pc = "webhook", ![o].inbox = run.inbox]
      BY <1>0, <3>1, <3>2 DEF RunTyped
    <3>3. CASE /\ named # {}
               /\ job' = [job EXCEPT ![o].pc = "storeInbox", ![o].inbox = Least(named)]
      BY <2>1, <2>3, <3>1, <3>3
    <3>4. CASE Goto(o, "createInbox")
      <4>1. "createInbox" \in CommandPCs
        BY DEF CommandPCs
      <4>2. /\ job' = [job EXCEPT ![o] = job'[o]] /\ job'[o] \in JobRecords
            /\ job'[o] = [job[o] EXCEPT !.pc = "createInbox"]
        BY <1>0, <3>4, <4>1, GotoTyped
      <4>3. /\ job'[o].pc = "createInbox" /\ job'[o].account = job[o].account
            /\ job'[o].kind = job[o].kind
        BY <1>0, <4>2 DEF JobRecords
      <4> QED
        BY <4>2, <4>3
    <3> QED
      BY <2>2, <3>2, <3>3, <3>4
  <2>6. Knows(o)'
    <3>1. run'.account = run.account /\ run'.inbox = run.inbox /\ accounts' = accounts
      BY <1>0, <1>3 DEF ResolveInbox, Mark, RunTyped
    <3>2. run.account # NoId
      BY <2>0 DEF NoId, AccountIds
    <3> QED
      BY <2>0, <2>5, <3>1, <3>2
      DEF Knows, Beginning, Joining, Routing, Upserted, Ending, Full, named
  <2>7. run' = [run EXCEPT !.status = "working"]
    BY <1>3 DEF ResolveInbox, Mark
  <2> QED
    BY <1>3, <2>5, <2>6, <2>7, MarkKeeps DEF ResolveInbox, JobRecords
<1>4. CASE ConfigureWebhook(o)
  <2>1. PICK named \in BOOLEAN : job' = [job EXCEPT ![o].pc = "upsert", ![o].named = named]
    BY <1>4 DEF ConfigureWebhook
  <2>2. /\ job' = [job EXCEPT ![o] = job'[o]] /\ job'[o] \in JobRecords
        /\ job'[o] = [job[o] EXCEPT !.pc = "upsert", !.named = named]
    BY <1>0, <2>1 DEF JobRecords, CommandPCs
  <2>3. Knows(o)'
    BY <1>0, <1>4, <2>2
    DEF ConfigureWebhook, Knows, JobRecords, Beginning, Joining, Routing, Upserted, Ending, Full
  <2> QED
    BY <1>4, <2>2, <2>3, MarkKeeps DEF ConfigureWebhook, JobRecords
<1>5. CASE MarkCompleted(o) \/ MarkFailed(o)
  <2>1. job' = [job EXCEPT ![o] = job'[o]] /\ job'[o] = Idle
    BY <1>0, <1>5 DEF MarkCompleted, MarkFailed
  <2>2. \/ run' = [run EXCEPT !.status = "completed"]
        \/ run' = [run EXCEPT !.status = "failed"]
    BY <1>5 DEF MarkCompleted, MarkFailed
  <2> QED
    BY <1>5, <2>1, <2>2, IdleTyped, IdleKnows, MarkKeeps DEF MarkCompleted, MarkFailed
<1>6. CASE StepFails(o)
  <2>1. /\ job' = [job EXCEPT ![o] = job'[o]] /\ job'[o] \in JobRecords
        /\ job'[o] = [job[o] EXCEPT !.pc = "failed"]
    BY <1>0, <1>6, GotoTyped DEF StepFails, CommandPCs
  <2>2. Knows(o)'
    BY <2>1, <1>0 DEF Knows, JobRecords, Beginning, Joining, Routing, Upserted, Ending
  <2> QED
    BY <1>6, <2>1, <2>2, MarkKeeps DEF StepFails, JobRecords
<1> QED
  BY <1>1, <1>2, <1>3, <1>4, <1>5, <1>6

(* The steps that store an id in the run.                                  *)
LEMMA StoreKeeps ==
  ASSUME TenantInv, NEW o \in Operators, UNCHANGED condemned, StoreAccount(o) \/ StoreInbox(o)
  PROVE  TenantInv'
<1>0. /\ job \in [Operators -> JobRecords] /\ job[o] \in JobRecords /\ Knows(o)
      /\ JobTyped /\ RunInv /\ RunTyped /\ ChatwootTyped /\ RowInv
  BY DEF TenantInv, JobTyped, JobRecords
<1>1. CASE Goto(o, "failed") /\ UNCHANGED run
  <2>1. /\ job' = [job EXCEPT ![o] = job'[o]] /\ job'[o] \in JobRecords
        /\ job'[o] = [job[o] EXCEPT !.pc = "failed"]
    BY <1>0, <1>1, GotoTyped DEF CommandPCs
  <2>2. Knows(o)'
    BY <2>1, <1>0 DEF Knows, JobRecords, Beginning, Joining, Routing, Upserted, Ending
  <2> QED
    BY <1>1, <2>1, <2>2, MarkKeeps DEF StoreAccount, StoreInbox, JobRecords
<1>2. CASE StoreAccount(o) /\ Storable(run.account, job[o].account)
  <2>1. /\ job' = [job EXCEPT ![o] = job'[o]] /\ job'[o] \in JobRecords
        /\ job'[o] = [job[o] EXCEPT !.pc = "member"]
    BY <1>0, <1>2, GotoTyped DEF StoreAccount, CommandPCs
  <2>2. /\ run' = [run EXCEPT !.account = job[o].account] /\ job[o].account # NoId
        /\ run.account \in {NoId, job[o].account} /\ accounts[job[o].account].state # "unborn"
        /\ job[o].kind = 1 /\ UNCHANGED <<tenant, accounts, inboxes>>
    BY <1>0, <1>2 DEF StoreAccount, Storable, Knows, Beginning
  <2>3. RunTyped' /\ ChatwootTyped' /\ RunInv' /\ RowInv' /\ Growing
    BY <1>0, <2>2 DEF RunTyped, ChatwootTyped, RunInv, RowInv, Growing, JobRecords, Full
  <2>4. Knows(o)'
    BY <1>0, <2>1, <2>2
    DEF Knows, JobRecords, RunTyped, Beginning, Joining, Routing, Upserted, Ending
  <2> QED
    BY <2>1, <2>3, <2>4, CommandKeeps DEF JobRecords
<1>3. CASE StoreInbox(o) /\ Storable(run.inbox, job[o].inbox)
  <2>1. /\ job' = [job EXCEPT ![o] = job'[o]] /\ job'[o] \in JobRecords
        /\ job'[o] = [job[o] EXCEPT !.pc = "webhook"]
    BY <1>0, <1>3, GotoTyped DEF StoreInbox, CommandPCs
  <2>2. /\ run' = [run EXCEPT !.inbox = job[o].inbox]
        /\ job[o].account = run.account /\ run.account # NoId /\ Full(job[o].account)
        /\ job[o].inbox \in accounts[run.account].inboxes
        /\ run.inbox \in {NoId, job[o].inbox} /\ UNCHANGED <<tenant, accounts, inboxes>>
    BY <1>0, <1>3 DEF StoreInbox, Storable, Knows, Joining
  <2>3. job[o].inbox \in Nat \ {NoId}
    BY <1>0, <2>2 DEF ChatwootTyped, RunTyped
  <2>4. RunTyped' /\ ChatwootTyped' /\ RunInv' /\ RowInv' /\ Growing
    BY <1>0, <2>2, <2>3 DEF RunTyped, ChatwootTyped, RunInv, RowInv, Growing, Full
  <2>5. Knows(o)'
    BY <1>0, <2>1, <2>2, <2>3
    DEF Knows, JobRecords, RunTyped, Beginning, Joining, Routing, Upserted, Ending, Full
  <2> QED
    BY <2>1, <2>4, <2>5, CommandKeeps DEF JobRecords
<1> QED
  BY <1>1, <1>2, <1>3 DEF StoreAccount, StoreInbox

(* The steps that write to Chatwoot.                                       *)
LEMMA ChatwootKeeps ==
  ASSUME TenantInv, NEW o \in Operators, UNCHANGED condemned,
         \/ CreateAccount(o) \/ AddAccountUser(o) \/ CreateInbox(o) \/ EnsureRouting(o)
  PROVE  TenantInv'
<1>0. /\ job \in [Operators -> JobRecords] /\ job[o] \in JobRecords /\ Knows(o)
      /\ JobTyped /\ RunInv /\ RunTyped /\ ChatwootTyped /\ RowInv
      /\ NoId \notin AccountIds
  BY DEF TenantInv, JobTyped, JobRecords, NoId, AccountIds
<1>1. CASE CreateAccount(o)
  <2>1. PICK a \in AccountIds :
          /\ accounts[a].state = "unborn"
          /\ accounts' = [accounts EXCEPT ![a].state = "alive"]
          /\ job' = [job EXCEPT ![o].pc = "storeAccount", ![o].account = a]
    BY <1>1 DEF CreateAccount
  <2>2. UNCHANGED <<run, tenant, inboxes>>
    BY <1>1 DEF CreateAccount
  <2>3. /\ job' = [job EXCEPT ![o] = job'[o]] /\ job'[o] \in JobRecords
        /\ job'[o] = [job[o] EXCEPT !.pc = "storeAccount", !.account = a]
    BY <1>0, <2>1 DEF JobRecords, CommandPCs
  <2>4. RunTyped' /\ ChatwootTyped'
    BY <1>0, <2>1, <2>2 DEF RunTyped, ChatwootTyped
  <2>5. /\ \A b \in AccountIds : /\ accounts'[b].members = accounts[b].members
                                 /\ accounts'[b].inboxes = accounts[b].inboxes
                                 /\ accounts[b].state # "unborn" =>
                                      accounts'[b].state = accounts[b].state
        /\ accounts'[a].state = "alive"
    BY <1>0, <2>1 DEF ChatwootTyped
  <2>6. RunInv' /\ RowInv' /\ Growing
    BY <1>0, <2>2, <2>5 DEF RunTyped, RunInv, RowInv, Growing, Full
  <2>7. Knows(o)'
    <3>1. job[o].kind = 1
      BY <1>0, <1>1 DEF CreateAccount, Knows, Beginning
    <3> QED
      BY <1>0, <2>3, <2>5, <3>1
      DEF Knows, JobRecords, Beginning, Joining, Routing, Upserted, Ending
  <2> QED
    BY <2>3, <2>4, <2>6, <2>7, CommandKeeps DEF JobRecords
<1>2. CASE AddAccountUser(o)
  <2> DEFINE a == job[o].account
             k == job[o].kind
  <2>0. /\ a \in AccountIds /\ a = run.account /\ k \in 1 .. 3
        /\ \A j \in 1 .. 3 : j < k => Kinds[j] \in accounts[a].members
    BY <1>0, <1>2 DEF AddAccountUser, Alive, Knows, JobRecords
  <2>1. /\ accounts' = [accounts EXCEPT ![a].members = @ \cup {Kinds[k]}]
        /\ run' = [run EXCEPT !.status = "working"] /\ UNCHANGED <<tenant, inboxes>>
        /\ job' = IF k < 3 THEN [job EXCEPT ![o].kind = @ + 1]
                   ELSE [job EXCEPT ![o].pc = "inbox"]
    BY <1>2 DEF AddAccountUser, Mark
  <2>2. /\ job' = [job EXCEPT ![o] = job'[o]] /\ job'[o] \in JobRecords
        /\ job'[o].account = a
        /\ \/ k < 3 /\ job'[o].pc = "member" /\ job'[o].kind = k + 1
           \/ k = 3 /\ job'[o].pc = "inbox"
    <3>1. job[o].pc = "member"
      BY <1>2 DEF AddAccountUser
    <3>2. CASE k < 3
      <4>1. job' = [job EXCEPT ![o].kind = @ + 1]
        BY <2>1, <3>2
      <4>2. job'[o] = [job[o] EXCEPT !.kind = @ + 1] /\ job' = [job EXCEPT ![o] = job'[o]]
        BY <1>0, <4>1
      <4> QED
        BY <1>0, <2>0, <3>1, <3>2, <4>2 DEF JobRecords
    <3>3. CASE ~ (k < 3)
      BY <1>0, <2>0, <2>1, <3>3 DEF JobRecords, CommandPCs
    <3> QED
      BY <3>2, <3>3
  <2>3. /\ \A b \in AccountIds : /\ accounts'[b].state = accounts[b].state
                                 /\ accounts'[b].inboxes = accounts[b].inboxes
                                 /\ b # a => accounts'[b].members = accounts[b].members
        /\ accounts'[a].members = accounts[a].members \cup {Kinds[k]}
    BY <1>0, <2>0, <2>1 DEF ChatwootTyped
  <2>4. RunTyped' /\ ChatwootTyped'
    <3>1. accounts'[a].members \subseteq {Kinds[j] : j \in 1 .. 3}
      BY <1>0, <2>0, <2>3 DEF ChatwootTyped
    <3> QED
      BY <1>0, <2>0, <2>1, <3>1 DEF RunTyped, ChatwootTyped
  <2>5. \A b \in AccountIds : accounts[b].members \subseteq accounts'[b].members
    BY <2>3
  <2>6. \A b \in AccountIds : Full(b) => Full(b)'
    BY <2>4, <2>5 DEF Full, ChatwootTyped
  <2>7. k = 3 => Full(a)'
    <3>1. ASSUME k = 3, NEW j \in 1 .. 3 PROVE Kinds[j] \in accounts'[a].members
      <4>1. j < 3 \/ j = 3
        OBVIOUS
      <4> QED
        BY <2>0, <2>3, <3>1, <4>1
    <3>2. a' = a
      BY <2>2
    <3> HIDE DEF a
    <3> QED
      BY <2>0, <2>4, <3>1, <3>2 DEF Full, ChatwootTyped
  <2>8. run'.account = run.account /\ run'.inbox = run.inbox
    BY <1>0, <2>1 DEF RunTyped
  <2>9. RunInv' /\ RowInv' /\ Growing
    BY <1>0, <2>1, <2>3, <2>5, <2>6, <2>8 DEF RunTyped, RunInv, RowInv, Growing
  <2>10. Knows(o)'
    <3>1. ASSUME k < 3, NEW j \in 1 .. 3, j < k + 1 PROVE Kinds[j] \in accounts'[a].members
      <4>1. j < k \/ j = k
        BY <2>0, <3>1
      <4> QED
        BY <2>0, <2>3, <4>1
    <3>2. k = 3 => Full(job[o].account)'
      BY <2>7
    <3> QED
      BY <1>0, <2>0, <2>2, <2>8, <3>1, <3>2
      DEF Knows, Beginning, Joining, Routing, Upserted, Ending
  <2> QED
    BY <2>2, <2>4, <2>9, <2>10, CommandKeeps DEF JobRecords
<1>3. CASE CreateInbox(o)
  <2> DEFINE a == job[o].account
             i == inboxes.made + 1
  <2>0. a \in AccountIds /\ a = run.account /\ Full(a) /\ i \in Nat \ {NoId}
    BY <1>0, <1>3 DEF CreateInbox, Alive, Knows, Joining, ChatwootTyped, NoId
  <2>1. /\ accounts' = [accounts EXCEPT ![a].inboxes = @ \cup {i}]
        /\ inboxes' = [made |-> i, locked |-> inboxes.locked \cup {i}]
        /\ UNCHANGED <<run, tenant>>
        /\ job' = [job EXCEPT ![o].pc = "storeInbox", ![o].inbox = i]
    BY <1>3 DEF CreateInbox
  <2>2. /\ job' = [job EXCEPT ![o] = job'[o]] /\ job'[o] \in JobRecords
        /\ job'[o].account = a /\ job'[o].pc = "storeInbox" /\ job'[o].inbox = i
    BY <1>0, <2>0, <2>1 DEF JobRecords, CommandPCs
  <2> HIDE DEF i
  <2>3. /\ \A b \in AccountIds : /\ accounts'[b].state = accounts[b].state
                                 /\ accounts'[b].members = accounts[b].members
                                 /\ b # a => accounts'[b].inboxes = accounts[b].inboxes
        /\ accounts'[a].inboxes = accounts[a].inboxes \cup {i}
    BY <1>0, <2>0, <2>1 DEF ChatwootTyped
  <2>4. RunTyped' /\ ChatwootTyped'
    BY <1>0, <2>0, <2>1 DEF RunTyped, ChatwootTyped
  <2>5. RunInv' /\ RowInv' /\ Growing
    BY <1>0, <2>0, <2>1, <2>3 DEF RunTyped, RunInv, RowInv, Growing, Full
  <2>6. Knows(o)'
    BY <1>0, <2>0, <2>1, <2>2, <2>3
    DEF Knows, Beginning, Joining, Routing, Upserted, Ending, Full
  <2> QED
    BY <2>2, <2>4, <2>5, <2>6, CommandKeeps DEF JobRecords
<1>4. CASE EnsureRouting(o)
  <2>1. /\ job' = [job EXCEPT ![o] = job'[o]] /\ job'[o] \in JobRecords
        /\ job'[o] = [job[o] EXCEPT !.pc = "activate"]
    BY <1>0, <1>4, GotoTyped DEF EnsureRouting, CommandPCs
  <2>2. /\ inboxes' = [inboxes EXCEPT !.locked = @ \cup {job[o].inbox}]
        /\ run' = [run EXCEPT !.status = "working"] /\ UNCHANGED <<tenant, accounts>>
    BY <1>4 DEF EnsureRouting, Mark
  <2>3. RunTyped' /\ ChatwootTyped' /\ run'.account = run.account /\ run'.inbox = run.inbox
        /\ inboxes.locked \subseteq inboxes'.locked
    BY <1>0, <2>2 DEF RunTyped, ChatwootTyped, JobRecords
  <2>4. RunInv' /\ RowInv' /\ Growing
    BY <1>0, <2>2, <2>3 DEF RunTyped, RunInv, RowInv, Growing, Full
  <2>5. Knows(o)'
    BY <1>0, <1>4, <2>1, <2>2, <2>3
    DEF EnsureRouting, Knows, JobRecords, Beginning, Joining, Routing, Upserted, Ending, Full
  <2> QED
    BY <2>1, <2>3, <2>4, <2>5, CommandKeeps DEF JobRecords
<1> QED
  BY <1>1, <1>2, <1>3, <1>4

(* The steps that write the tenant's row.                                  *)
LEMMA RowKeeps ==
  ASSUME TenantInv, NEW o \in Operators, UNCHANGED condemned,
         UpsertTenant(o) \/ UpdateInboxIdentifier(o) \/ ActivateTenant(o)
  PROVE  TenantInv'
<1>0. /\ job \in [Operators -> JobRecords] /\ job[o] \in JobRecords /\ Knows(o)
      /\ JobTyped /\ RunInv /\ RunTyped /\ ChatwootTyped /\ RowInv
  BY DEF TenantInv, JobTyped, JobRecords
<1>1. /\ job[o].account = run.account /\ run.account # NoId /\ Full(run.account)
      /\ job[o].inbox = run.inbox /\ run.inbox # NoId
      /\ job[o].account \in AccountIds /\ job[o].inbox \in Nat
  BY <1>0 DEF UpsertTenant, UpdateInboxIdentifier, ActivateTenant, Knows, Routing, RunTyped
<1>2. PICK to \in {"name", "verify", "activate", "complete"} : Goto(o, to)
  BY DEF UpsertTenant, UpdateInboxIdentifier, ActivateTenant
<1>3. /\ job' = [job EXCEPT ![o] = job'[o]] /\ job'[o] \in JobRecords
      /\ job'[o] = [job[o] EXCEPT !.pc = to]
  BY <1>0, <1>2, GotoTyped DEF CommandPCs
<1>4. UNCHANGED <<accounts, inboxes>> /\ run'.account = run.account /\ run'.inbox = run.inbox
  BY <1>0 DEF UpsertTenant, UpdateInboxIdentifier, ActivateTenant, Mark, RunTyped
<1>5. RunTyped' /\ ChatwootTyped'
  <2>1. run' \in [status : {"absent", "pending", "working", "completed", "failed"},
                  account : AccountIds \cup {NoId}, inbox : Nat]
    BY <1>0 DEF UpsertTenant, UpdateInboxIdentifier, ActivateTenant, Mark, RunTyped
  <2>2. tenant' \in [status : {"absent", "provisioning", "active", "suspended", "archived"},
                     account : AccountIds \cup {NoId}, inbox : Nat, named : BOOLEAN]
    <3>1. CASE UpsertTenant(o)
      <4>1. tenant' = [status |-> "provisioning", account |-> job[o].account,
                       inbox |-> job[o].inbox, named |-> FALSE]
        BY <3>1 DEF UpsertTenant
      <4> QED
        BY <1>1, <4>1
    <3>2. CASE UpdateInboxIdentifier(o)
      BY <1>0, <3>2 DEF UpdateInboxIdentifier, RunTyped
    <3>3. CASE ActivateTenant(o)
      BY <1>0, <3>3 DEF ActivateTenant, RunTyped
    <3> QED
      BY <3>1, <3>2, <3>3
  <2> QED
    BY <1>0, <1>4, <2>1, <2>2 DEF RunTyped, ChatwootTyped
<1>6. /\ tenant'.status # "absent" /\ tenant'.account = run.account /\ tenant'.inbox = run.inbox
      /\ tenant'.status = "suspended" => tenant.status = "suspended"
      /\ tenant.status # "absent" => tenant.account = run.account
  <2>1. CASE UpsertTenant(o)
    BY <1>0, <1>1, <2>1 DEF UpsertTenant, RowInv
  <2>2. CASE UpdateInboxIdentifier(o) \/ ActivateTenant(o)
    <3>1. tenant.status # "absent"
      BY <1>0, <2>2 DEF UpdateInboxIdentifier, ActivateTenant, Knows, Upserted
    <3> QED
      BY <1>0, <2>2, <3>1 DEF UpdateInboxIdentifier, ActivateTenant, RowInv, RunTyped
  <2> QED
    BY <2>1, <2>2
<1>7. RunInv' /\ RowInv' /\ Growing
  BY <1>0, <1>1, <1>4, <1>6 DEF RunInv, RowInv, Growing, Full
<1>8. Knows(o)'
  BY <1>0, <1>1, <1>3, <1>4, <1>6
  DEF Knows, JobRecords, Beginning, Joining, Routing, Upserted, Ending, Full
<1> QED
  BY <1>3, <1>5, <1>7, <1>8, CommandKeeps DEF JobRecords

(* The other commands, and the end of any.                                 *)
LEMMA OtherCommandKeeps ==
  ASSUME TenantInv, NEW o \in Operators,
         \/ Provision(o) \/ Deprovision(o) \/ DeleteAccount(o) \/ Reconcile(o)
         \/ ListTenants(o) \/ Probe(o) \/ KillCommand(o)
  PROVE  TenantInv'
<1>0. /\ job \in [Operators -> JobRecords] /\ job[o] \in JobRecords /\ Knows(o)
      /\ JobTyped /\ RunTyped /\ RowInv /\ RunInv
      /\ UNCHANGED <<run, tenant, accounts, inboxes, condemned>>
  BY DEF TenantInv, JobTyped, JobRecords, Provision, Deprovision, DeleteAccount, Reconcile,
         ListTenants, Probe, KillCommand
<1>1. ASSUME job' = [job EXCEPT ![o] = Idle] PROVE TenantInv'
  <2>1. job' = [job EXCEPT ![o] = job'[o]] /\ job'[o] = Idle
    BY <1>0, <1>1
  <2> QED
    BY <1>0, <2>1, IdleTyped, IdleKnows, MarkKeeps
<1>2. ASSUME NEW to \in {"run", "archive", "listTenants", "suspendMissing"}, Goto(o, to),
             to = "archive" => job[o].pc = "delete",
             to = "run" => job[o].pc = "idle",
             to = "suspendMissing" =>
               job[o].pc = "probe" /\ accounts[job[o].account].state = "gone"
      PROVE  TenantInv'
  <2>1. /\ job' = [job EXCEPT ![o] = job'[o]] /\ job'[o] \in JobRecords
        /\ job'[o] = [job[o] EXCEPT !.pc = to]
    BY <1>0, <1>2, GotoTyped DEF CommandPCs
  <2>2. /\ job'[o].pc = to /\ job'[o].account = job[o].account /\ job'[o].kind = job[o].kind
    BY <1>0, <2>1 DEF JobRecords
  <2>3. Knows(o)'
    BY <1>0, <1>2, <2>2 DEF Knows, Beginning, Joining, Routing, Upserted, Ending
  <2> QED
    BY <1>0, <2>1, <2>3, MarkKeeps DEF JobRecords
<1>3. ASSUME NEW to \in {"suspend", "archive", "probe"}, tenant.status # "absent",
             job' = [job EXCEPT ![o].pc = to, ![o].account = tenant.account]
      PROVE  TenantInv'
  <2>1. /\ job' = [job EXCEPT ![o] = job'[o]] /\ job'[o] \in JobRecords
        /\ job'[o].pc = to /\ job'[o].account = tenant.account
    BY <1>0, <1>3 DEF JobRecords, CommandPCs, RunTyped
  <2>2. Knows(o)'
    BY <1>0, <1>3, <2>1 DEF Knows, Beginning, Joining, Routing, Upserted, Ending
  <2> QED
    BY <1>0, <2>1, <2>2, MarkKeeps DEF JobRecords
<1>4. CASE Provision(o)
  BY <1>2, <1>4 DEF Provision, Command
<1>5. CASE Deprovision(o)
  BY <1>3, <1>5 DEF Deprovision
<1>6. CASE DeleteAccount(o)
  BY <1>2, <1>6 DEF DeleteAccount
<1>7. CASE Reconcile(o)
  BY <1>2, <1>7 DEF Reconcile
<1>8. CASE ListTenants(o)
  BY <1>1, <1>3, <1>8 DEF ListTenants
<1>9. CASE Probe(o)
  <2>1. PICK answer \in Answers(job[o].account), dryRun \in BOOLEAN :
          job' = IF Missing(answer) /\ ~dryRun THEN [job EXCEPT ![o].pc = "suspendMissing"]
                 ELSE [job EXCEPT ![o] = Idle]
    BY <1>9 DEF Probe
  <2>2. CASE Missing(answer) /\ ~dryRun
    <3>1. ~ Alive(job[o].account)
      BY <2>2 DEF Missing, Answers
    <3>2. /\ job[o].pc = "probe" /\ job[o].account = run.account /\ run.account # NoId
          /\ job[o].account \in AccountIds
      BY <1>0, <1>9 DEF Probe, Knows, Ending, RowInv, RunTyped
    <3>3. accounts[job[o].account].state \in {"unborn", "alive", "gone"}
      BY <3>2 DEF TenantInv, ChatwootTyped
    <3>4. accounts[job[o].account].state = "gone"
      BY <1>0, <3>1, <3>2, <3>3 DEF RunInv, Alive
    <3> QED
      BY <1>2, <2>1, <2>2, <3>2, <3>4 DEF Goto
  <2>3. CASE ~ (Missing(answer) /\ ~dryRun)
    BY <1>1, <2>1, <2>3
  <2> QED
    BY <2>2, <2>3
<1>10. CASE KillCommand(o)
  BY <1>1, <1>10 DEF KillCommand
<1> QED
  BY <1>4, <1>5, <1>6, <1>7, <1>8, <1>9, <1>10

(* The steps that suspend or archive the tenant.                           *)
LEMMA StatusKeeps ==
  ASSUME TenantInv, NEW o \in Operators, Suspend(o) \/ Archive(o) \/ SuspendMissing(o)
  PROVE  TenantInv'
<1>0. /\ job \in [Operators -> JobRecords] /\ job[o] \in JobRecords /\ Knows(o)
      /\ JobTyped /\ RunInv /\ RunTyped /\ ChatwootTyped /\ RowInv
      /\ UNCHANGED <<run, accounts, inboxes>>
  BY DEF TenantInv, JobTyped, JobRecords, Suspend, Archive, SuspendMissing
<1>1. /\ tenant.status # "absent" /\ job[o].account = tenant.account
      /\ job[o].pc \in {"suspend", "archive", "suspendMissing"}
      /\ job[o].pc = "suspendMissing" => accounts[job[o].account].state = "gone"
  BY <1>0 DEF Suspend, Archive, SuspendMissing, Knows, Ending
<1>2. \E s \in {"suspended", "archived"} : tenant' = [tenant EXCEPT !.status = s]
  BY DEF Suspend, Archive, SuspendMissing, SetStatus
<1>3. RunTyped' /\ ChatwootTyped' /\ tenant'.account = tenant.account
      /\ tenant'.inbox = tenant.inbox /\ tenant'.status \in {"suspended", "archived"}
  BY <1>0, <1>2 DEF RunTyped, ChatwootTyped
<1>4. tenant'.status = "suspended" =>
        accounts'[tenant'.account].state = "gone" \/ tenant'.account \in condemned'
  <2>1. CASE Suspend(o)
    BY <1>1, <1>3, <2>1 DEF Suspend
  <2>2. CASE Archive(o)
    BY <1>0, <2>2 DEF Archive, SetStatus, RunTyped
  <2>3. CASE SuspendMissing(o)
    BY <1>0, <1>1, <1>3, <2>3 DEF SuspendMissing
  <2> QED
    BY <2>1, <2>2, <2>3
<1>5. RunInv' /\ RowInv' /\ Growing
  BY <1>0, <1>1, <1>3, <1>4 DEF RunInv, RowInv, Growing, Full
<1>6. CASE Suspend(o)
  <2>1. /\ job' = [job EXCEPT ![o] = job'[o]] /\ job'[o] \in JobRecords
        /\ job'[o] = [job[o] EXCEPT !.pc = "delete"]
    BY <1>0, <1>6, GotoTyped DEF Suspend, CommandPCs
  <2>2. job'[o].pc = "delete" /\ job'[o].account = job[o].account
    BY <1>0, <2>1 DEF JobRecords
  <2>3. Knows(o)'
    BY <1>1, <1>3, <2>2 DEF Knows, Beginning, Joining, Routing, Upserted, Ending
  <2> QED
    BY <1>3, <1>5, <2>1, <2>3, CommandKeeps DEF JobRecords
<1>7. CASE Archive(o) \/ SuspendMissing(o)
  <2>1. job' = [job EXCEPT ![o] = job'[o]] /\ job'[o] = Idle
    BY <1>0, <1>7 DEF Archive, SuspendMissing
  <2> QED
    BY <1>3, <1>5, <2>1, IdleKnows, IdleTyped, CommandKeeps
<1> QED
  BY <1>6, <1>7

(* An account is deleted in Chatwoot.                                      *)
LEMMA VanishKeeps ==
  ASSUME TenantInv, NEW a \in AccountIds, Vanish(a)
  PROVE  TenantInv'
<1>1. /\ accounts' = [accounts EXCEPT ![a].state = "gone"]
      /\ UNCHANGED <<run, tenant, inboxes, job, condemned>>
  BY DEF Vanish
<1>2. \A b \in AccountIds : /\ accounts'[b].members = accounts[b].members
                            /\ accounts'[b].inboxes = accounts[b].inboxes
                            /\ accounts'[b].state = IF b = a THEN "gone" ELSE accounts[b].state
  BY <1>1 DEF TenantInv, ChatwootTyped
<1>3. RunTyped' /\ ChatwootTyped' /\ JobTyped'
  BY <1>1 DEF TenantInv, RunTyped, ChatwootTyped, JobTyped
<1>4. RunInv' /\ RowInv' /\ Growing
  BY <1>1, <1>2 DEF TenantInv, RunTyped, RunInv, RowInv, Growing, Full
<1>5. \A q \in Operators : Knows(q)'
  BY <1>1, <1>3, <1>4, KnowsStill
<1> QED
  BY <1>3, <1>4, <1>5 DEF TenantInv

LEMMA TenantInitInv == TenantInit => TenantInv
<1> SUFFICES ASSUME TenantInit PROVE TenantInv
  OBVIOUS
<1>1. RunTyped /\ ChatwootTyped /\ JobTyped
  <2>1. RunTyped /\ ChatwootTyped
    BY DEF TenantInit, RunTyped, ChatwootTyped, NoId
  <2>2. JobTyped
    BY IdleTyped DEF TenantInit, JobTyped
  <2> QED
    BY <2>1, <2>2
<1>2. RunInv /\ RowInv
  BY DEF TenantInit, RunInv, RowInv
<1>3. \A o \in Operators : Knows(o)
  BY DEF TenantInit, Idle, Knows, Joining, Routing, Upserted, Ending
<1> QED
  BY <1>1, <1>2, <1>3 DEF TenantInv

LEMMA TenantStepInv == TenantInv /\ [TenantNext]_tenantVars => TenantInv'
<1> SUFFICES ASSUME TenantInv, [TenantNext]_tenantVars PROVE TenantInv'
  OBVIOUS
<1>1. ASSUME NEW o \in Operators, ProvisionStep(o) PROVE TenantInv'
  <2>1. UNCHANGED condemned
    BY <1>1 DEF ProvisionStep
  <2> QED
    BY <1>1, <2>1, LookKeeps, StoreKeeps, ChatwootKeeps, RowKeeps DEF ProvisionStep
<1>2. ASSUME UNCHANGED tenantVars PROVE TenantInv'
  BY <1>2 DEF tenantVars, TenantInv, RunTyped, ChatwootTyped, JobTyped, RunInv, RowInv, Knows,
              Full
<1> QED
  BY <1>1, <1>2, OtherCommandKeeps, StatusKeeps, VanishKeeps DEF TenantNext

(* The recorded ids, the accounts and the tenant's row stay consistent in  *)
(* every behaviour of any number of operators.                             *)
LEMMA TenantAlways == TenantSpec => []TenantInv
BY TenantInitInv, TenantStepInv, PTL DEF TenantSpec

(* However commands race, lose answers and are killed, a tenant names the  *)
(* account and the inbox of its run, and an active one is complete there   *)
(* (storeImmutableExternalId, provisionTenant).                            *)
THEOREM ActiveTenantIsWhole == TenantSpec => []ActiveIsWhole
<1>1. TenantInv => ActiveIsWhole
  BY DEF TenantInv, RunInv, RowInv, RunTyped, Full, ActiveIsWhole
<1> QED
  BY <1>1, TenantAlways, PTL

(* No command suspends a customer whose account works and whose deletion   *)
(* nobody asked for (reconcileTenantChatwootAccounts, deprovisionTenant).  *)
THEOREM SuspensionHasCause == TenantSpec => []SuspensionJustified
<1>1. TenantInv => SuspensionJustified
  BY DEF TenantInv, RowInv, SuspensionJustified, Alive
<1> QED
  BY <1>1, TenantAlways, PTL

-----------------------------------------------------------------------------
(* Web push: its inductive invariant.                                      *)

RequestPCs == {"idle", "device", "upsert", "endpoint", "disable"}
DeliveryPCs == {"new", "next", "send", "expire", "stopped"}
RowRecords == [status : {"none", "active", "disabled", "expired"}, device : Devices \cup {NoOne}]
RequestRecords == [pc : RequestPCs, endpoint : Endpoints \cup {NoEndpoint}]
DeliveryRecords == [pc : DeliveryPCs, todo : SUBSET People, user : People \cup {NoOne},
                    found : SUBSET Endpoints, endpoint : Endpoints \cup {NoEndpoint}]

BrowserTyped ==
  /\ browser \in [Devices -> Endpoints \cup {NoEndpoint}]
  /\ made \in 0 .. MaxEndpoints

RowsTyped == rows \in [People \X Endpoints -> RowRecords]

RequestsTyped ==
  /\ request \in [People \X Devices -> RequestRecords]
  /\ \A u \in People, d \in Devices :
       request[<<u, d>>].pc # "idle" => request[<<u, d>>].endpoint \in Endpoints

DeliveriesTyped ==
  /\ delivery \in [Deliveries -> DeliveryRecords]
  /\ pushes \in [People \X Endpoints -> Nat]
  /\ \A x \in Deliveries :
       /\ delivery[x].found # {} => delivery[x].user \in People
       /\ delivery[x].pc \in {"send", "expire"} =>
            delivery[x].user \in People /\ delivery[x].endpoint \in Endpoints

\* A save of endpoint e has yet to disable the rows of the others.
Saving(e) == \E u \in People, d \in Devices : request[<<u, d>>] = [pc |-> "endpoint", endpoint |-> e]

OwnerInv ==
  \A e \in Endpoints \ torn : Saving(e) \/ \A u, v \in Owners(e) : u = v

\* Run x is about to send to u's subscription e.
Sending(x, u, e) ==
  delivery[x].pc = "send" /\ delivery[x].user = u /\ delivery[x].endpoint = e

\* The record of a try is written before its one push, and never twice.
AttemptInv ==
  \A u \in People, e \in Endpoints :
    /\ pushes[<<u, e>>] <= 1
    /\ <<u, e>> \notin attempted =>
         pushes[<<u, e>>] = 0 /\ \A x \in Deliveries : ~ Sending(x, u, e)
    /\ \A x \in Deliveries : Sending(x, u, e) =>
         pushes[<<u, e>>] = 0 /\ \A y \in Deliveries : Sending(y, u, e) => x = y

PushInv ==
  /\ BrowserTyped /\ RowsTyped /\ RequestsTyped /\ DeliveriesTyped
  /\ OwnerInv /\ AttemptInv


(* Fewer owners, the same saves under way, and no save un-torn: one owner. *)
LEMMA FewerOwners ==
  ASSUME OwnerInv, torn \subseteq torn',
         \A e \in Endpoints : Saving(e) => Saving(e)' \/ e \in torn',
         \A e \in Endpoints : Owners(e)' \subseteq Owners(e)
  PROVE  OwnerInv'
BY DEF OwnerInv

(* One request's step: its record, the others', and whose save it was.     *)
LEMMA RequestMoves ==
  ASSUME RequestsTyped, NEW u \in People, NEW d \in Devices, NEW rec \in RequestRecords,
         rec.pc # "idle" => rec.endpoint \in Endpoints,
         request' = [request EXCEPT ![<<u, d>>] = rec]
  PROVE  /\ RequestsTyped'
         /\ \A e \in Endpoints :
              Saving(e) => \/ Saving(e)'
                           \/ request[<<u, d>>].pc = "endpoint" /\ request[<<u, d>>].endpoint = e
         /\ rec.pc = "endpoint" => Saving(rec.endpoint)'
<1>1. request' \in [People \X Devices -> RequestRecords]
  BY DEF RequestsTyped
<1>2. /\ request'[<<u, d>>] = rec
      /\ \A v \in People, c \in Devices : <<v, c>> # <<u, d>> => request'[<<v, c>>] = request[<<v, c>>]
  BY DEF RequestsTyped
<1>3. RequestsTyped'
  BY <1>1, <1>2 DEF RequestsTyped
<1>4. ASSUME NEW e \in Endpoints, Saving(e)
      PROVE  \/ Saving(e)'
             \/ request[<<u, d>>].pc = "endpoint" /\ request[<<u, d>>].endpoint = e
  <2>1. PICK v \in People, c \in Devices : request[<<v, c>>] = [pc |-> "endpoint", endpoint |-> e]
    BY <1>4 DEF Saving
  <2>2. CASE <<v, c>> = <<u, d>>
    BY <2>1, <2>2
  <2>3. CASE <<v, c>> # <<u, d>>
    BY <1>2, <2>1, <2>3 DEF Saving
  <2> QED
    BY <2>2, <2>3
<1>5. ASSUME rec.pc = "endpoint" PROVE Saving(rec.endpoint)'
  <2>1. rec = [pc |-> "endpoint", endpoint |-> rec.endpoint]
    BY <1>5 DEF RequestRecords
  <2> QED
    BY <1>2, <2>1 DEF Saving
<1> QED
  BY <1>3, <1>4, <1>5

(* Disabling rows takes owners away and adds none.                         *)
LEMMA DisabledRows ==
  ASSUME RowsTyped, NEW mine, rows' = Disabled(mine)
  PROVE  /\ RowsTyped'
         /\ \A e \in Endpoints : Owners(e)' \subseteq Owners(e)
         /\ \A e \in Endpoints, v \in People : <<v, e>> \in mine => v \notin Owners(e)'
<1>1. ASSUME NEW r \in People \X Endpoints
      PROVE  /\ rows'[r] \in RowRecords
             /\ rows'[r].status = "active" => rows[r].status = "active" /\ r \notin mine
  <2>1. rows[r] \in RowRecords
    BY DEF RowsTyped
  <2>2. CASE r \in mine /\ rows[r].status = "active"
    <3>1. rows'[r] = [rows[r] EXCEPT !.status = "disabled"]
      BY <2>2 DEF Disabled
    <3> QED
      BY <2>1, <3>1 DEF RowRecords
  <2>3. CASE ~ (r \in mine /\ rows[r].status = "active")
    <3>1. rows'[r] = rows[r]
      BY <2>3 DEF Disabled
    <3> QED
      BY <2>1, <2>3, <3>1
  <2> QED
    BY <2>2, <2>3
<1>2. RowsTyped'
  BY <1>1 DEF Disabled, RowsTyped
<1>3. \A v \in People, e \in Endpoints :
        rows'[<<v, e>>].status = "active" =>
          rows[<<v, e>>].status = "active" /\ <<v, e>> \notin mine
  BY <1>1
<1> QED
  BY <1>2, <1>3 DEF Owners

(* What the deliveries have keeps while only requests move.                *)
LEMMA DeliveriesStand ==
  ASSUME DeliveriesTyped, AttemptInv, UNCHANGED <<delivery, attempted, pushes>>
  PROVE  DeliveriesTyped' /\ AttemptInv'
BY DEF DeliveriesTyped, AttemptInv, Sending

(* A request begins.                                                       *)
LEMMA AskKeeps ==
  ASSUME PushInv, NEW u \in People, NEW d \in Devices,
         LoadSnapshot(u, d) \/ SubscribeBrowser(u, d) \/ UnsubscribeBrowser(u, d)
  PROVE  PushInv'
<1>1. BrowserTyped /\ RowsTyped /\ RequestsTyped /\ DeliveriesTyped /\ OwnerInv /\ AttemptInv
  BY DEF PushInv
<1>2. /\ BrowserTyped'
      /\ \E step \in {"device", "disable"}, e \in Endpoints :
           request' = [request EXCEPT ![<<u, d>>] = [pc |-> step, endpoint |-> e]]
  <2>1. CASE LoadSnapshot(u, d)
    BY <1>1, <2>1 DEF LoadSnapshot, Ask, BrowserTyped
  <2>2. CASE SubscribeBrowser(u, d)
    <3>1. made' \in 1 .. MaxEndpoints
      BY <1>1, <2>2, PushAssumption DEF SubscribeBrowser, BrowserTyped
    <3>2. browser' \in [Devices -> Endpoints \cup {NoEndpoint}] /\ made' \in 0 .. MaxEndpoints
      BY <1>1, <2>2, <3>1 DEF SubscribeBrowser, BrowserTyped, Endpoints
    <3>3. made' \in Endpoints
      BY <3>1 DEF Endpoints
    <3> QED
      BY <2>2, <3>2, <3>3 DEF SubscribeBrowser, Ask, BrowserTyped
  <2>3. CASE UnsubscribeBrowser(u, d)
    <3>1. browser[d] \in Endpoints
      BY <1>1, <2>3 DEF UnsubscribeBrowser, BrowserTyped
    <3>2. browser' \in [Devices -> Endpoints \cup {NoEndpoint}] /\ made' = made
      BY <1>1, <2>3, <3>1 DEF UnsubscribeBrowser, BrowserTyped
    <3> QED
      BY <1>1, <2>3, <3>1, <3>2 DEF UnsubscribeBrowser, Ask, BrowserTyped
  <2> QED
    BY <2>1, <2>2, <2>3
<1>3. PICK step \in {"device", "disable"}, e \in Endpoints :
        request' = [request EXCEPT ![<<u, d>>] = [pc |-> step, endpoint |-> e]]
  BY <1>2
<1>4. UNCHANGED <<rows, delivery, attempted, pushes, torn>> /\ request[<<u, d>>].pc = "idle"
  BY DEF LoadSnapshot, SubscribeBrowser, UnsubscribeBrowser, Ask, NoRequest
<1>5. RequestsTyped' /\ \A f \in Endpoints : Saving(f) => Saving(f)'
  <2>1. /\ [pc |-> step, endpoint |-> e] \in RequestRecords
        /\ [pc |-> step, endpoint |-> e].endpoint \in Endpoints
    BY DEF RequestRecords, RequestPCs
  <2> QED
    BY <1>1, <1>3, <1>4, <2>1, RequestMoves
<1>6. RowsTyped' /\ \A f \in Endpoints : Owners(f)' \subseteq Owners(f)
  BY <1>1, <1>4 DEF RowsTyped, Owners
<1>7. OwnerInv'
  BY <1>1, <1>4, <1>5, <1>6, FewerOwners
<1> QED
  BY <1>1, <1>2, <1>4, <1>5, <1>6, <1>7, DeliveriesStand DEF PushInv

(* The statements of a request, and its end.                               *)
LEMMA RequestKeeps ==
  ASSUME PushInv, NEW u \in People, NEW d \in Devices,
         \/ DisableOthersForDevice(u, d) \/ Upsert(u, d) \/ DisableOthersForEndpoint(u, d)
         \/ Disable(u, d) \/ RequestFails(u, d)
  PROVE  PushInv'
<1>1. /\ BrowserTyped /\ RowsTyped /\ RequestsTyped /\ DeliveriesTyped /\ OwnerInv /\ AttemptInv
      /\ UNCHANGED <<browser, made, delivery, attempted, pushes>>
  BY DEF PushInv, DisableOthersForDevice, Upsert, DisableOthersForEndpoint, Disable, RequestFails
<1>2. BrowserTyped' /\ DeliveriesTyped' /\ AttemptInv'
  BY <1>1, DeliveriesStand DEF BrowserTyped
<1>3. NoRequest \in RequestRecords /\ NoRequest.pc = "idle"
  BY DEF NoRequest, RequestRecords, RequestPCs
<1> DEFINE mine == request[<<u, d>>].endpoint
<1>4. mine \in Endpoints /\ request[<<u, d>>] \in RequestRecords /\ request[<<u, d>>].pc # "idle"
  BY <1>1
     DEF RequestsTyped, DisableOthersForDevice, Upsert, DisableOthersForEndpoint, Disable,
         RequestFails
<1>5. CASE DisableOthersForDevice(u, d)
  <2>1. [request[<<u, d>>] EXCEPT !.pc = "upsert"] \in RequestRecords
        /\ [request[<<u, d>>] EXCEPT !.pc = "upsert"].endpoint = mine
    BY <1>4 DEF RequestRecords, RequestPCs
  <2>2. request' = [request EXCEPT ![<<u, d>>] = [request[<<u, d>>] EXCEPT !.pc = "upsert"]]
    BY <1>1, <1>5 DEF DisableOthersForDevice, RequestsTyped
  <2>3. RequestsTyped' /\ \A e \in Endpoints : Saving(e) => Saving(e)'
    BY <1>1, <1>4, <1>5, <2>1, <2>2, RequestMoves DEF DisableOthersForDevice
  <2>4. RowsTyped' /\ \A e \in Endpoints : Owners(e)' \subseteq Owners(e)
    BY <1>1, <1>5, DisabledRows DEF DisableOthersForDevice
  <2>5. OwnerInv'
    BY <1>1, <1>5, <2>3, <2>4, FewerOwners DEF DisableOthersForDevice
  <2> QED
    BY <1>2, <2>3, <2>4, <2>5 DEF PushInv
<1>6. CASE Upsert(u, d)
  <2>1. [request[<<u, d>>] EXCEPT !.pc = "endpoint"] \in RequestRecords
        /\ [request[<<u, d>>] EXCEPT !.pc = "endpoint"].endpoint = mine
        /\ [request[<<u, d>>] EXCEPT !.pc = "endpoint"].pc = "endpoint"
    BY <1>4 DEF RequestRecords, RequestPCs
  <2>2. request' = [request EXCEPT ![<<u, d>>] = [request[<<u, d>>] EXCEPT !.pc = "endpoint"]]
    BY <1>1, <1>6 DEF Upsert, RequestsTyped
  <2>3. RequestsTyped' /\ (\A e \in Endpoints : Saving(e) => Saving(e)')
    BY <1>1, <1>4, <1>6, <2>1, <2>2, RequestMoves DEF Upsert
  <2>4. \A e \in Endpoints : e = mine => Saving(e)'
    <3>1. \E v \in People, c \in Devices : request'[<<v, c>>] = [pc |-> "endpoint", endpoint |-> mine]
      <4>1. request'[<<u, d>>] = [request[<<u, d>>] EXCEPT !.pc = "endpoint"]
        BY <1>1, <2>2 DEF RequestsTyped
      <4>2. [request[<<u, d>>] EXCEPT !.pc = "endpoint"] = [pc |-> "endpoint", endpoint |-> mine]
        BY <1>4 DEF RequestRecords
      <4> QED
        BY <4>1, <4>2
    <3> QED
      BY <3>1 DEF Saving
  <2>5. rows' = [rows EXCEPT ![<<u, mine>>] = [status |-> "active", device |-> d]] /\ torn' = torn
    BY <1>6 DEF Upsert
  <2>6. RowsTyped'
    BY <1>1, <1>4, <2>5 DEF RowsTyped, RowRecords
  <2>7. \A e \in Endpoints : e # mine => Owners(e)' = Owners(e)
    BY <1>1, <1>4, <2>5 DEF RowsTyped, Owners
  <2>8. OwnerInv'
    <3> HIDE DEF mine
    <3> QED
      BY <1>1, <2>3, <2>4, <2>5, <2>7 DEF OwnerInv
  <2> QED
    BY <1>2, <2>3, <2>6, <2>8 DEF PushInv
<1>7. CASE DisableOthersForEndpoint(u, d)
  <2>1. /\ rows' = Disabled({<<v, mine>> : v \in People \ {u}}) /\ torn' = torn \ {mine}
        /\ request' = [request EXCEPT ![<<u, d>>] = NoRequest]
    BY <1>7 DEF DisableOthersForEndpoint, Reply
  <2>2. RequestsTyped' /\ \A e \in Endpoints : Saving(e) => Saving(e)' \/ e = mine
    BY <1>1, <1>3, <2>1, RequestMoves
  <2>3. /\ RowsTyped' /\ \A e \in Endpoints : Owners(e)' \subseteq Owners(e)
        /\ \A e \in Endpoints, v \in People :
             <<v, e>> \in {<<w, mine>> : w \in People \ {u}} => v \notin Owners(e)'
    BY <1>1, <2>1, DisabledRows
  <2>4. \A v \in People : rows'[<<v, mine>>].status = "active" => v = u
    <3>1. ASSUME NEW v \in People, v # u PROVE rows'[<<v, mine>>].status # "active"
      <4>1. /\ <<v, mine>> \in {<<w, mine>> : w \in People \ {u}}
            /\ rows[<<v, mine>>] \in RowRecords
        BY <1>1, <1>4, <3>1 DEF RowsTyped
      <4>2. rows'[<<v, mine>>] = IF rows[<<v, mine>>].status = "active"
                                 THEN [rows[<<v, mine>>] EXCEPT !.status = "disabled"]
                                 ELSE rows[<<v, mine>>]
        BY <1>4, <2>1, <4>1 DEF Disabled
      <4> QED
        BY <4>1, <4>2 DEF RowRecords
    <3> QED
      BY <3>1
  <2>5. OwnerInv'
    <3> HIDE DEF mine
    <3>1. ASSUME NEW e \in Endpoints, e \notin torn', ~ Saving(e)', NEW v \in Owners(e)',
                 NEW w \in Owners(e)'
          PROVE  v = w
      <4>1. CASE e # mine
        BY <1>1, <2>1, <2>2, <2>3, <3>1, <4>1 DEF OwnerInv
      <4>2. CASE e = mine
        <5>1. v \in People /\ w \in People /\ rows'[<<v, e>>].status = "active"
              /\ rows'[<<w, e>>].status = "active"
          BY <3>1 DEF Owners
        <5> QED
          BY <2>4, <4>2, <5>1
      <4> QED
        BY <4>1, <4>2
    <3> QED
      BY <3>1 DEF OwnerInv
  <2> QED
    BY <1>2, <2>2, <2>3, <2>5 DEF PushInv
<1>8. CASE Disable(u, d)
  <2>1. /\ rows' = IF rows[<<u, mine>>].status = "none" THEN rows
                   ELSE [rows EXCEPT ![<<u, mine>>].status = "disabled"]
        /\ torn' = torn /\ request' = [request EXCEPT ![<<u, d>>] = NoRequest]
        /\ request[<<u, d>>].pc = "disable"
    BY <1>8 DEF Disable, Reply
  <2>2. RequestsTyped' /\ \A e \in Endpoints : Saving(e) => Saving(e)'
    BY <1>1, <1>3, <2>1, RequestMoves
  <2>3. RowsTyped' /\ \A e \in Endpoints : Owners(e)' \subseteq Owners(e)
    BY <1>1, <1>4, <2>1 DEF RowsTyped, RowRecords, Owners
  <2>4. OwnerInv'
    BY <1>1, <2>1, <2>2, <2>3, FewerOwners
  <2> QED
    BY <1>2, <2>2, <2>3, <2>4 DEF PushInv
<1>9. CASE RequestFails(u, d)
  <2>1. /\ rows' = rows /\ request' = [request EXCEPT ![<<u, d>>] = NoRequest]
        /\ torn' = IF request[<<u, d>>].pc = "endpoint" THEN torn \cup {mine} ELSE torn
    BY <1>9 DEF RequestFails, Reply
  <2>2. RequestsTyped' /\ \A e \in Endpoints : Saving(e) => Saving(e)' \/ e \in torn'
    BY <1>1, <1>3, <2>1, RequestMoves
  <2>3. RowsTyped' /\ (\A e \in Endpoints : Owners(e)' \subseteq Owners(e)) /\ torn \subseteq torn'
    BY <1>1, <2>1 DEF RowsTyped, Owners
  <2>4. OwnerInv'
    BY <1>1, <2>2, <2>3, FewerOwners
  <2> QED
    BY <1>2, <2>2, <2>3, <2>4 DEF PushInv
<1> QED
  BY <1>5, <1>6, <1>7, <1>8, <1>9

(* What one run of a delivery does to its own record.                      *)
LEMMA DeliveryMoves ==
  ASSUME DeliveriesTyped, NEW x \in Deliveries, NEW rec \in DeliveryRecords,
         rec.found # {} => rec.user \in People,
         rec.pc \in {"send", "expire"} => rec.user \in People /\ rec.endpoint \in Endpoints,
         pushes' \in [People \X Endpoints -> Nat], Step(x, rec)
  PROVE  /\ DeliveriesTyped' /\ delivery'[x] = rec
         /\ \A y \in Deliveries \ {x} : delivery'[y] = delivery[y]
BY DEF DeliveriesTyped, Step

(* Only deliveries move: the owners stay.                                  *)
LEMMA RequestsStand ==
  ASSUME BrowserTyped, RowsTyped, RequestsTyped, OwnerInv, NEW x \in Deliveries, NEW rec,
         Step(x, rec), rows' = rows
  PROVE  BrowserTyped' /\ RowsTyped' /\ RequestsTyped' /\ OwnerInv'
<1>1. UNCHANGED <<browser, made, request, torn, rows>>
  BY DEF Step
<1>2. BrowserTyped' /\ RowsTyped' /\ RequestsTyped'
  BY <1>1 DEF BrowserTyped, RowsTyped, RequestsTyped
<1>3. \A e \in Endpoints : (Saving(e)' <=> Saving(e)) /\ Owners(e)' = Owners(e)
  BY <1>1 DEF Saving, Owners
<1> QED
  BY <1>1, <1>2, <1>3 DEF OwnerInv

(* A run that sends no more than before, with the records that stand.      *)
LEMMA QuietDelivery ==
  ASSUME AttemptInv, DeliveriesTyped, NEW x \in Deliveries,
         delivery'[x].pc # "send", \A y \in Deliveries \ {x} : delivery'[y] = delivery[y],
         pushes' = pushes, attempted \subseteq attempted'
  PROVE  AttemptInv'
<1>1. ASSUME NEW y \in Deliveries, NEW u \in People, NEW e \in Endpoints, Sending(y, u, e)'
      PROVE  y # x /\ Sending(y, u, e)
  <2>1. y # x /\ delivery'[y] = delivery[y]
    BY <1>1 DEF Sending
  <2> QED
    BY <1>1, <2>1 DEF Sending
<1> SUFFICES ASSUME NEW u \in People, NEW e \in Endpoints
             PROVE  /\ pushes'[<<u, e>>] <= 1
                    /\ <<u, e>> \notin attempted' =>
                         pushes'[<<u, e>>] = 0 /\ \A y \in Deliveries : ~ Sending(y, u, e)'
                    /\ \A y \in Deliveries : Sending(y, u, e)' =>
                         /\ pushes'[<<u, e>>] = 0
                         /\ \A z \in Deliveries : Sending(z, u, e)' => y = z
  BY DEF AttemptInv
<1> QED
  BY <1>1 DEF AttemptInv

(* The steps of a delivery that try no subscription.                       *)
LEMMA QuietDeliveryKeeps ==
  ASSUME PushInv, NEW x \in Deliveries,
         ResolveRecipients(x) \/ NextRecipient(x) \/ DeliveryStops(x)
  PROVE  PushInv'
<1>1. /\ BrowserTyped /\ RowsTyped /\ RequestsTyped /\ DeliveriesTyped /\ OwnerInv /\ AttemptInv
      /\ delivery[x] \in DeliveryRecords
      /\ UNCHANGED <<rows, attempted, pushes>>
  BY DEF PushInv, DeliveriesTyped, ResolveRecipients, NextRecipient, DeliveryStops
<1>2. \E rec \in DeliveryRecords :
        /\ Step(x, rec) /\ rec.pc \notin {"send", "expire"}
        /\ rec.found # {} => rec.user \in People
  <2>1. CASE ResolveRecipients(x)
    <3>1. PICK us \in SUBSET People : Step(x, [delivery[x] EXCEPT !.pc = "next", !.todo = us])
      BY <2>1 DEF ResolveRecipients
    <3> DEFINE rec == [delivery[x] EXCEPT !.pc = "next", !.todo = us]
    <3>2. /\ rec \in DeliveryRecords /\ rec.pc = "next"
          /\ rec.found = delivery[x].found /\ rec.user = delivery[x].user
      BY <1>1 DEF DeliveryRecords, DeliveryPCs
    <3>3. rec.found # {} => rec.user \in People
      <4> HIDE DEF rec
      <4> QED
        BY <1>1, <3>2 DEF DeliveriesTyped
    <3> QED
      BY <3>1, <3>2, <3>3
  <2>2. CASE NextRecipient(x)
    <3>1. PICK u \in delivery[x].todo :
            Step(x, [delivery[x] EXCEPT !.todo = @ \ {u}, !.user = u,
                                        !.found = {e \in Endpoints : u \in Owners(e)}])
      BY <2>2 DEF NextRecipient
    <3> DEFINE rec == [delivery[x] EXCEPT !.todo = @ \ {u}, !.user = u,
                                          !.found = {e \in Endpoints : u \in Owners(e)}]
    <3>2. u \in People /\ delivery[x].pc = "next"
      BY <1>1, <2>2, <3>1 DEF DeliveryRecords, NextRecipient
    <3>3. rec \in DeliveryRecords /\ rec.pc = "next" /\ rec.user = u
      BY <1>1, <3>2 DEF DeliveryRecords, DeliveryPCs
    <3> QED
      BY <3>1, <3>2, <3>3
  <2>3. CASE DeliveryStops(x)
    <3> DEFINE rec == [NoDelivery EXCEPT !.pc = "stopped"]
    <3>1. rec \in DeliveryRecords /\ rec.pc = "stopped" /\ rec.found = {}
      BY DEF NoDelivery, NoEndpoint, DeliveryRecords, DeliveryPCs
    <3>2. Step(x, rec)
      BY <2>3 DEF DeliveryStops
    <3> QED
      BY <3>1, <3>2
  <2> QED
    BY <2>1, <2>2, <2>3
<1>3. PICK rec \in DeliveryRecords :
        /\ Step(x, rec) /\ rec.pc \notin {"send", "expire"}
        /\ rec.found # {} => rec.user \in People
  BY <1>2
<1>4. pushes' \in [People \X Endpoints -> Nat]
  BY <1>1 DEF DeliveriesTyped
<1>5. DeliveriesTyped' /\ delivery'[x] = rec /\ \A y \in Deliveries \ {x} : delivery'[y] = delivery[y]
  BY <1>1, <1>3, <1>4, DeliveryMoves
<1>6. AttemptInv'
  BY <1>1, <1>3, <1>5, QuietDelivery
<1> QED
  BY <1>1, <1>3, <1>5, <1>6, RequestsStand DEF PushInv

(* A try is recorded before it is made, and made for a new record only.    *)
LEMMA RecordKeeps ==
  ASSUME PushInv, NEW x \in Deliveries, RecordAttempt(x)
  PROVE  PushInv'
<1>1. /\ BrowserTyped /\ RowsTyped /\ RequestsTyped /\ DeliveriesTyped /\ OwnerInv /\ AttemptInv
      /\ delivery[x] \in DeliveryRecords
      /\ UNCHANGED <<rows, pushes>>
  BY DEF PushInv, DeliveriesTyped, RecordAttempt
<1>2. PICK f \in delivery[x].found :
        LET key == <<delivery[x].user, f>>
            later == [delivery[x] EXCEPT !.found = @ \ {f}]
        IN  /\ attempted' = attempted \cup {key}
            /\ Step(x, IF key \in attempted THEN later
                       ELSE [later EXCEPT !.pc = "send", !.endpoint = f])
  BY DEF RecordAttempt
<1> DEFINE w == delivery[x].user
           later == [delivery[x] EXCEPT !.found = @ \ {f}]
           trying == [later EXCEPT !.pc = "send", !.endpoint = f]
<1>3. /\ f \in Endpoints /\ w \in People /\ delivery[x].pc = "next"
      /\ attempted' = attempted \cup {<<w, f>>}
  BY <1>1, <1>2 DEF DeliveriesTyped, DeliveryRecords, RecordAttempt
<1>4. /\ later \in DeliveryRecords /\ later.pc = "next" /\ later.user = w
      /\ trying \in DeliveryRecords /\ trying.pc = "send" /\ trying.user = w
      /\ trying.endpoint = f
  BY <1>1, <1>3 DEF DeliveryRecords, DeliveryPCs
<1>5. pushes' \in [People \X Endpoints -> Nat]
  BY <1>1 DEF DeliveriesTyped
<1>6. CASE <<w, f>> \in attempted
  <2>1. Step(x, later)
    BY <1>2, <1>6
  <2> HIDE DEF later, w
  <2>2. DeliveriesTyped' /\ delivery'[x] = later /\ \A y \in Deliveries \ {x} : delivery'[y] = delivery[y]
    BY <1>1, <1>3, <1>4, <1>5, <2>1, DeliveryMoves
  <2>3. AttemptInv'
    BY <1>1, <1>3, <1>4, <2>2, QuietDelivery
  <2> QED
    BY <1>1, <2>1, <2>2, <2>3, RequestsStand DEF PushInv
<1>7. CASE <<w, f>> \notin attempted
  <2>1. Step(x, trying)
    BY <1>2, <1>7
  <2>2. /\ DeliveriesTyped' /\ delivery'[x] = trying
        /\ \A y \in Deliveries \ {x} : delivery'[y] = delivery[y]
    <3> HIDE DEF trying, w
    <3> QED
      BY <1>1, <1>3, <1>4, <1>5, <2>1, DeliveryMoves
  <2>3. ASSUME NEW y \in Deliveries, NEW u \in People, NEW e \in Endpoints, Sending(y, u, e)'
        PROVE  IF y = x THEN u = w /\ e = f ELSE Sending(y, u, e)
    <3>1. delivery'[y].pc = "send" /\ delivery'[y].user = u /\ delivery'[y].endpoint = e
      BY <2>3 DEF Sending
    <3>2. CASE y = x
      <4> HIDE DEF trying, w
      <4> QED
        BY <1>4, <2>2, <3>1, <3>2
    <3>3. CASE y # x
      BY <2>2, <3>1, <3>3 DEF Sending
    <3> QED
      BY <3>2, <3>3
  <2>4. pushes[<<w, f>>] = 0 /\ \A y \in Deliveries : ~ Sending(y, w, f)
    BY <1>1, <1>3, <1>7 DEF AttemptInv
  <2>5. ASSUME NEW u \in People, NEW e \in Endpoints
        PROVE  /\ pushes'[<<u, e>>] <= 1
               /\ <<u, e>> \notin attempted' =>
                    pushes'[<<u, e>>] = 0 /\ \A y \in Deliveries : ~ Sending(y, u, e)'
               /\ \A y \in Deliveries : Sending(y, u, e)' =>
                    /\ pushes'[<<u, e>>] = 0
                    /\ \A z \in Deliveries : Sending(z, u, e)' => y = z
    <3> HIDE DEF later, trying, w
    <3>1. CASE u = w /\ e = f
      <4>1. \A y \in Deliveries : Sending(y, u, e)' => y = x
        BY <2>3, <2>4, <3>1
      <4> QED
        BY <1>1, <1>3, <2>4, <3>1, <4>1
    <3>2. CASE ~ (u = w /\ e = f)
      <4>1. \A y \in Deliveries : Sending(y, u, e)' => Sending(y, u, e)
        BY <2>3, <3>2
      <4>2. <<u, e>> \notin attempted' => <<u, e>> \notin attempted
        BY <1>3
      <4> QED
        BY <1>1, <4>1, <4>2 DEF AttemptInv
    <3> QED
      BY <3>1, <3>2
  <2>6. AttemptInv'
    BY <2>5 DEF AttemptInv
  <2> QED
    BY <1>1, <2>1, <2>2, <2>6, RequestsStand DEF PushInv
<1> QED
  BY <1>6, <1>7

(* The push itself.                                                        *)
LEMMA SendKeeps ==
  ASSUME PushInv, NEW x \in Deliveries, Send(x)
  PROVE  PushInv'
<1>1. /\ BrowserTyped /\ RowsTyped /\ RequestsTyped /\ DeliveriesTyped /\ OwnerInv /\ AttemptInv
      /\ delivery[x] \in DeliveryRecords /\ delivery[x].pc = "send"
      /\ UNCHANGED <<rows, attempted>>
  BY DEF PushInv, DeliveriesTyped, Send
<1> DEFINE w == delivery[x].user
           f == delivery[x].endpoint
<1>2. /\ w \in People /\ f \in Endpoints
      /\ pushes' = [pushes EXCEPT ![<<w, f>>] = @ + 1]
  BY <1>1 DEF DeliveriesTyped, Send
<1>3. \E rec \in DeliveryRecords :
        /\ Step(x, rec) /\ rec.pc # "send" /\ rec.found = delivery[x].found /\ rec.user = w
        /\ rec.pc = "expire" => rec.endpoint \in Endpoints
  <2>1. CASE Step(x, Onward(x))
    <3>1. /\ Onward(x) \in DeliveryRecords /\ Onward(x).pc = "next"
          /\ Onward(x).found = delivery[x].found /\ Onward(x).user = w
      BY <1>1 DEF Onward, DeliveryRecords, DeliveryPCs
    <3> QED
      BY <2>1, <3>1
  <2>2. CASE Step(x, [delivery[x] EXCEPT !.pc = "expire"])
    <3> DEFINE rec == [delivery[x] EXCEPT !.pc = "expire"]
    <3>1. /\ rec \in DeliveryRecords /\ rec.pc = "expire"
          /\ rec.found = delivery[x].found /\ rec.user = w /\ rec.endpoint = f
      BY <1>1 DEF DeliveryRecords, DeliveryPCs
    <3> HIDE DEF rec
    <3>2. Step(x, rec)
      BY <2>2 DEF rec
    <3> QED
      BY <1>2, <3>1, <3>2
  <2> QED
    BY <2>1, <2>2 DEF Send
<1>4. PICK rec \in DeliveryRecords :
        /\ Step(x, rec) /\ rec.pc # "send" /\ rec.found = delivery[x].found /\ rec.user = w
        /\ rec.pc = "expire" => rec.endpoint \in Endpoints
  BY <1>3
<1>5. /\ pushes' \in [People \X Endpoints -> Nat]
      /\ pushes'[<<w, f>>] = pushes[<<w, f>>] + 1
      /\ \A r \in People \X Endpoints : r # <<w, f>> => pushes'[r] = pushes[r]
  BY <1>1, <1>2 DEF DeliveriesTyped
<1>6. DeliveriesTyped' /\ delivery'[x] = rec /\ \A y \in Deliveries \ {x} : delivery'[y] = delivery[y]
  <2>1. rec.found # {} => rec.user \in People
    BY <1>2, <1>4
  <2>2. rec.pc \in {"send", "expire"} => rec.user \in People /\ rec.endpoint \in Endpoints
    BY <1>2, <1>4
  <2> QED
    BY <1>1, <1>4, <1>5, <2>1, <2>2, DeliveryMoves
<1>7. ASSUME NEW y \in Deliveries, NEW u \in People, NEW e \in Endpoints, Sending(y, u, e)'
      PROVE  y # x /\ Sending(y, u, e)
  <2>1. delivery'[y].pc = "send" /\ delivery'[y].user = u /\ delivery'[y].endpoint = e
    BY <1>7 DEF Sending
  <2>2. y # x
    BY <1>4, <1>6, <2>1
  <2> QED
    BY <1>6, <2>1, <2>2 DEF Sending
<1>8. /\ Sending(x, w, f) /\ <<w, f>> \in attempted /\ pushes[<<w, f>>] = 0
      /\ \A y \in Deliveries : Sending(y, w, f) => y = x
  <2>1. Sending(x, w, f)
    BY <1>1 DEF Sending
  <2> HIDE DEF w, f
  <2> QED
    BY <1>1, <1>2, <2>1 DEF AttemptInv
<1>9. ASSUME NEW u \in People, NEW e \in Endpoints
      PROVE  /\ pushes'[<<u, e>>] <= 1
             /\ <<u, e>> \notin attempted' =>
                  pushes'[<<u, e>>] = 0 /\ \A y \in Deliveries : ~ Sending(y, u, e)'
             /\ \A y \in Deliveries : Sending(y, u, e)' =>
                  /\ pushes'[<<u, e>>] = 0
                  /\ \A z \in Deliveries : Sending(z, u, e)' => y = z
  <2> HIDE DEF w, f
  <2>1. CASE u = w /\ e = f
    <3>1. \A y \in Deliveries : ~ Sending(y, u, e)'
      BY <1>7, <1>8, <2>1
    <3> QED
      BY <1>1, <1>5, <1>8, <2>1, <3>1
  <2>2. CASE ~ (u = w /\ e = f)
    <3>1. pushes'[<<u, e>>] = pushes[<<u, e>>] /\ attempted' = attempted
      BY <1>1, <1>5, <2>2
    <3> QED
      BY <1>1, <1>7, <3>1 DEF AttemptInv
  <2> QED
    BY <2>1, <2>2
<1>10. AttemptInv'
  BY <1>9 DEF AttemptInv
<1> QED
  BY <1>1, <1>4, <1>6, <1>10, RequestsStand DEF PushInv

(* A subscription that is gone loses its owner.                            *)
LEMMA ExpiredKeeps ==
  ASSUME PushInv, NEW x \in Deliveries, MarkExpired(x)
  PROVE  PushInv'
<1>1. /\ BrowserTyped /\ RowsTyped /\ RequestsTyped /\ DeliveriesTyped /\ OwnerInv /\ AttemptInv
      /\ delivery[x] \in DeliveryRecords /\ delivery[x].pc = "expire"
      /\ Step(x, Onward(x)) /\ UNCHANGED <<attempted, pushes>>
  BY DEF PushInv, DeliveriesTyped, MarkExpired
<1>2. delivery[x].user \in People /\ delivery[x].endpoint \in Endpoints
  BY <1>1 DEF DeliveriesTyped
<1>3. RowsTyped' /\ \A e \in Endpoints : Owners(e)' \subseteq Owners(e)
  <2>1. rows' = [rows EXCEPT ![<<delivery[x].user, delivery[x].endpoint>>].status = "expired"]
    BY DEF MarkExpired
  <2> QED
    BY <1>1, <1>2, <2>1 DEF RowsTyped, RowRecords, Owners
<1>4. UNCHANGED <<browser, made, request, torn>>
  BY <1>1 DEF Step
<1>5. BrowserTyped' /\ RequestsTyped' /\ \A e \in Endpoints : Saving(e) => Saving(e)'
  BY <1>1, <1>4 DEF BrowserTyped, RequestsTyped, Saving
<1>6. OwnerInv'
  BY <1>1, <1>3, <1>4, <1>5, FewerOwners
<1>7. /\ Onward(x) \in DeliveryRecords /\ Onward(x).pc = "next"
      /\ Onward(x).user = delivery[x].user
  BY <1>1 DEF Onward, DeliveryRecords, DeliveryPCs, NoEndpoint
<1>8. pushes' \in [People \X Endpoints -> Nat]
  BY <1>1 DEF DeliveriesTyped
<1>9. /\ DeliveriesTyped' /\ delivery'[x] = Onward(x)
      /\ \A y \in Deliveries \ {x} : delivery'[y] = delivery[y]
  BY <1>1, <1>2, <1>7, <1>8, DeliveryMoves
<1>10. AttemptInv'
  BY <1>1, <1>7, <1>9, QuietDelivery
<1> QED
  BY <1>3, <1>5, <1>6, <1>9, <1>10 DEF PushInv

(* Before anything is saved or delivered.                                  *)
LEMMA PushInitInv == PushInit => PushInv
<1> SUFFICES ASSUME PushInit PROVE PushInv
  OBVIOUS
<1>1. BrowserTyped /\ RowsTyped
  BY PushAssumption DEF PushInit, BrowserTyped, RowsTyped, RowRecords, NoEndpoint
<1>2. RequestsTyped /\ DeliveriesTyped
  BY DEF PushInit, RequestsTyped, RequestRecords, RequestPCs, NoRequest, NoEndpoint,
         DeliveriesTyped, DeliveryRecords, DeliveryPCs, NoDelivery
<1>3. OwnerInv
  BY DEF PushInit, OwnerInv, Owners
<1>4. AttemptInv
  BY DEF PushInit, AttemptInv, Sending, NoDelivery
<1> QED
  BY <1>1, <1>2, <1>3, <1>4 DEF PushInv

LEMMA PushStepInv == PushInv /\ [PushNext]_pushVars => PushInv'
<1> SUFFICES ASSUME PushInv, [PushNext]_pushVars PROVE PushInv'
  OBVIOUS
<1>1. ASSUME NEW u \in People, NEW d \in Devices,
             \/ LoadSnapshot(u, d) \/ SubscribeBrowser(u, d) \/ UnsubscribeBrowser(u, d)
             \/ DisableOthersForDevice(u, d) \/ Upsert(u, d) \/ DisableOthersForEndpoint(u, d)
             \/ Disable(u, d) \/ RequestFails(u, d)
      PROVE  PushInv'
  BY <1>1, AskKeeps, RequestKeeps
<1>2. ASSUME NEW x \in Deliveries,
             \/ ResolveRecipients(x) \/ NextRecipient(x) \/ RecordAttempt(x) \/ Send(x)
             \/ MarkExpired(x) \/ DeliveryStops(x)
      PROVE  PushInv'
  BY <1>2, QuietDeliveryKeeps, RecordKeeps, SendKeeps, ExpiredKeeps
<1>3. CASE UNCHANGED pushVars
  <2>1. UNCHANGED <<browser, made, rows, request, delivery, attempted, pushes, torn>>
    BY <1>3 DEF pushVars
  <2>2. BrowserTyped' /\ RowsTyped' /\ RequestsTyped' /\ DeliveriesTyped' /\ AttemptInv'
    BY <2>1, DeliveriesStand DEF PushInv, BrowserTyped, RowsTyped, RequestsTyped
  <2>3. \A e \in Endpoints : (Saving(e)' <=> Saving(e)) /\ Owners(e)' = Owners(e)
    BY <2>1 DEF Saving, Owners
  <2>4. OwnerInv'
    BY <2>1, <2>3 DEF PushInv, OwnerInv
  <2> QED
    BY <2>2, <2>4 DEF PushInv
<1> QED
  BY <1>1, <1>2, <1>3 DEF PushNext

LEMMA PushAlways == PushSpec => []PushInv
<1> QED
  BY PushInitInv, PushStepInv, PTL DEF PushSpec

(* For any numbers of users, browsers, subscriptions, requests and         *)
(* deliveries: once nobody's save of a subscription is under way or was    *)
(* cut off, at most one user is told of messages through it.               *)
THEOREM OneOwnerAlways == PushSpec => []EndpointHasOneOwner
<1>1. PushInv => EndpointHasOneOwner
  <2> SUFFICES ASSUME PushInv, NEW e \in Endpoints \ torn,
                      \A u \in People, d \in Devices :
                        request[<<u, d>>] # [pc |-> "endpoint", endpoint |-> e]
               PROVE  Cardinality(Owners(e)) <= 1
    BY DEF EndpointHasOneOwner
  <2>1. \A u, v \in Owners(e) : u = v
    BY DEF PushInv, OwnerInv, Saving
  <2>2. CASE Owners(e) = {}
    BY <2>2, FS_EmptySet
  <2>3. CASE Owners(e) # {}
    <3>1. PICK u \in Owners(e) : TRUE
      BY <2>3
    <3>2. Owners(e) = {u}
      BY <2>1, <3>1
    <3>3. Cardinality({u}) = 1
      BY FS_Singleton
    <3> QED
      BY <3>2, <3>3
  <2> QED
    BY <2>2, <2>3
<1> QED
  BY <1>1, PushAlways, PTL

(* For any numbers of them: however many deliveries of the message run at  *)
(* once, and wherever they stop, no subscription is sent it twice.         *)
THEOREM PushedAtMostOnce == PushSpec => []PushedOnce
<1>1. PushInv => PushedOnce
  BY DEF PushInv, AttemptInv, PushedOnce
<1> QED
  BY <1>1, PushAlways, PTL

-----------------------------------------------------------------------------
(* The three parts keep to themselves: a behaviour of their composition is *)
(* one of each, so whatever is proved of a part holds of the composition.  *)
THEOREM PartsKeepApart == SidePartsSpec => Spec /\ TenantSpec /\ PushSpec
<1>1. SidePartsInit => Init /\ TenantInit /\ PushInit
  BY DEF SidePartsInit
<1>2. [SidePartsNext]_<<part, vars, tenantVars, pushVars>>
        => [Next]_vars /\ [TenantNext]_tenantVars /\ [PushNext]_pushVars
  BY DEF SidePartsNext
<1> QED
  BY <1>1, <1>2, PTL DEF SidePartsSpec, Spec, TenantSpec, PushSpec

=============================================================================
