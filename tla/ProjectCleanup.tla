--------------------------- MODULE ProjectCleanup ---------------------------
(***************************************************************************)
(* What is left of ONE project's artifacts once the project is deleted:    *)
(* the upload capabilities that escaped, the objects in R2 and the outbox  *)
(* row (projectArtifactCleanupJobs) whose passes remove them.              *)
(*                                                                         *)
(* A capability is a presigned PUT, minted while the project row is        *)
(* locked and usable until it expires, or one upload through the worker,   *)
(* whose handler saw the project.  A PUT that has started may finish up to *)
(* Grace later, whatever happened to the project meanwhile.                *)
(*                                                                         *)
(* Passes are run by the request that deleted the project and by cron      *)
(* invocations.  Any of them may die between two steps, and any R2 call or *)
(* statement may fail.  The clock is in ticks; the last one, MaxTime,      *)
(* stands for every later time.                                            *)
(***************************************************************************)
EXTENDS Integers, FiniteSets

CONSTANTS
    Uploads,        \* artifacts registered in the project: one key each
    EagerPass,      \* the waitUntil of the deleting request
    CronPasses,     \* invocations of the five-minute sweep
    PutTTL,         \* ARTIFACT_PRESIGNED_PUT_TTL_SECONDS
    Grace,          \* DIRECT_UPLOAD_EXPIRY_GRACE_SECONDS
    Lease,          \* CLAIM_LEASE_SECONDS
    IncompleteRetry,\* INCOMPLETE_RETRY_SECONDS
    BaseRetry,      \* BASE_RETRY_SECONDS
    MaxRetry,       \* MAX_RETRY_SECONDS
    PageSize,       \* objects in one page of storage.list
    PageLimit,      \* ATTEMPT_PAGE_LIMIT
    MaxRun,         \* the platform's limit on an invocation
    MaxFaults,      \* bound: failed calls and dead passes
    DeleteBy,       \* bound: the project is deleted by this time
    MaxTime         \* bound: the clock stops here

Passes == CronPasses \cup {EagerPass}
CleanupFinalizeAfter == PutTTL + Grace

ASSUME CleanupUploadsFinite == IsFiniteSet(Uploads)
ASSUME CleanupEagerIsNoCron == EagerPass \notin CronPasses
ASSUME CleanupTimes ==
    /\ {PutTTL, Grace, Lease, IncompleteRetry, BaseRetry, MaxRetry,
        MaxRun} \subseteq Nat \ {0}
    /\ {PageSize, PageLimit, DeleteBy, MaxTime} \subseteq Nat \ {0}
    /\ MaxFaults \in Nat
\* The last tick is past every window, so that it can stand for later ones.
ASSUME CleanupClockReaches == DeleteBy + CleanupFinalizeAfter <= MaxTime

VARIABLES
    clock,      \* seconds, in ticks
    deletedAt,  \* when the project was deleted, 0 while it is there
    upload,     \* per artifact: capability, running PUT, stored object
    job,        \* the outbox row, or NoJob
    pass,       \* per pass: control point, local variables and, as history,
                \* the objects that landed since it last listed
    faults      \* history: failures so far

cleanupVars == <<clock, deletedAt, upload, job, pass, faults>>

-----------------------------------------------------------------------------
NoJob == [live |-> FALSE, attempts |-> 0, nextAttemptAt |-> 0, createdAt |-> 0]
Resting == [pc |-> "idle", at |-> 0, token |-> 0, createdAt |-> 0, pages |-> 0,
            unseen |-> {}, keys |-> {}, truncated |-> FALSE, finishedAt |-> 0]
PassAt(w, label) == pass[w].pc = label
SetPass(w, r) == pass' = [pass EXCEPT ![w] = r]
NoLater(t) == IF t < MaxTime THEN t ELSE MaxTime
Holding(w) == pass[w].token # 0
StoredUploads == {u \in Uploads : upload[u].stored}

CleanupInit ==
    /\ clock = 1
    /\ deletedAt = 0
    /\ upload = [u \in Uploads |-> [until |-> 0, putAt |-> 0, stored |-> FALSE]]
    /\ job = NoJob
    /\ pass = [w \in Passes |-> Resting]
    /\ faults = 0

-----------------------------------------------------------------------------
(* Uploads *)

\* Under the team's and the project's key-share locks, which the deletion
\* conflicts with.
finalizeUploads(u) ==
    /\ deletedAt = 0
    /\ upload' = [upload EXCEPT ![u].until = clock + PutTTL]
    /\ UNCHANGED <<clock, deletedAt, job, pass, faults>>

\* A PUT through a presigned URL, or through the worker, whose handler read
\* the artifact's row and so saw the project.
MayPut(u) == clock <= upload[u].until \/ deletedAt = 0

startPut(u) ==
    /\ upload[u].putAt = 0
    /\ MayPut(u)
    /\ upload' = [upload EXCEPT ![u].putAt = clock]
    /\ UNCHANGED <<clock, deletedAt, job, pass, faults>>

\* The object appears when the body has been read to its end.
landPut(u) ==
    /\ upload[u].putAt # 0
    /\ upload' = [upload EXCEPT ![u].putAt = 0, ![u].stored = TRUE]
    /\ pass' = [w \in Passes |->
                   IF Holding(w) THEN [pass[w] EXCEPT !.unseen = @ \cup {u}]
                   ELSE pass[w]]
    /\ UNCHANGED <<clock, deletedAt, job, faults>>

\* A PUT takes less than Grace, one that would not is given up; the platform
\* ends an invocation at its limit.
cleanupTick ==
    /\ clock < MaxTime
    /\ clock' = clock + 1
    /\ upload' = [u \in Uploads |->
                     IF upload[u].putAt + Grace <= clock + 1
                     THEN [upload[u] EXCEPT !.putAt = 0] ELSE upload[u]]
    /\ pass' = [w \in Passes |->
                   IF pass[w].at + MaxRun <= clock THEN Resting ELSE pass[w]]
    /\ UNCHANGED <<deletedAt, job, faults>>

-----------------------------------------------------------------------------
(* Deletion, and the passes of its job *)

\* The rows go, the outbox row comes, and the time that bounds every
\* capability is read under the lock; the response starts the eager pass.
teardownProject ==
    /\ deletedAt = 0
    /\ clock <= DeleteBy
    /\ deletedAt' = clock
    /\ job' = [live |-> TRUE, attempts |-> 0, nextAttemptAt |-> clock,
               createdAt |-> clock]
    /\ SetPass(EagerPass, [Resting EXCEPT !.pc = "claim", !.at = clock])
    /\ UNCHANGED <<clock, upload, faults>>

\* The clock is read before the SELECT; the jobs before this one run first.
sweepProjectArtifactCleanup(w) ==
    /\ PassAt(w, "idle")
    /\ job.live /\ job.nextAttemptAt <= clock
    /\ SetPass(w, [Resting EXCEPT !.pc = "claim", !.at = clock])
    /\ UNCHANGED <<clock, deletedAt, upload, job, faults>>

\* Mutant: a claimed job is due as well.
AnyLiveJob(at) == job.live
\* Mutant: a job someone claimed is never taken over.
OnlyUnclaimed(at) == job.live /\ job.attempts = 0
ClaimWhere(at) == job.live /\ job.nextAttemptAt <= at

\* Mutant: the attempts are counted down.
OneLess(n) == n - 1
NextAttempt(n) == n + 1

claimCleanup(w) ==
    /\ PassAt(w, "claim")
    /\ IF ClaimWhere(pass[w].at)
       THEN /\ job' = [job EXCEPT !.attempts = NextAttempt(@),
                          !.nextAttemptAt = NoLater(pass[w].at + Lease)]
            /\ SetPass(w, [pass[w] EXCEPT !.pc = "list",
                              !.token = NextAttempt(job.attempts),
                              !.createdAt = job.createdAt])
       ELSE UNCHANGED job /\ SetPass(w, Resting)
    /\ UNCHANGED <<clock, deletedAt, upload, faults>>

\* Always from the head of the prefix.
listCleanupPage(w) ==
    /\ PassAt(w, "list")
    /\ \E page \in SUBSET StoredUploads :
           /\ \/ page = StoredUploads /\ Cardinality(page) <= PageSize
              \/ page # StoredUploads /\ Cardinality(page) = PageSize
           /\ SetPass(w, [pass[w] EXCEPT !.pc = "delete", !.unseen = {},
                             !.keys = page, !.truncated = page # StoredUploads])
    /\ UNCHANGED <<clock, deletedAt, upload, job, faults>>

\* Mutant: a pass out of pages takes the prefix for empty.
OutOfPagesIsClean(r) ==
    IF r.truncated /\ r.pages + 1 < PageLimit THEN "list" ELSE "clean"

AfterPage(r) ==
    IF ~r.truncated THEN "clean"
    ELSE IF r.pages + 1 < PageLimit THEN "list" ELSE "incomplete"

deleteCleanupPage(w) ==
    /\ PassAt(w, "delete")
    /\ upload' = [u \in Uploads |->
                     IF u \in pass[w].keys
                     THEN [upload[u] EXCEPT !.stored = FALSE] ELSE upload[u]]
    /\ SetPass(w, [pass[w] EXCEPT !.pc = AfterPage(pass[w]),
                                  !.pages = @ + 1, !.keys = {}])
    /\ UNCHANGED <<clock, deletedAt, job, faults>>

\* finishedAt is read once the pages are done or a call has thrown, before
\* the statement that uses it.
PassResults == {"clean", "incomplete", "failed"}
Settling(label) == CASE label = "clean" -> "settleClean"
                     [] label = "incomplete" -> "settleIncomplete"
                     [] label = "failed" -> "settleFailed"

readFinishedAt(w) ==
    /\ pass[w].pc \in PassResults
    /\ SetPass(w, [pass[w] EXCEPT !.pc = Settling(@), !.finishedAt = clock])
    /\ UNCHANGED <<clock, deletedAt, upload, job, faults>>

StillClaimed(w) == job.live /\ job.attempts = pass[w].token

Postpone(w, t) ==
    /\ job' = IF StillClaimed(w) THEN [job EXCEPT !.nextAttemptAt = NoLater(t)]
              ELSE job
    /\ SetPass(w, Resting)
    /\ UNCHANGED <<clock, deletedAt, upload, faults>>

settleIncomplete(w) ==
    /\ PassAt(w, "settleIncomplete")
    /\ Postpone(w, pass[w].finishedAt + IncompleteRetry)

\* Mutant: the time a running PUT may still take is forgotten.
OnceExpired(createdAt) == createdAt + PutTTL
FinalizableAt(createdAt) == createdAt + CleanupFinalizeAfter

settleEarly(w) ==
    /\ PassAt(w, "settleClean")
    /\ pass[w].finishedAt < FinalizableAt(pass[w].createdAt)
    /\ Postpone(w, FinalizableAt(pass[w].createdAt))

settleComplete(w) ==
    /\ PassAt(w, "settleClean")
    /\ pass[w].finishedAt >= FinalizableAt(pass[w].createdAt)
    /\ IF StillClaimed(w)
       THEN job' = NoJob ELSE UNCHANGED job
    /\ SetPass(w, Resting)
    /\ UNCHANGED <<clock, deletedAt, upload, faults>>

\* 2 ** min(attempts - 1, 8)
Doublings == <<1, 2, 4, 8, 16, 32, 64, 128, 256>>
RetryDelay(attempts) ==
    LET delay == BaseRetry * Doublings[IF attempts < 9 THEN attempts ELSE 9]
    IN  IF delay < MaxRetry THEN delay ELSE MaxRetry

settleFailed(w) ==
    /\ PassAt(w, "settleFailed")
    /\ Postpone(w, pass[w].finishedAt + RetryDelay(pass[w].token))

\* A list, a delete (applied or not) or a settling statement throws: the
\* catch reads the clock again.
cleanupThrows(w) ==
    /\ faults < MaxFaults
    /\ pass[w].pc \in {"list", "delete", "settleIncomplete", "settleClean"}
    /\ SetPass(w, [pass[w] EXCEPT !.pc = "failed", !.keys = {}])
    /\ faults' = faults + 1
    /\ upload' \in
           {upload, [u \in Uploads |->
                        IF u \in pass[w].keys
                        THEN [upload[u] EXCEPT !.stored = FALSE] ELSE upload[u]]}
    /\ UNCHANGED <<clock, deletedAt, job>>

\* The invocation is gone: evicted, or its last statement threw.
cleanupDies(w) ==
    /\ faults < MaxFaults
    /\ pass[w].pc # "idle"
    /\ SetPass(w, Resting)
    /\ faults' = faults + 1
    /\ UNCHANGED <<clock, deletedAt, upload, job>>

-----------------------------------------------------------------------------
runPass(w) ==
    \/ claimCleanup(w)
    \/ listCleanupPage(w)
    \/ deleteCleanupPage(w)
    \/ readFinishedAt(w)
    \/ settleIncomplete(w)
    \/ settleEarly(w)
    \/ settleComplete(w)
    \/ settleFailed(w)

CleanupNext ==
    \/ \E u \in Uploads : finalizeUploads(u) \/ startPut(u) \/ landPut(u)
    \/ cleanupTick
    \/ teardownProject
    \/ \E w \in CronPasses : sweepProjectArtifactCleanup(w)
    \/ \E w \in Passes : runPass(w) \/ cleanupThrows(w) \/ cleanupDies(w)

\* Cron keeps ticking, and an invocation that is not cut off goes on.
CleanupFairness ==
    /\ WF_cleanupVars(cleanupTick)
    /\ \A w \in CronPasses :
           WF_cleanupVars(sweepProjectArtifactCleanup(w))
    /\ \A w \in Passes : WF_cleanupVars(runPass(w))

CleanupSpec == CleanupInit /\ [][CleanupNext]_cleanupVars /\ CleanupFairness

-----------------------------------------------------------------------------
(* Properties *)

CleanupTypeOK ==
    /\ clock \in 1 .. MaxTime
    /\ deletedAt \in 0 .. MaxTime
    /\ upload \in [Uploads -> [until : Nat, putAt : Nat, stored : BOOLEAN]]
    /\ job \in [live : BOOLEAN, attempts : Nat, nextAttemptAt : Nat,
                createdAt : Nat]
    /\ pass \in [Passes ->
           [pc : PassResults \cup {"idle", "claim", "list", "delete",
                    "settleIncomplete", "settleClean", "settleFailed"},
            at : Nat, token : Nat, createdAt : Nat, pages : Nat,
            unseen : SUBSET Uploads, keys : SUBSET Uploads,
            truncated : BOOLEAN, finishedAt : Nat]]
    /\ faults \in 0 .. MaxFaults

\* The outbox row outlives everything it is there for: once it is gone no
\* capability of the deleted project can be used and no PUT is running, so
\* nothing can appear under the prefix any more.
JobOutlivesUploads ==
    deletedAt # 0 /\ ~job.live =>
        \A u \in Uploads : ~MayPut(u) /\ upload[u].putAt = 0

\* The eager pass and the cron work the same prefix together only when the
\* first has held its claim for a whole lease: the fence keeps a pass that
\* lost its claim from making the job due while its successor works.
OverlapOnlyPastLease ==
    \A v, w \in Passes :
        Holding(v) /\ Holding(w) /\ pass[v].token < pass[w].token =>
            pass[w].at >= NoLater(pass[v].at + Lease)

\* A pass that removes the job has removed all it could see, over however
\* many pages: what it leaves behind landed after it last listed.
LeavesOnlyUnseen ==
    [][job.live /\ ~job'.live =>
          \A w \in Passes :
              pass[w].token = job.attempts =>
                  StoredUploads \subseteq pass[w].unseen]_cleanupVars

\* project-artifact-cleanup.ts: "Keep the job through that whole window and
\* verify the prefix one final time": no object outlives the job.
NoOrphanOnceJobGone ==
    deletedAt # 0 /\ ~job.live => StoredUploads = {}

\* A deletion is always followed by the end of its job, whatever passes died
\* or failed on the way.
CleanupEnds == deletedAt # 0 ~> ~job.live
=============================================================================
