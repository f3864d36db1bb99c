------------------------ MODULE ProjectCleanupProofs ------------------------
(***************************************************************************)
(* Proofs about ProjectCleanup, for any number of uploads and passes and   *)
(* any values of the windows, the lease and the retry times.               *)
(***************************************************************************)
EXTENDS ProjectCleanup, TLAPS

PassRecord ==
    [pc : PassResults \cup {"idle", "claim", "list", "delete",
              "settleIncomplete", "settleClean", "settleFailed"},
     at : Nat, token : Nat, createdAt : Nat, pages : Nat,
     unseen : SUBSET Uploads, keys : SUBSET Uploads,
     truncated : BOOLEAN, finishedAt : Nat]
UploadRecord == [until : Nat, putAt : Nat, stored : BOOLEAN]
JobRecord == [live : BOOLEAN, attempts : Nat, nextAttemptAt : Nat,
              createdAt : Nat]

USE DEF PassResults

LEMMA RestingType == Resting \in PassRecord /\ ~(Resting.token # 0)
BY DEF Resting, PassRecord

LEMMA NoLaterType ==
    ASSUME NEW t \in Nat
    PROVE  NoLater(t) \in Nat /\ NoLater(t) <= t
BY CleanupTimes DEF NoLater

LEMMA RetryDelayType ==
    ASSUME NEW attempts \in Nat \ {0}
    PROVE  RetryDelay(attempts) \in Nat
<1> DEFINE i == IF attempts < 9 THEN attempts ELSE 9
           delay == BaseRetry * Doublings[i]
<1>1. i \in 1 .. 9
  OBVIOUS
<1>2. Doublings[i] \in Nat
  BY <1>1 DEF Doublings
<1>3. delay \in Nat
  <2> HIDE DEF i
  <2> QED  BY <1>2, CleanupTimes
<1> HIDE DEF delay
<1>4. (IF delay < MaxRetry THEN delay ELSE MaxRetry) \in Nat
  BY <1>3, CleanupTimes
<1> QED  BY <1>4 DEF RetryDelay, delay

-----------------------------------------------------------------------------
(* The inductive invariant *)

\* No capability is usable past the deletion by more than PutTTL, and no PUT
\* runs for Grace.
UploadsBounded ==
    \A u \in Uploads :
        /\ upload[u].putAt <= clock
        /\ upload[u].putAt # 0 => clock < upload[u].putAt + Grace
        /\ deletedAt = 0 => upload[u].until <= clock + PutTTL
        /\ deletedAt # 0 => /\ upload[u].until <= deletedAt + PutTTL
                            /\ upload[u].putAt <= deletedAt + PutTTL

JobCoversWindow ==
    /\ deletedAt <= clock
    /\ job.live => deletedAt # 0 /\ job.createdAt = deletedAt
    /\ deletedAt # 0 /\ ~job.live => deletedAt + CleanupFinalizeAfter <= clock

PassesHold ==
    \A w \in Passes :
        /\ Holding(w) <=> pass[w].pc \notin {"idle", "claim"}
        /\ Holding(w) => deletedAt # 0 /\ pass[w].createdAt = deletedAt
        /\ pass[w].at <= clock
        /\ pass[w].finishedAt <= clock
        /\ pass[w].pc \in {"settleIncomplete", "settleClean", "settleFailed"} =>
               pass[w].at <= pass[w].finishedAt

\* A claim is never due before the leases of all earlier ones have run out.
ClaimsOrdered ==
    /\ \A w \in Passes : Holding(w) /\ job.live =>
           /\ pass[w].token <= job.attempts
           /\ NoLater(pass[w].at + Lease) <= job.nextAttemptAt
    /\ \A v, w \in Passes :
           Holding(v) /\ Holding(w) /\ pass[v].token = pass[w].token => v = w

CleanupInv ==
    /\ CleanupTypeOK
    /\ UploadsBounded
    /\ JobCoversWindow
    /\ PassesHold
    /\ ClaimsOrdered
    /\ OverlapOnlyPastLease

LEMMA TypeIsRecords ==
    CleanupTypeOK <=>
        /\ clock \in 1 .. MaxTime
        /\ deletedAt \in 0 .. MaxTime
        /\ upload \in [Uploads -> UploadRecord]
        /\ job \in JobRecord
        /\ pass \in [Passes -> PassRecord]
        /\ faults \in 0 .. MaxFaults
BY DEF CleanupTypeOK, UploadRecord, JobRecord, PassRecord

USE CleanupTimes, CleanupClockReaches

LEMMA InitInv == CleanupInit => CleanupInv
<1> SUFFICES ASSUME CleanupInit PROVE CleanupInv
  OBVIOUS
<1>1. CleanupTypeOK
  BY RestingType, TypeIsRecords DEF CleanupInit, NoJob, UploadRecord, JobRecord
<1>2. UploadsBounded /\ JobCoversWindow
  BY DEF CleanupInit, UploadsBounded, JobCoversWindow, NoJob
<1>3. PassesHold /\ ClaimsOrdered /\ OverlapOnlyPastLease
  BY DEF CleanupInit, PassesHold, ClaimsOrdered, OverlapOnlyPastLease, Holding,
         Resting
<1> QED  BY <1>1, <1>2, <1>3 DEF CleanupInv

\* A step that only moves uploads, or lets time pass.
LEMMA UploadStep ==
    ASSUME CleanupInv,
           NEW u \in Uploads,
           finalizeUploads(u) \/ startPut(u)
    PROVE  CleanupInv'
<1> USE DEF CleanupInv
<1>1. UNCHANGED <<clock, deletedAt, job, pass, faults>>
  BY DEF finalizeUploads, startPut
<1>2. upload' \in [Uploads -> UploadRecord]
  BY TypeIsRecords DEF finalizeUploads, startPut, UploadRecord
<1>3. CleanupTypeOK'
  BY <1>1, <1>2, TypeIsRecords DEF CleanupTypeOK, UploadRecord
<1>4. UploadsBounded'
  BY <1>1, TypeIsRecords DEF finalizeUploads, startPut, MayPut, UploadsBounded,
         JobCoversWindow, UploadRecord
<1>5. (JobCoversWindow /\ PassesHold /\ ClaimsOrdered /\ OverlapOnlyPastLease)'
  BY <1>1 DEF JobCoversWindow, PassesHold, ClaimsOrdered, OverlapOnlyPastLease,
         Holding
<1> QED  BY <1>3, <1>4, <1>5

LEMMA LandStep ==
    ASSUME CleanupInv, NEW u \in Uploads, landPut(u)
    PROVE  CleanupInv'
<1> USE DEF CleanupInv
<1>1. UNCHANGED <<clock, deletedAt, job, faults>>
  BY DEF landPut
<1>2. upload' \in [Uploads -> UploadRecord]
  BY TypeIsRecords DEF landPut, UploadRecord
<1>3. \A w \in Passes :
         pass'[w] = [pass[w] EXCEPT !.unseen = pass'[w].unseen]
         /\ pass'[w].unseen \in SUBSET Uploads
  BY TypeIsRecords DEF landPut, PassRecord
<1>4. pass' \in [Passes -> PassRecord]
  BY TypeIsRecords DEF landPut, PassRecord
<1>5. CleanupTypeOK'
  BY <1>1, <1>2, <1>4, TypeIsRecords
     DEF CleanupTypeOK, UploadRecord, PassRecord
<1>6. UploadsBounded'
  BY <1>1, TypeIsRecords DEF landPut, UploadsBounded, UploadRecord
<1>7. \A w \in Passes : /\ pass'[w].pc = pass[w].pc
                         /\ pass'[w].at = pass[w].at
                         /\ pass'[w].token = pass[w].token
                         /\ pass'[w].createdAt = pass[w].createdAt
                         /\ pass'[w].finishedAt = pass[w].finishedAt
  BY TypeIsRecords DEF landPut, PassRecord
<1>8. JobCoversWindow'
  BY <1>1 DEF JobCoversWindow
<1>9. PassesHold' /\ ClaimsOrdered' /\ OverlapOnlyPastLease'
  BY <1>1, <1>7 DEF PassesHold, ClaimsOrdered, OverlapOnlyPastLease, Holding
<1> QED  BY <1>5, <1>6, <1>8, <1>9

LEMMA TickStep ==
    ASSUME CleanupInv, cleanupTick
    PROVE  CleanupInv'
<1> USE DEF CleanupInv
<1>1. /\ UNCHANGED <<deletedAt, job, faults>>
      /\ clock \in Nat /\ clock' = clock + 1 /\ clock' \in 1 .. MaxTime
  BY TypeIsRecords DEF cleanupTick
<1>2. upload' \in [Uploads -> UploadRecord]
  BY TypeIsRecords DEF cleanupTick, UploadRecord
<1>3. \A w \in Passes : pass'[w] = Resting \/ pass'[w] = pass[w]
  BY DEF cleanupTick
<1>4. pass' \in [Passes -> PassRecord]
  BY <1>3, TypeIsRecords, RestingType DEF cleanupTick
<1>5. CleanupTypeOK'
  BY <1>1, <1>2, <1>4, TypeIsRecords
     DEF CleanupTypeOK, UploadRecord, PassRecord
<1>6. UploadsBounded'
  BY <1>1, TypeIsRecords
     DEF cleanupTick, UploadsBounded, UploadRecord, JobCoversWindow
<1>7. JobCoversWindow'
  BY <1>1, TypeIsRecords DEF JobCoversWindow, CleanupFinalizeAfter
<1>8. PassesHold'
  BY <1>1, <1>3, TypeIsRecords DEF PassesHold, Holding, Resting, PassRecord
<1>9. ClaimsOrdered' /\ OverlapOnlyPastLease'
  BY <1>1, <1>3 DEF ClaimsOrdered, OverlapOnlyPastLease, Holding, Resting
<1> QED  BY <1>5, <1>6, <1>7, <1>8, <1>9

\* A pass that moves on, keeping the claim it has or giving it up, while the
\* job's row stays as it is.
LEMMA PassMoves ==
    ASSUME CleanupInv,
           NEW w \in Passes, NEW r \in PassRecord, SetPass(w, r),
           UNCHANGED <<clock, deletedAt, job>>,
           faults' \in 0 .. MaxFaults,
           upload' \in [Uploads -> UploadRecord],
           \A u \in Uploads : /\ upload'[u].until = upload[u].until
                              /\ upload'[u].putAt = upload[u].putAt,
           r.token # 0 <=> r.pc \notin {"idle", "claim"},
           r.token # 0 => /\ Holding(w)
                          /\ r.token = pass[w].token
                          /\ r.at = pass[w].at
                          /\ r.createdAt = pass[w].createdAt,
           r.at <= clock,
           r.finishedAt <= clock,
           r.pc \in {"settleIncomplete", "settleClean", "settleFailed"} =>
               r.at <= r.finishedAt
    PROVE  CleanupInv'
<1> USE DEF CleanupInv
<1>1. pass' \in [Passes -> PassRecord] /\ pass'[w] = r
      /\ \A v \in Passes \ {w} : pass'[v] = pass[v]
  BY TypeIsRecords DEF SetPass
<1>2. CleanupTypeOK'
  BY <1>1, TypeIsRecords
     DEF CleanupTypeOK, UploadRecord, JobRecord, PassRecord
<1>3. UploadsBounded' /\ JobCoversWindow'
  BY DEF UploadsBounded, JobCoversWindow
<1>4. PassesHold'
  BY <1>1 DEF PassesHold, Holding
<1>5. \A v \in Passes : Holding(v)' => /\ Holding(v)
                                       /\ pass'[v].token = pass[v].token
                                       /\ pass'[v].at = pass[v].at
  BY <1>1 DEF Holding
<1>6. ClaimsOrdered' /\ OverlapOnlyPastLease'
  BY <1>5 DEF ClaimsOrdered, OverlapOnlyPastLease
<1> QED  BY <1>2, <1>3, <1>4, <1>6

\* A pass that still holds the job makes it due again, no earlier than now.
LEMMA PassPostpones ==
    ASSUME CleanupInv,
           NEW w \in Passes, NEW t \in Nat, Postpone(w, t), Holding(w),
           pass[w].finishedAt <= t,
           pass[w].at <= pass[w].finishedAt
    PROVE  CleanupInv'
<1> USE DEF CleanupInv
<1>1. UNCHANGED <<clock, deletedAt, upload, faults>> /\ SetPass(w, Resting)
  BY DEF Postpone
<1>2. CASE ~StillClaimed(w)
  <2>1. UNCHANGED job
    BY <1>2 DEF Postpone
  <2>2. clock \in Nat /\ faults \in 0 .. MaxFaults
        /\ upload \in [Uploads -> UploadRecord]
    BY TypeIsRecords
  <2> QED  BY <1>1, <2>1, <2>2, RestingType, PassMoves DEF Resting
<1>3. CASE StillClaimed(w)
  <2>1. /\ job' \in JobRecord /\ job'.live /\ job'.attempts = job.attempts
        /\ job'.createdAt = job.createdAt
        /\ job'.nextAttemptAt = NoLater(t)
        /\ job.live /\ job.attempts = pass[w].token
    BY <1>3, NoLaterType, TypeIsRecords DEF Postpone, StillClaimed, JobRecord
  <2>2. /\ pass' \in [Passes -> PassRecord]
        /\ ~Holding(w)'
        /\ pass'[w] = Resting
        /\ \A v \in Passes \ {w} : pass'[v] = pass[v]
    BY <1>1, RestingType, TypeIsRecords DEF SetPass, Holding
  <2>3. CleanupTypeOK'
    BY <1>1, <2>1, <2>2, TypeIsRecords
       DEF CleanupTypeOK, UploadRecord, JobRecord, PassRecord
  <2>4. UploadsBounded' /\ JobCoversWindow'
    BY <1>1, <2>1 DEF UploadsBounded, JobCoversWindow
  <2>5. PassesHold'
    BY <1>1, <2>2, TypeIsRecords DEF PassesHold, Holding, Resting
  <2>6. ASSUME NEW v \in Passes, Holding(v)'
        PROVE  NoLater(pass'[v].at + Lease) <= job'.nextAttemptAt
    <3>1. v # w /\ Holding(v) /\ pass'[v] = pass[v]
      BY <2>2, <2>6 DEF Holding
    <3>2. pass[v].token < pass[w].token
      <4>1. pass[v].token <= job.attempts /\ pass[v].token # pass[w].token
        BY <2>1, <3>1 DEF ClaimsOrdered
      <4> QED  BY <4>1, <2>1, TypeIsRecords DEF PassRecord
    <3>3. NoLater(pass[v].at + Lease) <= pass[w].at
      BY <3>1, <3>2 DEF OverlapOnlyPastLease
    <3>4. NoLater(pass[v].at + Lease) <= t
      BY <3>3, NoLaterType, TypeIsRecords DEF PassRecord
    <3> QED  BY <2>1, <3>1, <3>4, NoLaterType, TypeIsRecords
             DEF NoLater, PassRecord
  <2>7. ClaimsOrdered' /\ OverlapOnlyPastLease'
    BY <2>1, <2>2, <2>6 DEF ClaimsOrdered, OverlapOnlyPastLease, Holding
  <2> QED  BY <2>3, <2>4, <2>5, <2>7
<1> QED  BY <1>2, <1>3

LEMMA ClaimStep ==
    ASSUME CleanupInv, NEW w \in Passes, claimCleanup(w)
    PROVE  CleanupInv'
<1> USE DEF CleanupInv
<1>1. UNCHANGED <<clock, deletedAt, upload, faults>> /\ pass[w].pc = "claim"
  BY DEF claimCleanup, PassAt
<1>2. CASE ~ClaimWhere(pass[w].at)
  <2>1. UNCHANGED job /\ SetPass(w, Resting)
    BY <1>2 DEF claimCleanup, NextAttempt
  <2>2. clock \in Nat /\ faults \in 0 .. MaxFaults
        /\ upload \in [Uploads -> UploadRecord]
    BY TypeIsRecords
  <2> QED  BY <1>1, <2>1, <2>2, RestingType, PassMoves DEF Resting
<1>3. CASE ClaimWhere(pass[w].at)
  <2> DEFINE r == [pass[w] EXCEPT !.pc = "list", !.token = job.attempts + 1,
                                  !.createdAt = job.createdAt]
  <2>1. /\ job.live /\ job.nextAttemptAt <= pass[w].at
        /\ job' = [job EXCEPT !.attempts = @ + 1,
                      !.nextAttemptAt = NoLater(pass[w].at + Lease)]
        /\ SetPass(w, r)
    BY <1>3 DEF claimCleanup, ClaimWhere, NextAttempt
  <2>2. job \in JobRecord /\ pass \in [Passes -> PassRecord]
        /\ pass[w] \in PassRecord
    BY TypeIsRecords
  <2>sums. pass[w].at + Lease \in Nat /\ job.attempts + 1 \in Nat \ {0}
    BY <2>2 DEF PassRecord, JobRecord
  <2>lease. NoLater(pass[w].at + Lease) \in Nat
    BY <2>sums, NoLaterType
  <2>3. /\ job' \in JobRecord /\ job'.live
        /\ job'.attempts = job.attempts + 1
        /\ job'.createdAt = job.createdAt
        /\ job'.nextAttemptAt = NoLater(pass[w].at + Lease)
    BY <2>1, <2>2, <2>sums, <2>lease DEF JobRecord
  <2>born. job.createdAt \in Nat
    BY <2>2 DEF JobRecord
  <2>4. r \in PassRecord /\ r.token = job.attempts + 1 /\ r.pc = "list"
        /\ r.createdAt = job.createdAt /\ r.at = pass[w].at
        /\ r.finishedAt = pass[w].finishedAt
    BY <2>2, <2>sums, <2>born DEF PassRecord
  <2> HIDE DEF r
  <2>5. /\ pass' \in [Passes -> PassRecord] /\ pass'[w] = r
        /\ \A v \in Passes \ {w} : pass'[v] = pass[v]
    BY <2>1, <2>2, <2>4 DEF SetPass
  <2>6. CleanupTypeOK'
    BY <1>1, <2>3, <2>5, TypeIsRecords
       DEF CleanupTypeOK, UploadRecord, JobRecord, PassRecord
  <2>7. UploadsBounded' /\ JobCoversWindow'
    BY <1>1, <2>1, <2>3 DEF UploadsBounded, JobCoversWindow
  <2>8. PassesHold'
    <3>1. r.token # 0 /\ job.createdAt = deletedAt /\ deletedAt # 0
      BY <2>1, <2>2, <2>4 DEF JobCoversWindow, JobRecord
    <3> QED  BY <1>1, <2>4, <2>5, <3>1 DEF PassesHold, Holding
  <2>9. \A v \in Passes \ {w} :
           Holding(v) => /\ pass[v].token < r.token
                         /\ NoLater(pass[v].at + Lease) <= pass[w].at
    BY <2>1, <2>2, <2>4, NoLaterType
       DEF ClaimsOrdered, PassRecord, JobRecord
  <2>10. ClaimsOrdered'
    <3>1. \A v \in Passes \ {w} :
            Holding(v) => NoLater(pass[v].at + Lease) <= job'.nextAttemptAt
      BY <2>2, <2>3, <2>9, NoLaterType DEF NoLater, PassRecord
    <3> QED  BY <2>2, <2>3, <2>4, <2>5, <2>9, <3>1
             DEF ClaimsOrdered, Holding, PassRecord, JobRecord
  <2>11. OverlapOnlyPastLease'
    BY <2>2, <2>4, <2>5, <2>9 DEF OverlapOnlyPastLease, Holding, PassRecord
  <2> QED  BY <2>6, <2>7, <2>8, <2>10, <2>11
<1> QED  BY <1>2, <1>3

LEMMA TeardownStep ==
    ASSUME CleanupInv, teardownProject
    PROVE  CleanupInv'
<1> USE DEF CleanupInv
<1> DEFINE r == [Resting EXCEPT !.pc = "claim", !.at = clock]
<1>1. /\ deletedAt = 0 /\ deletedAt' = clock /\ clock \in 1 .. MaxTime
      /\ job' = [live |-> TRUE, attempts |-> 0, nextAttemptAt |-> clock,
                 createdAt |-> clock]
      /\ SetPass(EagerPass, r)
      /\ UNCHANGED <<clock, upload, faults>>
  BY TypeIsRecords DEF teardownProject
<1>2. r \in PassRecord /\ r.token = 0 /\ r.pc = "claim" /\ r.at = clock
      /\ r.finishedAt = 0
  <2>1. clock \in Nat
    BY <1>1
  <2> QED  BY <2>1 DEF Resting, PassRecord
<1> HIDE DEF r
<1>3. /\ pass' \in [Passes -> PassRecord] /\ pass'[EagerPass] = r
      /\ \A v \in Passes \ {EagerPass} : pass'[v] = pass[v]
  BY <1>1, <1>2, TypeIsRecords DEF SetPass, Passes
<1>4. CleanupTypeOK'
  BY <1>1, <1>3, TypeIsRecords
     DEF CleanupTypeOK, UploadRecord, JobRecord, PassRecord
<1>5. UploadsBounded'
  BY <1>1, TypeIsRecords DEF UploadsBounded, UploadRecord
<1>6. JobCoversWindow'
  BY <1>1 DEF JobCoversWindow
<1>7. \A v \in Passes : ~Holding(v)
  BY <1>1 DEF PassesHold
<1>8. PassesHold'
  BY <1>1, <1>2, <1>3, <1>7 DEF PassesHold, Holding
<1>9. ClaimsOrdered' /\ OverlapOnlyPastLease'
  BY <1>2, <1>3, <1>7 DEF ClaimsOrdered, OverlapOnlyPastLease, Holding
<1> QED  BY <1>4, <1>5, <1>6, <1>8, <1>9

\* The job is removed only past the window, or by nobody.
LEMMA CompleteStep ==
    ASSUME CleanupInv, NEW w \in Passes, settleComplete(w)
    PROVE  CleanupInv'
<1> USE DEF CleanupInv
<1>1. /\ UNCHANGED <<clock, deletedAt, upload, faults>>
      /\ SetPass(w, Resting) /\ pass[w].pc = "settleClean"
      /\ pass[w].finishedAt >= FinalizableAt(pass[w].createdAt)
  BY DEF settleComplete, PassAt
<1>2. CASE ~StillClaimed(w)
  <2>1. UNCHANGED job
    BY <1>2 DEF settleComplete
  <2>2. clock \in Nat /\ faults \in 0 .. MaxFaults
        /\ upload \in [Uploads -> UploadRecord]
    BY TypeIsRecords
  <2> QED  BY <1>1, <2>1, <2>2, RestingType, PassMoves DEF Resting
<1>3. CASE StillClaimed(w)
  <2>1. job' = NoJob
    BY <1>3 DEF settleComplete
  <2>2. /\ pass' \in [Passes -> PassRecord] /\ pass'[w] = Resting
        /\ \A v \in Passes \ {w} : pass'[v] = pass[v]
    BY <1>1, RestingType, TypeIsRecords DEF SetPass
  <2>3. CleanupTypeOK'
    BY <1>1, <2>1, <2>2, TypeIsRecords
       DEF CleanupTypeOK, UploadRecord, JobRecord, PassRecord, NoJob
  <2>4. UploadsBounded'
    BY <1>1 DEF UploadsBounded
  <2>5. JobCoversWindow'
    <3>1. deletedAt # 0 /\ pass[w].createdAt = deletedAt
          /\ pass[w].finishedAt <= clock
      BY <1>1 DEF PassesHold
    <3>2. deletedAt + CleanupFinalizeAfter <= clock
      BY <1>1, <3>1, TypeIsRecords
         DEF FinalizableAt, CleanupFinalizeAfter, PassRecord
    <3> QED  BY <1>1, <2>1, <3>2 DEF JobCoversWindow, NoJob
  <2>6. PassesHold'
    BY <1>1, <2>2, TypeIsRecords DEF PassesHold, Holding, Resting
  <2>7. ClaimsOrdered' /\ OverlapOnlyPastLease'
    BY <2>1, <2>2 DEF ClaimsOrdered, OverlapOnlyPastLease, Holding, NoJob,
       Resting
  <2> QED  BY <2>3, <2>4, <2>5, <2>6, <2>7
<1> QED  BY <1>2, <1>3

LEMMA SweepStep ==
    ASSUME CleanupInv, NEW w \in CronPasses, sweepProjectArtifactCleanup(w)
    PROVE  CleanupInv'
<1> USE DEF CleanupInv
<1> DEFINE r == [Resting EXCEPT !.pc = "claim", !.at = clock]
<1>1. clock \in Nat /\ faults \in 0 .. MaxFaults
      /\ upload \in [Uploads -> UploadRecord]
  BY TypeIsRecords
<1>2. r \in PassRecord /\ r.token = 0 /\ r.pc = "claim" /\ r.at = clock
      /\ r.finishedAt = 0
  BY <1>1 DEF Resting, PassRecord
<1>3. SetPass(w, r) /\ UNCHANGED <<clock, deletedAt, upload, job, faults>>
  BY DEF sweepProjectArtifactCleanup
<1>4. w \in Passes
  BY DEF Passes
<1> HIDE DEF r
<1> QED  BY <1>1, <1>2, <1>3, <1>4, PassMoves

LEMMA ListStep ==
    ASSUME CleanupInv, NEW w \in Passes, listCleanupPage(w)
    PROVE  CleanupInv'
<1> USE DEF CleanupInv
<1>1. PICK page \in SUBSET StoredUploads :
        SetPass(w, [pass[w] EXCEPT !.pc = "delete", !.unseen = {},
                      !.keys = page, !.truncated = page # StoredUploads])
  BY DEF listCleanupPage
<1> DEFINE r == [pass[w] EXCEPT !.pc = "delete", !.unseen = {},
                   !.keys = page, !.truncated = page # StoredUploads]
<1>2. pass[w] \in PassRecord /\ faults \in 0 .. MaxFaults
      /\ upload \in [Uploads -> UploadRecord] /\ page \in SUBSET Uploads
  BY TypeIsRecords DEF StoredUploads
<1>3. r \in PassRecord /\ r.token = pass[w].token /\ r.pc = "delete"
      /\ r.at = pass[w].at /\ r.finishedAt = pass[w].finishedAt
      /\ r.createdAt = pass[w].createdAt
  BY <1>2 DEF PassRecord
<1>4. pass[w].pc = "list" /\ UNCHANGED <<clock, deletedAt, upload, job, faults>>
  BY DEF listCleanupPage, PassAt
<1>5. Holding(w) /\ pass[w].at <= clock /\ pass[w].finishedAt <= clock
  BY <1>4 DEF PassesHold
<1>6. SetPass(w, r)
  BY <1>1
<1> HIDE DEF r
<1> QED  BY <1>2, <1>3, <1>4, <1>5, <1>6, PassMoves DEF Holding

LEMMA DeletedPage ==
    ASSUME CleanupInv, NEW K
    PROVE  LET up == [u \in Uploads |->
                        IF u \in K THEN [upload[u] EXCEPT !.stored = FALSE]
                        ELSE upload[u]]
           IN  /\ up \in [Uploads -> UploadRecord]
               /\ \A u \in Uploads : /\ up[u].until = upload[u].until
                                     /\ up[u].putAt = upload[u].putAt
BY TypeIsRecords DEF CleanupInv, UploadRecord

LEMMA DeleteStep ==
    ASSUME CleanupInv, NEW w \in Passes, deleteCleanupPage(w)
    PROVE  CleanupInv'
<1> USE DEF CleanupInv
<1> DEFINE r == [pass[w] EXCEPT !.pc = AfterPage(pass[w]),
                                !.pages = @ + 1, !.keys = {}]
<1>1. pass[w] \in PassRecord /\ faults \in 0 .. MaxFaults
  BY TypeIsRecords
<1>2. AfterPage(pass[w]) \in {"clean", "list", "incomplete"}
  BY DEF AfterPage
<1>3. r \in PassRecord /\ r.token = pass[w].token
      /\ r.pc \in {"clean", "list", "incomplete"}
      /\ r.at = pass[w].at /\ r.finishedAt = pass[w].finishedAt
      /\ r.createdAt = pass[w].createdAt
  <2> DEFINE next == AfterPage(pass[w])
  <2>1. next \in {"clean", "list", "incomplete"} /\ pass[w].pages + 1 \in Nat
    BY <1>1, <1>2 DEF PassRecord
  <2> HIDE DEF next
  <2>2. [pass[w] EXCEPT !.pc = next, !.pages = @ + 1, !.keys = {}]
          \in PassRecord
    BY <1>1, <2>1 DEF PassRecord
  <2> QED  BY <1>1, <2>1, <2>2 DEF PassRecord, next
<1>4. /\ pass[w].pc = "delete" /\ UNCHANGED <<clock, deletedAt, job, faults>>
      /\ SetPass(w, r)
  BY DEF deleteCleanupPage, PassAt
<1>5. Holding(w) /\ pass[w].at <= clock /\ pass[w].finishedAt <= clock
  BY <1>4 DEF PassesHold
<1>6. /\ upload' \in [Uploads -> UploadRecord]
      /\ \A u \in Uploads : /\ upload'[u].until = upload[u].until
                            /\ upload'[u].putAt = upload[u].putAt
  BY DeletedPage DEF deleteCleanupPage
<1> HIDE DEF r
<1> QED  BY <1>1, <1>3, <1>4, <1>5, <1>6, PassMoves DEF Holding

LEMMA FinishedAtStep ==
    ASSUME CleanupInv, NEW w \in Passes, readFinishedAt(w)
    PROVE  CleanupInv'
<1> USE DEF CleanupInv
<1> DEFINE r == [pass[w] EXCEPT !.pc = Settling(@), !.finishedAt = clock]
<1>1. /\ pass[w] \in PassRecord /\ faults \in 0 .. MaxFaults /\ clock \in Nat
      /\ upload \in [Uploads -> UploadRecord]
  BY TypeIsRecords
<1>2. /\ pass[w].pc \in PassResults /\ SetPass(w, r)
      /\ UNCHANGED <<clock, deletedAt, upload, job, faults>>
  BY DEF readFinishedAt
<1>3. Settling(pass[w].pc) \in
         {"settleIncomplete", "settleClean", "settleFailed"}
  BY <1>2 DEF Settling
<1>4. r \in PassRecord /\ r.token = pass[w].token
      /\ r.pc \in {"settleIncomplete", "settleClean", "settleFailed"}
      /\ r.at = pass[w].at /\ r.finishedAt = clock
      /\ r.createdAt = pass[w].createdAt
  BY <1>1, <1>3 DEF PassRecord
<1>5. Holding(w) /\ pass[w].at <= clock
  BY <1>2 DEF PassesHold
<1> HIDE DEF r
<1> QED  BY <1>1, <1>2, <1>4, <1>5, PassMoves DEF Holding

LEMMA SettleStep ==
    ASSUME CleanupInv, NEW w \in Passes,
           settleIncomplete(w) \/ settleEarly(w) \/ settleFailed(w)
    PROVE  CleanupInv'
<1> USE DEF CleanupInv
<1>1. pass[w] \in PassRecord
  BY TypeIsRecords
<1>2. pass[w].pc \in {"settleIncomplete", "settleClean", "settleFailed"}
  BY DEF settleIncomplete, settleEarly, settleFailed, PassAt
<1>3. /\ Holding(w) /\ pass[w].at <= pass[w].finishedAt
      /\ pass[w].finishedAt \in Nat /\ pass[w].token \in Nat \ {0}
  BY <1>1, <1>2 DEF PassesHold, PassRecord, Holding
<1>4. CASE settleIncomplete(w)
  <2>1. /\ Postpone(w, pass[w].finishedAt + IncompleteRetry)
        /\ pass[w].finishedAt + IncompleteRetry \in Nat
        /\ pass[w].finishedAt <= pass[w].finishedAt + IncompleteRetry
    BY <1>3, <1>4 DEF settleIncomplete
  <2> QED  BY <1>3, <2>1, PassPostpones
<1>5. CASE settleEarly(w)
  <2>1. /\ Postpone(w, FinalizableAt(pass[w].createdAt))
        /\ FinalizableAt(pass[w].createdAt) \in Nat
        /\ pass[w].finishedAt <= FinalizableAt(pass[w].createdAt)
    BY <1>1, <1>3, <1>5
       DEF settleEarly, FinalizableAt, CleanupFinalizeAfter, PassRecord
  <2> QED  BY <1>3, <2>1, PassPostpones
<1>6. CASE settleFailed(w)
  <2>1. RetryDelay(pass[w].token) \in Nat
    BY <1>3, RetryDelayType
  <2>2. /\ Postpone(w, pass[w].finishedAt + RetryDelay(pass[w].token))
        /\ pass[w].finishedAt + RetryDelay(pass[w].token) \in Nat
        /\ pass[w].finishedAt <= pass[w].finishedAt + RetryDelay(pass[w].token)
    BY <1>3, <1>6, <2>1 DEF settleFailed
  <2> QED  BY <1>3, <2>2, PassPostpones
<1> QED  BY <1>4, <1>5, <1>6

LEMMA ThrowStep ==
    ASSUME CleanupInv, NEW w \in Passes, cleanupThrows(w)
    PROVE  CleanupInv'
<1> USE DEF CleanupInv
<1> DEFINE r == [pass[w] EXCEPT !.pc = "failed", !.keys = {}]
<1>1. pass[w] \in PassRecord /\ upload \in [Uploads -> UploadRecord]
      /\ faults' \in 0 .. MaxFaults
  BY TypeIsRecords DEF cleanupThrows
<1>2. r \in PassRecord /\ r.token = pass[w].token /\ r.pc = "failed"
      /\ r.at = pass[w].at /\ r.finishedAt = pass[w].finishedAt
      /\ r.createdAt = pass[w].createdAt
  BY <1>1 DEF PassRecord
<1>3. /\ pass[w].pc \notin {"idle", "claim"} /\ SetPass(w, r)
      /\ UNCHANGED <<clock, deletedAt, job>>
  BY DEF cleanupThrows
<1>4. Holding(w) /\ pass[w].at <= clock /\ pass[w].finishedAt <= clock
  BY <1>3 DEF PassesHold
<1>5. /\ upload' \in [Uploads -> UploadRecord]
      /\ \A u \in Uploads : /\ upload'[u].until = upload[u].until
                            /\ upload'[u].putAt = upload[u].putAt
  <2> DEFINE up == [u \in Uploads |->
                      IF u \in pass[w].keys
                      THEN [upload[u] EXCEPT !.stored = FALSE] ELSE upload[u]]
  <2>1. /\ up \in [Uploads -> UploadRecord]
        /\ \A u \in Uploads : /\ up[u].until = upload[u].until
                              /\ up[u].putAt = upload[u].putAt
    BY DeletedPage
  <2>2. upload' = upload \/ upload' = up
    BY DEF cleanupThrows
  <2> HIDE DEF up
  <2> QED  BY <1>1, <2>1, <2>2
<1> HIDE DEF r
<1> QED  BY <1>1, <1>2, <1>3, <1>4, <1>5, PassMoves DEF Holding

LEMMA DieStep ==
    ASSUME CleanupInv, NEW w \in Passes, cleanupDies(w)
    PROVE  CleanupInv'
<1>1. faults' \in 0 .. MaxFaults /\ clock \in Nat
      /\ upload \in [Uploads -> UploadRecord]
  BY TypeIsRecords DEF cleanupDies, CleanupInv
<1> QED  BY <1>1, RestingType, PassMoves DEF cleanupDies, Resting

LEMMA StutterStep ==
    ASSUME CleanupInv, UNCHANGED cleanupVars
    PROVE  CleanupInv'
BY DEF CleanupInv, cleanupVars, CleanupTypeOK, UploadsBounded, JobCoversWindow,
       PassesHold, ClaimsOrdered, OverlapOnlyPastLease, Holding

LEMMA NextInv == CleanupInv /\ [CleanupNext]_cleanupVars => CleanupInv'
<1> SUFFICES ASSUME CleanupInv, [CleanupNext]_cleanupVars
             PROVE  CleanupInv'
  OBVIOUS
<1>1. CASE \E u \in Uploads : finalizeUploads(u) \/ startPut(u) \/ landPut(u)
  BY <1>1, UploadStep, LandStep
<1>2. CASE cleanupTick
  BY <1>2, TickStep
<1>3. CASE teardownProject
  BY <1>3, TeardownStep
<1>4. CASE \E w \in CronPasses : sweepProjectArtifactCleanup(w)
  BY <1>4, SweepStep
<1>5. CASE \E w \in Passes : runPass(w) \/ cleanupThrows(w) \/ cleanupDies(w)
  BY <1>5, ClaimStep, ListStep, DeleteStep, FinishedAtStep, SettleStep,
     CompleteStep, ThrowStep, DieStep DEF runPass
<1>6. CASE UNCHANGED cleanupVars
  BY <1>6, StutterStep
<1> QED  BY <1>1, <1>2, <1>3, <1>4, <1>5, <1>6 DEF CleanupNext

-----------------------------------------------------------------------------
(* Theorems *)

\* Every behaviour of the cleanup satisfies the invariant, and so its types.
THEOREM CleanupInvariant == CleanupSpec => []CleanupInv
<1>1. CleanupInit => CleanupInv
  BY InitInv
<1>2. CleanupInv /\ [CleanupNext]_cleanupVars => CleanupInv'
  BY NextInv
<1> QED  BY <1>1, <1>2, PTL DEF CleanupSpec

\* The types of the cleanup's state.
THEOREM CleanupTypes == CleanupSpec => []CleanupTypeOK
BY CleanupInvariant, PTL DEF CleanupInv

\* The outbox row of a deleted project outlives every capability minted for
\* it and every PUT still running.
THEOREM JobOutlives == CleanupSpec => []JobOutlivesUploads
<1>1. CleanupInv => JobOutlivesUploads
  <2> SUFFICES ASSUME CleanupInv, deletedAt # 0, ~job.live, NEW u \in Uploads
               PROVE  ~MayPut(u) /\ upload[u].putAt = 0
    BY DEF JobOutlivesUploads
  <2>1. /\ clock \in Nat /\ deletedAt \in Nat /\ upload[u].until \in Nat
        /\ upload[u].putAt \in Nat
    BY TypeIsRecords DEF CleanupInv, UploadRecord
  <2>2. deletedAt + PutTTL + Grace <= clock
    BY <2>1 DEF CleanupInv, JobCoversWindow, CleanupFinalizeAfter
  <2>3. /\ upload[u].until <= deletedAt + PutTTL
        /\ upload[u].putAt <= deletedAt + PutTTL
        /\ upload[u].putAt # 0 => clock < upload[u].putAt + Grace
    BY DEF CleanupInv, UploadsBounded
  <2> QED  BY <2>1, <2>2, <2>3 DEF MayPut
<1> QED  BY <1>1, CleanupInvariant, PTL

\* Two passes work the prefix together only a whole lease apart.
THEOREM LeaseHolds == CleanupSpec => []OverlapOnlyPastLease
BY CleanupInvariant, PTL DEF CleanupInv

-----------------------------------------------------------------------------
(* What a pass that takes the prefix for empty has not seen *)

\* What is stored and is not on the last page landed after it was listed, and
\* once that page is deleted, all that is stored did.
PagesSeen ==
    \A w \in Passes :
        /\ PassAt(w, "delete") /\ ~pass[w].truncated =>
               StoredUploads \subseteq pass[w].keys \cup pass[w].unseen
        /\ pass[w].pc \in {"clean", "settleClean"} =>
               StoredUploads \subseteq pass[w].unseen

\* The pass that moves is the only one that may claim more.
LEMMA SeenByOthers ==
    ASSUME PagesSeen, CleanupInv,
           NEW w \in Passes, NEW r \in PassRecord, SetPass(w, r),
           StoredUploads' \subseteq StoredUploads,
           r.pc # "delete",
           r.pc \in {"clean", "settleClean"} =>
               StoredUploads' \subseteq r.unseen
    PROVE  PagesSeen'
<1>1. pass'[w] = r /\ \A v \in Passes \ {w} : pass'[v] = pass[v]
  BY TypeIsRecords DEF CleanupInv, SetPass
<1>2. ASSUME NEW v \in Passes
      PROVE  /\ pass'[v].pc = "delete" /\ ~pass'[v].truncated =>
                    StoredUploads' \subseteq pass'[v].keys \cup pass'[v].unseen
             /\ pass'[v].pc \in {"clean", "settleClean"} =>
                    StoredUploads' \subseteq pass'[v].unseen
  <2>1. CASE v = w
    BY <1>1, <2>1
  <2>2. CASE v # w
    BY <1>1, <2>2 DEF PagesSeen, PassAt
  <2> QED  BY <2>1, <2>2
<1> QED  BY <1>2 DEF PagesSeen, PassAt

LEMMA StoredStays ==
    ASSUME UNCHANGED upload
    PROVE  StoredUploads' = StoredUploads
BY DEF StoredUploads

LEMMA StoredShrinks ==
    ASSUME CleanupInv, NEW K,
           upload' = [u \in Uploads |->
                        IF u \in K THEN [upload[u] EXCEPT !.stored = FALSE]
                        ELSE upload[u]]
    PROVE  StoredUploads' = StoredUploads \ K
<1>1. upload \in [Uploads -> UploadRecord]
  BY TypeIsRecords DEF CleanupInv
<1>2. \A u \in Uploads :
        upload'[u].stored = (upload[u].stored /\ u \notin K)
  BY <1>1 DEF UploadRecord
<1> QED  BY <1>2 DEF StoredUploads

LEMMA UploadsSeen ==
    ASSUME PagesSeen, CleanupInv, NEW u \in Uploads,
           finalizeUploads(u) \/ startPut(u) \/ landPut(u)
    PROVE  PagesSeen'
<1>1. upload \in [Uploads -> UploadRecord] /\ pass \in [Passes -> PassRecord]
  BY TypeIsRecords DEF CleanupInv
<1>2. CASE finalizeUploads(u) \/ startPut(u)
  <2>1. \A v \in Uploads : upload'[v].stored = upload[v].stored
    BY <1>1, <1>2 DEF finalizeUploads, startPut, UploadRecord
  <2>2. StoredUploads' = StoredUploads /\ UNCHANGED pass
    BY <1>2, <2>1 DEF StoredUploads, finalizeUploads, startPut
  <2> QED  BY <2>2 DEF PagesSeen, PassAt
<1>3. CASE landPut(u)
  <2>1. \A v \in Uploads \ {u} : upload'[v].stored = upload[v].stored
    BY <1>1, <1>3 DEF landPut, UploadRecord
  <2>2. StoredUploads' \subseteq StoredUploads \cup {u}
    BY <2>1 DEF StoredUploads
  <2>3. ASSUME NEW w \in Passes
        PROVE  /\ pass'[w].pc = pass[w].pc
               /\ pass'[w].keys = pass[w].keys
               /\ pass'[w].truncated = pass[w].truncated
               /\ Holding(w) => pass'[w].unseen = pass[w].unseen \cup {u}
    BY <1>1, <1>3 DEF landPut, PassRecord
  <2>4. \A w \in Passes :
          pass[w].pc \in {"delete", "clean", "settleClean"} => Holding(w)
    BY DEF CleanupInv, PassesHold
  <2> QED  BY <2>2, <2>3, <2>4 DEF PagesSeen, PassAt
<1> QED  BY <1>2, <1>3

LEMMA TickSeen ==
    ASSUME PagesSeen, CleanupInv, cleanupTick
    PROVE  PagesSeen'
<1>1. \A w \in Passes : pass'[w] = Resting \/ pass'[w] = pass[w]
  BY DEF cleanupTick
<1>2. \A u \in Uploads : upload'[u].stored = upload[u].stored
  BY TypeIsRecords DEF CleanupInv, cleanupTick, UploadRecord
<1>3. StoredUploads' = StoredUploads
  BY <1>2 DEF StoredUploads
<1> QED  BY <1>1, <1>3 DEF PagesSeen, PassAt, Resting

\* The page that is not truncated is all that is stored.
LEMMA ListSeen ==
    ASSUME PagesSeen, CleanupInv, NEW w \in Passes, listCleanupPage(w)
    PROVE  PagesSeen'
<1>1. PICK page \in SUBSET StoredUploads :
        SetPass(w, [pass[w] EXCEPT !.pc = "delete", !.unseen = {},
                      !.keys = page, !.truncated = page # StoredUploads])
  BY DEF listCleanupPage
<1>2. pass \in [Passes -> PassRecord]
  BY TypeIsRecords DEF CleanupInv
<1>3. /\ pass'[w].pc = "delete" /\ pass'[w].keys = page
      /\ pass'[w].truncated = (page # StoredUploads)
      /\ \A v \in Passes \ {w} : pass'[v] = pass[v]
  BY <1>1, <1>2 DEF SetPass, PassRecord
<1>4. StoredUploads' = StoredUploads
  BY StoredStays DEF listCleanupPage
<1> QED  BY <1>3, <1>4 DEF PagesSeen, PassAt

LEMMA DeleteSeen ==
    ASSUME PagesSeen, CleanupInv, NEW w \in Passes, deleteCleanupPage(w)
    PROVE  PagesSeen'
<1> DEFINE r == [pass[w] EXCEPT !.pc = AfterPage(pass[w]),
                                !.pages = @ + 1, !.keys = {}]
<1>1. pass[w] \in PassRecord
  BY TypeIsRecords DEF CleanupInv
<1>2. AfterPage(pass[w]) \in {"clean", "list", "incomplete"}
  BY DEF AfterPage
<1>3. r \in PassRecord /\ r.pc = AfterPage(pass[w])
      /\ r.unseen = pass[w].unseen
  <2> DEFINE next == AfterPage(pass[w])
  <2>1. next \in {"clean", "list", "incomplete"} /\ pass[w].pages + 1 \in Nat
    BY <1>1, <1>2 DEF PassRecord
  <2> HIDE DEF next
  <2>2. [pass[w] EXCEPT !.pc = next, !.pages = @ + 1, !.keys = {}]
          \in PassRecord
    BY <1>1, <2>1 DEF PassRecord
  <2> QED  BY <1>1, <2>1, <2>2 DEF PassRecord, next
<1>4. SetPass(w, r) /\ PassAt(w, "delete")
  BY DEF deleteCleanupPage
<1>5. StoredUploads' = StoredUploads \ pass[w].keys
  BY StoredShrinks DEF deleteCleanupPage
<1>6. r.pc = "clean" => ~pass[w].truncated
  BY <1>3 DEF AfterPage
<1>7. r.pc \in {"clean", "settleClean"} => StoredUploads' \subseteq r.unseen
  BY <1>2, <1>3, <1>4, <1>5, <1>6 DEF PagesSeen
<1>8. r.pc # "delete" /\ StoredUploads' \subseteq StoredUploads
  BY <1>2, <1>3, <1>5
<1> HIDE DEF r
<1> QED  BY <1>3, <1>4, <1>7, <1>8, SeenByOthers

LEMMA FinishedAtSeen ==
    ASSUME PagesSeen, CleanupInv, NEW w \in Passes, readFinishedAt(w)
    PROVE  PagesSeen'
<1> DEFINE r == [pass[w] EXCEPT !.pc = Settling(@), !.finishedAt = clock]
<1>1. pass[w] \in PassRecord /\ clock \in Nat
  BY TypeIsRecords DEF CleanupInv
<1>2. /\ pass[w].pc \in PassResults /\ SetPass(w, r)
      /\ StoredUploads' = StoredUploads
  BY StoredStays DEF readFinishedAt
<1>3. /\ Settling(pass[w].pc) \in
            {"settleIncomplete", "settleClean", "settleFailed"}
      /\ Settling(pass[w].pc) = "settleClean" => pass[w].pc = "clean"
  BY <1>2 DEF Settling
<1>4. r \in PassRecord /\ r.pc = Settling(pass[w].pc)
      /\ r.unseen = pass[w].unseen
  BY <1>1, <1>3 DEF PassRecord
<1>5. r.pc \in {"clean", "settleClean"} => StoredUploads' \subseteq r.unseen
  BY <1>2, <1>3, <1>4 DEF PagesSeen
<1>6. r.pc # "delete"
  BY <1>3, <1>4
<1> HIDE DEF r
<1> QED  BY <1>2, <1>4, <1>5, <1>6, SeenByOthers

\* A pass that waits for its claim, rests, or has failed says nothing.
LEMMA QuietSeen ==
    ASSUME PagesSeen, CleanupInv, NEW w \in Passes,
           NEW r \in PassRecord, SetPass(w, r),
           r.pc \in {"idle", "claim", "list", "failed"},
           StoredUploads' \subseteq StoredUploads
    PROVE  PagesSeen'
BY SeenByOthers

LEMMA StartSeen ==
    ASSUME PagesSeen, CleanupInv, NEW w \in Passes,
           SetPass(w, [Resting EXCEPT !.pc = "claim", !.at = clock]),
           UNCHANGED upload
    PROVE  PagesSeen'
<1> DEFINE r == [Resting EXCEPT !.pc = "claim", !.at = clock]
<1>1. clock \in Nat
  BY TypeIsRecords DEF CleanupInv
<1>2. r \in PassRecord /\ r.pc = "claim"
  BY <1>1 DEF Resting, PassRecord
<1>3. StoredUploads' = StoredUploads
  BY StoredStays
<1> HIDE DEF r
<1>4. SetPass(w, r)
  BY DEF r
<1> QED  BY <1>2, <1>3, <1>4, QuietSeen

LEMMA RestSeen ==
    ASSUME PagesSeen, CleanupInv, NEW w \in Passes, SetPass(w, Resting),
           UNCHANGED upload
    PROVE  PagesSeen'
<1>1. Resting.pc = "idle" /\ StoredUploads' = StoredUploads
  BY StoredStays DEF Resting
<1> QED  BY <1>1, RestingType, QuietSeen

LEMMA ClaimSeen ==
    ASSUME PagesSeen, CleanupInv, NEW w \in Passes, claimCleanup(w)
    PROVE  PagesSeen'
<1>1. CASE ~ClaimWhere(pass[w].at)
  BY <1>1, RestSeen DEF claimCleanup
<1>2. CASE ClaimWhere(pass[w].at)
  <2> DEFINE r == [pass[w] EXCEPT !.pc = "list", !.token = job.attempts + 1,
                                  !.createdAt = job.createdAt]
  <2>1. pass[w] \in PassRecord /\ job \in JobRecord
    BY TypeIsRecords DEF CleanupInv
  <2>2. job.attempts + 1 \in Nat /\ job.createdAt \in Nat
    BY <2>1 DEF JobRecord
  <2>3. r \in PassRecord /\ r.pc = "list"
    BY <2>1, <2>2 DEF PassRecord
  <2>4. SetPass(w, r) /\ StoredUploads' = StoredUploads
    BY <1>2, StoredStays DEF claimCleanup, NextAttempt
  <2> HIDE DEF r
  <2> QED  BY <2>3, <2>4, QuietSeen
<1> QED  BY <1>1, <1>2

LEMMA ThrowSeen ==
    ASSUME PagesSeen, CleanupInv, NEW w \in Passes, cleanupThrows(w)
    PROVE  PagesSeen'
<1> DEFINE r == [pass[w] EXCEPT !.pc = "failed", !.keys = {}]
<1>1. pass[w] \in PassRecord
  BY TypeIsRecords DEF CleanupInv
<1>2. r \in PassRecord /\ r.pc = "failed"
  BY <1>1 DEF PassRecord
<1>3. StoredUploads' \subseteq StoredUploads
  <2>1. CASE UNCHANGED upload
    BY <2>1, StoredStays
  <2>2. CASE upload' = [u \in Uploads |->
                          IF u \in pass[w].keys
                          THEN [upload[u] EXCEPT !.stored = FALSE]
                          ELSE upload[u]]
    BY <2>2, StoredShrinks
  <2> QED  BY <2>1, <2>2 DEF cleanupThrows
<1>4. SetPass(w, r)
  BY DEF cleanupThrows
<1> HIDE DEF r
<1> QED  BY <1>2, <1>3, <1>4, QuietSeen

LEMMA RunSeen ==
    ASSUME PagesSeen, CleanupInv, NEW w \in Passes,
           runPass(w) \/ cleanupThrows(w) \/ cleanupDies(w)
    PROVE  PagesSeen'
<1>1. CASE settleIncomplete(w) \/ settleEarly(w) \/ settleFailed(w)
  BY <1>1, RestSeen DEF settleIncomplete, settleEarly, settleFailed, Postpone
<1>2. CASE settleComplete(w)
  BY <1>2, RestSeen DEF settleComplete
<1>3. CASE cleanupDies(w)
  BY <1>3, RestSeen DEF cleanupDies
<1> QED  BY <1>1, <1>2, <1>3, ClaimSeen, ListSeen, DeleteSeen, FinishedAtSeen,
           ThrowSeen DEF runPass

LEMMA NextSeen ==
    PagesSeen /\ CleanupInv /\ [CleanupNext]_cleanupVars => PagesSeen'
<1> SUFFICES ASSUME PagesSeen, CleanupInv, [CleanupNext]_cleanupVars
             PROVE  PagesSeen'
  OBVIOUS
<1>1. CASE teardownProject
  BY <1>1, StartSeen DEF teardownProject, Passes
<1>2. CASE \E w \in CronPasses : sweepProjectArtifactCleanup(w)
  BY <1>2, StartSeen DEF sweepProjectArtifactCleanup, Passes
<1>3. CASE UNCHANGED cleanupVars
  BY <1>3 DEF PagesSeen, PassAt, StoredUploads, cleanupVars
<1> QED  BY <1>1, <1>2, <1>3, UploadsSeen, TickSeen, RunSeen DEF CleanupNext

\* Whatever passes overlap, die or fail: a pass that takes the prefix for
\* empty has seen and deleted all but what landed after it last listed.
THEOREM PagesAreSeen == CleanupSpec => []PagesSeen
<1>1. CleanupInit => PagesSeen
  BY DEF CleanupInit, PagesSeen, PassAt, Resting
<1>2. PagesSeen /\ CleanupInv /\ [CleanupNext]_cleanupVars => PagesSeen'
  BY NextSeen
<1> QED  BY <1>1, <1>2, CleanupInvariant, PTL DEF CleanupSpec

\* Only a pass that still has the claim removes the job, and no other pass
\* has its token.
LEMMA JobRemoved ==
    ASSUME PagesSeen, CleanupInv, [CleanupNext]_cleanupVars,
           job.live, ~job'.live,
           NEW v \in Passes, pass[v].token = job.attempts
    PROVE  StoredUploads \subseteq pass[v].unseen
<1>1. PICK w \in Passes : settleComplete(w) /\ StillClaimed(w)
  <2>1. job \in JobRecord
    BY TypeIsRecords DEF CleanupInv
  <2>2. ASSUME NEW w \in Passes, claimCleanup(w)
        PROVE  FALSE
    BY <2>1, <2>2 DEF claimCleanup, JobRecord
  <2>3. ASSUME NEW w \in Passes, NEW t, Postpone(w, t)
        PROVE  FALSE
    BY <2>1, <2>3 DEF Postpone, JobRecord
  <2>4. ASSUME NEW w \in Passes,
               settleIncomplete(w) \/ settleEarly(w) \/ settleFailed(w)
        PROVE  FALSE
    BY <2>3, <2>4 DEF settleIncomplete, settleEarly, settleFailed
  <2>5. ~teardownProject
    BY DEF teardownProject
  <2>6. job' # job
    OBVIOUS
  <2>7. ASSUME NEW w \in Passes, settleComplete(w)
        PROVE  StillClaimed(w)
    BY <2>6, <2>7 DEF settleComplete
  <2>8. \A u \in Uploads : ~(finalizeUploads(u) \/ startPut(u) \/ landPut(u))
    BY <2>6 DEF finalizeUploads, startPut, landPut
  <2>9. /\ ~cleanupTick
        /\ \A w \in CronPasses : ~sweepProjectArtifactCleanup(w)
        /\ \A w \in Passes : /\ ~listCleanupPage(w) /\ ~deleteCleanupPage(w)
                             /\ ~readFinishedAt(w) /\ ~cleanupThrows(w)
                             /\ ~cleanupDies(w)
    BY <2>6 DEF cleanupTick, sweepProjectArtifactCleanup, listCleanupPage,
       deleteCleanupPage, readFinishedAt, cleanupThrows, cleanupDies
  <2>10. ~UNCHANGED cleanupVars
    BY <2>6 DEF cleanupVars
  <2> QED  BY <2>2, <2>4, <2>5, <2>7, <2>8, <2>9, <2>10
           DEF CleanupNext, runPass
<1>2. PassAt(w, "settleClean") /\ pass[w].token = job.attempts
  BY <1>1 DEF settleComplete, StillClaimed
<1>3. Holding(w)
  BY <1>2 DEF CleanupInv, PassesHold, PassAt
<1>4. v = w
  BY <1>2, <1>3 DEF CleanupInv, ClaimsOrdered, Holding
<1> QED  BY <1>2, <1>4 DEF PagesSeen, PassAt

\* The pass that removes the job leaves nothing behind that it could have
\* seen, for any page size and page limit.
THEOREM OnlyUnseenIsLeft == CleanupSpec => LeavesOnlyUnseen
<1>1. PagesSeen /\ CleanupInv /\ [CleanupNext]_cleanupVars =>
        [job.live /\ ~job'.live =>
           \A w \in Passes :
               pass[w].token = job.attempts =>
                   StoredUploads \subseteq pass[w].unseen]_cleanupVars
  BY JobRemoved
<1>2. CleanupSpec => [][CleanupNext]_cleanupVars
  BY PTL DEF CleanupSpec
<1> QED  BY <1>1, <1>2, PagesAreSeen, CleanupInvariant, PTL
         DEF LeavesOnlyUnseen
=============================================================================
