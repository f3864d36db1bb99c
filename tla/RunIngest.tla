------------------------------ MODULE RunIngest ------------------------------
(***************************************************************************)
(* The run-ingest pipeline of the dashboard for ONE run, i.e. one          *)
(* (projectId, idempotencyKey): the three HTTP handlers POST /api/runs,    *)
(* /api/runs/:id/results and /api/runs/:id/complete, and the cron watchdog *)
(* that finalises runs nobody writes to any more.                          *)
(*                                                                         *)
(* Postgres runs at READ COMMITTED.  A handler is a sequence of database   *)
(* round trips; between two of them any other process may commit.  A       *)
(* transaction that takes the run row's lock in its first statement        *)
(* (SELECT ... FOR UPDATE, or an UPDATE that matches the row) is one       *)
(* atomic step.  One statement does not take it: the watchdog's recount    *)
(* after a status flip that matched no row; it is split into the snapshot  *)
(* its COUNT subselects see and the write of what they returned.           *)
(***************************************************************************)
EXTENDS Integers, Sequences, FiniteSets

CONSTANTS
    Tests,             \* the testIds a reporter may plan or report
    Plans,             \* plannedTests payloads: sequences of tests
    Batches,           \* /results payloads: sequences of [testId, status]
    ShardInputs,       \* shard coordinates a client may send, or NoShard
    CompleteStatuses,  \* statuses a client may send to /complete
    Handlers,          \* concurrent HTTP requests
    Sweepers,          \* concurrent invocations of the stale-run cron
    RowCap,            \* WRIGHTFUL_MAX_TEST_RESULTS_PER_RUN (0: no cap)
    Grace,             \* RUN_WRITE_GRACE_SECONDS
    Stale,             \* WRIGHTFUL_RUN_STALE_MINUTES
    Horizon,           \* bound: no request arrives after this time
    MaxTime,           \* bound: the clock stops here
    MaxCrashes         \* bound: processes killed by the platform

NoRow == "none"
Absent == "absent"
NoShard == [index |-> 0, total |-> 0]

\* The per-test wire enum, the buckets it collapses into, the columns of
\* the runs row that count them, and the statuses a run can settle into.
WireStatuses == {"passed", "failed", "flaky", "skipped", "timedout"}
RowStatuses == WireStatuses \cup {"queued"}
Counters == {"totalTests", "passed", "failed", "flaky", "skipped"}
TERMINAL_RUN_STATUSES == {"passed", "failed", "timedout", "interrupted"}
RunStatuses == TERMINAL_RUN_STATUSES \cup {Absent, "running"}

ShardIds == {s.index : s \in ShardInputs \ {NoShard}}
Procs == Handlers \cup Sweepers
Times == 0 .. MaxTime

ASSUME TestsFinite == IsFiniteSet(Tests)
ASSUME PlansType == Plans \subseteq Seq(Tests)
\* The reporter derives a test's id from its file, project, titles and
\* repeat index, so a plan names no test twice.
ASSUME PlansDistinct ==
    \A plan \in Plans : \A i, j \in DOMAIN plan :
        plan[i] = plan[j] => i = j
ASSUME BatchesType ==
    Batches \subseteq Seq([testId : Tests, status : WireStatuses])
ASSUME ShardsType ==
    \A s \in ShardInputs \ {NoShard} :
        /\ s \in [index : Nat, total : Nat]
        /\ s.index \in 1 .. s.total
ASSUME StatusesType == CompleteStatuses \subseteq TERMINAL_RUN_STATUSES
ASSUME ProcsDisjoint == Handlers \cap Sweepers = {}
ASSUME BoundsType ==
    /\ {RowCap, Grace, Stale, Horizon, MaxTime, MaxCrashes} \subseteq Nat
    /\ 1 <= MaxTime

VARIABLES
    now,         \* wall clock, in seconds
    run,         \* the runs row
    rows,        \* testResults: testId -> status, or NoRow
    shardRows,   \* runShards: shard index -> [status, completedAt]
    req,         \* per process: its control point and its local variables
    room,        \* status in the last summary the run room delivered
    crashes      \* processes killed so far

vars == <<now, run, rows, shardRows, req, room, crashes>>

-----------------------------------------------------------------------------
(* Status taxonomy and severity *)

statusBucket(s) ==
    CASE s = "passed"                -> "passed"
      [] s \in {"failed", "timedout"} -> "failed"
      [] s = "flaky"                 -> "flaky"
      [] s = "skipped"               -> "skipped"
      [] OTHER                       -> "unbucketed"

runStatusSeverity(s) ==
    CASE s = "passed"                -> 1
      [] s = "flaky"                 -> 2
      [] s = "interrupted"           -> 3
      [] s \in {"failed", "timedout"} -> 4
      [] OTHER                       -> 0

\* Mutant: the incoming status overwrites the current one.
OverwriteStatus(current, incoming) == incoming

mergeRunStatus(current, incoming) ==
    IF \/ current = "running"
       \/ runStatusSeverity(incoming) > runStatusSeverity(current)
    THEN incoming
    ELSE current

\* The reduce keeps the first of the worst, and the rows come in no
\* particular order: any status of maximal severity may come out.
worstShardStatus(statuses) ==
    {s \in statuses :
        \A u \in statuses : runStatusSeverity(u) <= runStatusSeverity(s)}

-----------------------------------------------------------------------------
(* Aggregates *)

Counted(status, c) ==
    /\ status # NoRow
    /\ c = "totalTests" \/ statusBucket(status) = c

\* What aggregateRecomputeStatement's COUNT subselects return.
Recount(table) ==
    [c \in Counters |-> Cardinality({t \in Tests : Counted(table[t], c)})]

\* The one function that gives every test named in the batch the status of
\* its last entry: last write wins when a batch names a test twice.
dedupeResultsByTestId(batch) ==
    {f \in [{batch[i].testId : i \in DOMAIN batch} -> WireStatuses] :
        \A i \in DOMAIN batch :
            (\A j \in DOMAIN batch :
                 j > i => batch[j].testId # batch[i].testId)
            => f[batch[i].testId] = batch[i].status}

\* Mutant: a re-reported test is counted as a new one.
DeltaIgnoringPrior(results, prior) ==
    [c \in Counters |->
        Cardinality({t \in DOMAIN results : Counted(results[t], c)})]

computeAggregateDelta(results, prior) ==
    [c \in Counters |->
        Cardinality({t \in DOMAIN results : Counted(results[t], c)})
      - Cardinality({t \in DOMAIN results : Counted(prior[t], c)})]

\* Mutant: ON CONFLICT DO NOTHING.
UpsertKeepingOld(table, results) ==
    [t \in Tests |-> IF t \in DOMAIN results /\ table[t] = NoRow
                     THEN results[t] ELSE table[t]]

Upsert(table, results) ==
    [t \in Tests |-> IF t \in DOMAIN results THEN results[t] ELSE table[t]]

-----------------------------------------------------------------------------
(* The processes *)

Idle == [pc |-> "idle"]
Goto(p, r) == req' = [req EXCEPT ![p] = r]
At(p, label) == req[p].pc = label
Publishing(status) == [pc |-> "publish", summary |-> status]

MaxOf(a, b) == IF a >= b THEN a ELSE b

runClosedForWrites(r, t) ==
    /\ r.status # "running"
    /\ r.completedAt # 0
    /\ t - MaxOf(r.completedAt, r.lastActivityAt) > Grace

Arrives(p) == At(p, "idle") /\ now <= Horizon

Init ==
    /\ now = 1
    /\ run = [status |-> Absent, counters |-> [c \in Counters |-> 0],
              expectedShards |-> 0, completedAt |-> 0, lastActivityAt |-> 0]
    /\ rows = [t \in Tests |-> NoRow]
    /\ shardRows = [i \in ShardIds |-> [status |-> NoRow, completedAt |-> 0]]
    /\ req = [p \in Procs |-> Idle]
    /\ room = Absent
    /\ crashes = 0

Tick ==
    /\ now < MaxTime
    /\ now' = now + 1
    /\ UNCHANGED <<run, rows, shardRows, req, room, crashes>>

-----------------------------------------------------------------------------
(* POST /api/runs *)

\* openRun's probe by idempotency key; also what recoverDuplicate does.
ResolveExisting(p, t, shard) ==
    IF run.status = "running"
    THEN Goto(p, [pc |-> "reopen", at |-> t, shard |-> shard])
    ELSE Goto(p, Idle)                                \* terminalDuplicate

OpenProbe(p, plan, shard) ==
    /\ Arrives(p)
    /\ IF run.status # Absent
       THEN ResolveExisting(p, now, shard)
       ELSE IF RowCap > 0 /\ Len(plan) > RowCap
       THEN Goto(p, Idle)                             \* RunRowCapExceededError
       ELSE Goto(p, [pc |-> "insert", at |-> now,
                     plan |-> plan, shard |-> shard])
    /\ UNCHANGED <<now, run, rows, shardRows, room, crashes>>

buildRunInsertValues(plan, shard, t) ==
    [status |-> "running",
     counters |-> [c \in Counters |->
                      IF c = "totalTests" THEN Len(plan) ELSE 0],
     expectedShards |-> shard.total,
     completedAt |-> 0,
     lastActivityAt |-> t]

\* Mutant: planned tests are prefilled with the run's own status.
PrefillRunning(plan) ==
    [t \in Tests |-> IF \E i \in DOMAIN plan : plan[i] = t
                     THEN "running" ELSE NoRow]

buildQueuePrefillStatements(plan) ==
    [t \in Tests |-> IF \E i \in DOMAIN plan : plan[i] = t
                     THEN "queued" ELSE NoRow]

\* runOpenBatch: the run, its queued rows and the usage bump commit together.
OpenInsert(p) ==
    /\ At(p, "insert")
    /\ run.status = Absent
    /\ run' = buildRunInsertValues(req[p].plan, req[p].shard, req[p].at)
    /\ rows' = buildQueuePrefillStatements(req[p].plan)
    /\ Goto(p, Publishing("running"))
    /\ UNCHANGED <<now, shardRows, room, crashes>>

\* RunQuotaOvershootError: the guarded bump applied to no row, rolled back.
OpenOverQuota(p) ==
    /\ At(p, "insert")
    /\ run.status = Absent
    /\ Goto(p, Idle)
    /\ UNCHANGED <<now, run, rows, shardRows, room, crashes>>

\* Unique violation on (projectId, idempotencyKey): somebody else opened it.
OpenLostRace(p) ==
    /\ At(p, "insert")
    /\ run.status # Absent
    /\ Goto(p, [req[p] EXCEPT !.pc = "recover"])
    /\ UNCHANGED <<now, run, rows, shardRows, room, crashes>>

OpenRecover(p) ==
    /\ At(p, "recover")
    /\ ResolveExisting(p, req[p].at, req[p].shard)
    /\ UNCHANGED <<now, run, rows, shardRows, room, crashes>>

\* Mutant: the refresh is not guarded by status = 'running'.
ReopenAnyRun(p) ==
    /\ At(p, "reopen")
    /\ run' = [run EXCEPT !.status = "running", !.lastActivityAt = req[p].at]
    /\ Goto(p, Idle)
    /\ UNCHANGED <<now, rows, shardRows, room, crashes>>

\* UPDATE ... WHERE status = 'running'; a completion that won the race
\* leaves nothing to refresh and the caller answers terminalDuplicate.
reopenRunForWrites(p) ==
    /\ At(p, "reopen")
    /\ run' = IF run.status # "running" THEN run
              ELSE [run EXCEPT
                     !.lastActivityAt = req[p].at,
                     !.expectedShards =
                         IF @ = 0 THEN req[p].shard.total ELSE @]
    /\ Goto(p, Idle)
    /\ UNCHANGED <<now, rows, shardRows, room, crashes>>

-----------------------------------------------------------------------------
(* POST /api/runs/:id/results *)

\* Mutant: the write-grace check is missing.
AppendUnguarded(p, batch) ==
    /\ Arrives(p)
    /\ run.status # Absent
    /\ \E results \in dedupeResultsByTestId(batch) :
           Goto(p, [pc |-> "append", at |-> now, results |-> results])
    /\ UNCHANGED <<now, run, rows, shardRows, room, crashes>>

AppendGuard(p, batch) ==
    /\ Arrives(p)
    /\ IF run.status = Absent \/ runClosedForWrites(run, now)
       THEN Goto(p, Idle)                             \* notFound / runClosed
       ELSE \E results \in dedupeResultsByTestId(batch) :
                Goto(p, [pc |-> "append", at |-> now, results |-> results])
    /\ UNCHANGED <<now, run, rows, shardRows, room, crashes>>

projectedCount(results) ==
    run.counters["totalTests"] + Cardinality(DOMAIN results)
        - Cardinality({t \in DOMAIN results : rows[t] # NoRow})

\* Mutant: the cap is compared with the rows there are, not with the rows
\* there will be.
OverRowCapTooLate(results) ==
    RowCap > 0 /\ run.counters["totalTests"] > RowCap

OverRowCap(results) == RowCap > 0 /\ projectedCount(results) > RowCap

AppendOverCap(p) ==
    /\ At(p, "append")
    /\ OverRowCap(req[p].results)
    /\ Goto(p, Idle)
    /\ UNCHANGED <<now, run, rows, shardRows, room, crashes>>

\* The transaction: prior rows read, results upserted and the counters moved
\* by the difference, all under the run row's lock.
AppendCommit(p) ==
    /\ At(p, "append")
    /\ ~OverRowCap(req[p].results)
    /\ LET delta == computeAggregateDelta(req[p].results, rows)
       IN  run' = [run EXCEPT
                    !.counters = [c \in Counters |-> @[c] + delta[c]],
                    !.lastActivityAt = req[p].at]
    /\ rows' = Upsert(rows, req[p].results)
    /\ Goto(p, Publishing(run.status))
    /\ UNCHANGED <<now, shardRows, room, crashes>>

-----------------------------------------------------------------------------
(* POST /api/runs/:id/complete *)

invalidShard(expected, shard) ==
    /\ expected > 1
    /\ shard # NoShard
    /\ shard.total # expected \/ shard.index \notin 1 .. expected

CompleteGuard(p, status, shard) ==
    LET expected == IF run.expectedShards # 0 THEN run.expectedShards
                    ELSE shard.total
    IN  /\ Arrives(p)
        /\ IF \/ run.status = Absent
              \/ runClosedForWrites(run, now)
              \/ invalidShard(expected, shard)
           THEN Goto(p, Idle)
           ELSE Goto(p, [pc |-> IF expected > 1 THEN "completeShard"
                                ELSE "complete",
                         at |-> now, status |-> status,
                         shard |-> shard, expected |-> expected])
        /\ UNCHANGED <<now, run, rows, shardRows, room, crashes>>

\* reconcileAndBroadcast's transaction on the unsharded path.
CompleteCommit(p) ==
    /\ At(p, "complete")
    /\ LET merged == mergeRunStatus(run.status, req[p].status)
       IN  /\ run' = [run EXCEPT
                       !.status = merged,
                       !.completedAt = MaxOf(@, req[p].at),
                       !.lastActivityAt = req[p].at,
                       !.counters = Recount(rows)]
           /\ Goto(p, Publishing(merged))
    /\ UNCHANGED <<now, rows, shardRows, room, crashes>>

Reported(reports) == {i \in ShardIds : reports[i].status # NoRow}
StatusesOf(reports) == {reports[i].status : i \in Reported(reports)}

recordShard(shard, status, t) ==
    IF shard = NoShard THEN shardRows
    ELSE [shardRows EXCEPT ![shard.index] =
             [status |-> status, completedAt |-> t]]

\* Mutant: the shard rows are counted before this shard's row is inserted.
VerdictsBeforeInsert(reports, expected) ==
    IF Cardinality(Reported(shardRows)) >= expected
    THEN {mergeRunStatus(run.status, s) :
             s \in worstShardStatus(StatusesOf(reports))}
    ELSE {run.status}

\* Mutant: off by one in the number of shards to wait for.
VerdictsOneEarly(reports, expected) ==
    IF Cardinality(Reported(reports)) >= expected - 1
    THEN {mergeRunStatus(run.status, s) :
             s \in worstShardStatus(StatusesOf(reports))}
    ELSE {run.status}

\* The run's status after a shard's report: unchanged until all have
\* reported, then merged with the worst of them.
ShardVerdicts(reports, expected) ==
    IF Cardinality(Reported(reports)) >= expected
    THEN {mergeRunStatus(run.status, s) :
             s \in worstShardStatus(StatusesOf(reports))}
    ELSE {run.status}

LatestCompletion(reports, t) ==
    LET times == {t} \cup {reports[i].completedAt : i \in Reported(reports)}
    IN  {m \in times : \A u \in times : u <= m}

completeShardedRun(p) ==
    /\ At(p, "completeShard")
    /\ LET r == req[p]
           reports == recordShard(r.shard, r.status, r.at)
           done == Cardinality(Reported(reports)) >= r.expected
       IN  /\ shardRows' = reports
           /\ \E verdict \in ShardVerdicts(reports, r.expected),
                 latest \in LatestCompletion(reports, r.at) :
                /\ run' = [run EXCEPT
                            !.status = verdict,
                            !.completedAt = IF done THEN latest ELSE @,
                            !.expectedShards = IF done THEN r.expected ELSE @,
                            !.lastActivityAt = r.at,
                            !.counters = Recount(rows)]
                /\ Goto(p, Publishing(verdict))
    /\ UNCHANGED <<now, rows, room, crashes>>

-----------------------------------------------------------------------------
(* The stale-run watchdog *)

\* Mutant: the comparison with the cutoff is reversed.
FreshRunFilter(cutoff) ==
    run.status = "running" /\ run.lastActivityAt > cutoff

staleRunFilter(cutoff) ==
    run.status = "running" /\ run.lastActivityAt < cutoff

sweepStaleRuns(p) ==
    /\ At(p, "idle")
    /\ staleRunFilter(now - Stale)
    /\ Goto(p, [pc |-> "readShards", at |-> now])
    /\ UNCHANGED <<now, run, rows, shardRows, room, crashes>>

\* Mutant: the verdict is broadcast before the transaction that flips the run.
SweepAnnouncesFirst(p) ==
    /\ At(p, "readShards")
    /\ \E s \in worstShardStatus(StatusesOf(shardRows) \cup {"interrupted"}) :
           /\ Goto(p, [pc |-> "flip", at |-> req[p].at, status |-> s])
           /\ room' = s
    /\ UNCHANGED <<now, run, rows, shardRows, crashes>>

\* finalizeStaleRun reads the shard rows outside any transaction.
SweepReadShards(p) ==
    /\ At(p, "readShards")
    /\ \E s \in worstShardStatus(StatusesOf(shardRows) \cup {"interrupted"}) :
           Goto(p, [pc |-> "flip", at |-> req[p].at, status |-> s])
    /\ UNCHANGED <<now, run, rows, shardRows, room, crashes>>

\* The guarded flip matched the row, which is locked from then on.
SweepFlip(p) ==
    /\ At(p, "flip")
    /\ run.status = "running"
    /\ run' = [run EXCEPT
                !.status = req[p].status,
                !.completedAt = req[p].at,
                !.lastActivityAt = req[p].at,
                !.counters = Recount(rows)]
    /\ Goto(p, Publishing(req[p].status))
    /\ UNCHANGED <<now, rows, shardRows, room, crashes>>

\* The flip matched nothing, and the transaction holds no lock.
SweepMiss(p) ==
    /\ At(p, "flip")
    /\ run.status # "running"
    /\ Goto(p, [pc |-> "recount"])
    /\ UNCHANGED <<now, run, rows, shardRows, room, crashes>>

SweepRecount(p) ==
    /\ At(p, "recount")
    /\ Goto(p, [pc |-> "rewrite", counters |-> Recount(rows)])
    /\ UNCHANGED <<now, run, rows, shardRows, room, crashes>>

\* requireStatusFlip: the summary is not broadcast.
SweepRewrite(p) ==
    /\ At(p, "rewrite")
    /\ run' = [run EXCEPT !.counters = req[p].counters]
    /\ Goto(p, Idle)
    /\ UNCHANGED <<now, rows, shardRows, room, crashes>>

-----------------------------------------------------------------------------
(* After the commit *)

\* The room replaces its summary by the event's; a failed POST is swallowed.
broadcastRunUpdate(p) ==
    /\ At(p, "publish")
    /\ room' \in {room, req[p].summary}
    /\ Goto(p, Idle)
    /\ UNCHANGED <<now, run, rows, shardRows, crashes>>

\* The platform kills the process: an open transaction is rolled back and
\* what comes after its commit is lost.
Crash(p) ==
    /\ ~At(p, "idle")
    /\ crashes < MaxCrashes
    /\ crashes' = crashes + 1
    /\ Goto(p, Idle)
    /\ UNCHANGED <<now, run, rows, shardRows, room>>

-----------------------------------------------------------------------------
Handler(p) ==
    \/ \E plan \in Plans, shard \in ShardInputs : OpenProbe(p, plan, shard)
    \/ OpenInsert(p)
    \/ OpenOverQuota(p)
    \/ OpenLostRace(p)
    \/ OpenRecover(p)
    \/ reopenRunForWrites(p)
    \/ \E batch \in Batches : AppendGuard(p, batch)
    \/ AppendOverCap(p)
    \/ AppendCommit(p)
    \/ \E s \in CompleteStatuses, shard \in ShardInputs :
           CompleteGuard(p, s, shard)
    \/ CompleteCommit(p)
    \/ completeShardedRun(p)
    \/ broadcastRunUpdate(p)

Sweep(p) ==
    \/ sweepStaleRuns(p)
    \/ SweepReadShards(p)
    \/ SweepFlip(p)
    \/ SweepMiss(p)
    \/ SweepRecount(p)
    \/ SweepRewrite(p)
    \/ broadcastRunUpdate(p)

Next ==
    \/ Tick
    \/ \E p \in Handlers : Handler(p)
    \/ \E p \in Sweepers : Sweep(p)
    \/ \E p \in Procs : Crash(p)

Spec == Init /\ [][Next]_vars

\* The clock advances and the cron keeps being invoked.  Nothing is assumed
\* of the clients: a reporter may be killed at any point.
FairSpec == Spec /\ WF_vars(Tick) /\ \A p \in Sweepers : WF_vars(Sweep(p))

-----------------------------------------------------------------------------
(* Properties *)

Requests ==
         [pc : {"idle"}]
    \cup [pc : {"insert", "recover"}, at : Times, plan : Plans,
          shard : ShardInputs]
    \cup [pc : {"reopen"}, at : Times, shard : ShardInputs]
    \cup [pc : {"append"}, at : Times,
          results : UNION {[D -> WireStatuses] : D \in SUBSET Tests}]
    \cup [pc : {"complete", "completeShard"}, at : Times,
          status : CompleteStatuses, shard : ShardInputs, expected : Nat]
    \cup [pc : {"publish"}, summary : RunStatuses]

SweepRequests ==
         [pc : {"idle", "recount"}]
    \cup [pc : {"readShards"}, at : Times]
    \cup [pc : {"flip"}, at : Times, status : TERMINAL_RUN_STATUSES]
    \cup [pc : {"rewrite"}, counters : [Counters -> Int]]
    \cup [pc : {"publish"}, summary : RunStatuses]

\* Every column and every local variable holds a value of its type; a
\* reported shard has a terminal status.
TypeOK ==
    /\ now \in Times
    /\ run \in [status : RunStatuses, counters : [Counters -> Int],
               expectedShards : Nat, completedAt : Times,
               lastActivityAt : Times]
    /\ rows \in [Tests -> RowStatuses \cup {NoRow}]
    /\ shardRows \in [ShardIds -> [status : TERMINAL_RUN_STATUSES \cup {NoRow},
                                   completedAt : Times]]
    /\ DOMAIN req = Procs
    /\ \A p \in Handlers : req[p] \in Requests
    /\ \A p \in Sweepers : req[p] \in SweepRequests
    /\ room \in RunStatuses
    /\ crashes \in 0 .. MaxCrashes

Rank(status) ==
    CASE status = Absent    -> 0
      [] status = "running" -> 1
      [] OTHER              -> 2 + runStatusSeverity(status)

\* A run is opened once, finishes once, and from then on its status only
\* gets strictly worse: no late shard, duplicate completion, reopened key or
\* watchdog pass ever improves a verdict or revives a finished run.
StatusOnlyWorsens ==
    [][run'.status = run.status \/ Rank(run.status) < Rank(run'.status)]_vars

\* The counters of the runs row, moved by differences on every /results
\* and rebuilt on every /complete, agree with the rows they summarise.
CountersMatchRows ==
    run.status # Absent => run.counters = Recount(rows)

\* The watchdog's recount without the lock is the only write in the pipeline
\* that can make exact counters inexact.
OnlyUnlockedRecountDrifts ==
    [][CountersMatchRows /\ ~(\E p \in Sweepers : SweepRewrite(p))
          => CountersMatchRows']_vars

\* However the flushes of several shards interleave, a run never holds more
\* result rows than the operator's ceiling.
RowCapHolds ==
    RowCap > 0 =>
        Cardinality({t \in Tests : rows[t] # NoRow}) <= RowCap

\* Once the last expected shard has reported, the run is finished and at
\* least as bad as every shard, whoever's report came last and whatever the
\* watchdog did in between: no shard's failure is lost.
EveryShardCounts ==
    run.expectedShards > 1
        /\ Cardinality(Reported(shardRows)) >= run.expectedShards
    => /\ run.status \in TERMINAL_RUN_STATUSES
       /\ \A s \in StatusesOf(shardRows) :
              runStatusSeverity(s) <= runStatusSeverity(run.status)

\* A sharded run is never shown as passed while a shard is missing: finished
\* with a shard outstanding, it is interrupted or worse.
NoPassWithoutEveryShard ==
    /\ run.expectedShards > 1
    /\ run.status \in TERMINAL_RUN_STATUSES
    /\ Cardinality(Reported(shardRows)) < run.expectedShards
    => runStatusSeverity(run.status) >= runStatusSeverity("interrupted")

\* Past its write grace, and once the requests admitted before have ended, a
\* run is frozen for good: no later flush, completion or reopen is admitted
\* and nothing changes, save by the watchdog's recount without the lock.
\* (One such request may still commit: the guard reads before the lock.)
NoWriter ==
    \A p \in Handlers : req[p].pc \notin {"append", "complete", "completeShard"}

ClosedRunIsFrozen ==
    [][runClosedForWrites(run, now) /\ NoWriter =>
          /\ NoWriter'
          /\ \/ UNCHANGED <<run, rows, shardRows>>
             \/ \E p \in Sweepers : SweepRewrite(p)]_vars

\* Viewers are only told of committed state: the room never shows a run
\* further along, or worse, than the row it describes.
RoomNeverAhead == Rank(room) <= Rank(run.status)

\* A run whose reporter died is finished by the watchdog.
RunsFinish == run.status = "running" ~> run.status \in TERMINAL_RUN_STATUSES

\* What the tests say of the shard-aware watchdog: a completed shard's
\* failure is surfaced, not masked as 'interrupted'.
NoShardFailureMasked ==
    run.status \in TERMINAL_RUN_STATUSES =>
        \A s \in StatusesOf(shardRows) :
            runStatusSeverity(s) <= runStatusSeverity(run.status)

\* What the watchdog's comment says: a suite still streaming results, whose
\* activity is newer than the cutoff, is not force-flipped.
StreamingRunsSurvive ==
    [][\A p \in Sweepers :
         SweepFlip(p) => run.lastActivityAt < req[p].at - Stale]_vars

\* Seen from the database, the interleaved handlers, retries and sweeps are
\* an atomic ledger: see RunLedger.
Ledger == INSTANCE RunLedger WITH
    status <- run.status, results <- rows,
    Outcomes <- WireStatuses, Verdicts <- TERMINAL_RUN_STATUSES,
    Severity <- runStatusSeverity
ImplementsLedger == Ledger!Spec
=============================================================================
