# Verification of the Playwright dashboard

TLA+ models of the dashboard's own protocols, the TLC instances that check them
and the theorems TLAPS proves about them. Paths are relative to
`src/apps/dashboard/src/lib/` unless they start with `src/`; the line-by-line
correspondence is the `map` of `PROJECT.json`.

The dashboard is a set of stateless Workers around one Postgres database
(READ COMMITTED), an object store (R2), queues, cron triggers and Durable-Object
rooms that push updates to browsers, fed by a Playwright reporter that runs in
the user's process. The Workers keep nothing in memory between requests, so every
interesting behaviour is a race between short transactions, a reply that is
lost, a Worker that is killed, or a cron that works from what it read earlier.

## 1. Inventory

| Component | State | Operations | What is hard | What makes it correct | Module |
|---|---|---|---|---|---|
| **Run ingest** (`ingest/*`) | `runs`, `testResults`, `runShards` | open with prefill, append, complete, complete a shard, watchdog | several reporters and a cron write one run; retries; late shards; a recount without the lock; row ceiling | one verdict that only worsens; counters equal rows; no shard lost; the cap; abandoned runs end | `RunIngest`, `RunLedger` |
| **Synthetic monitors** (`monitors/*`) | `monitors`, `monitorExecutions`, queue messages | create, edit, pause, delete, sweep, consume, claim, record, alert, reap | at-least-once delivery, overlapping ticks, ambiguous writes, killed Workers | one container per execution; settled rows stay; cadence kept; nothing stuck | `MonitorPipeline` |
| **Project teardown and cleanup outbox** (`project-teardown.ts`, `project-artifact-cleanup.ts`) | outbox job with lease and fencing token, objects under a prefix | delete with enqueue, claim, page, settle, retry | a pass outlives its lease; an upload signed before the delete lands after | the job outlives every upload; passes do not overlap; nothing seen is left | `ProjectCleanup` |
| **Artifacts** (`artifacts/store.ts`) | `artifacts` rows, R2 objects | register, upload through the worker | identity races, run closed in between, quota | answers name the live row; no stranded object | `ArtifactStore` |
| **Retention** (`retention.ts`) | the same rows and objects | delete old objects, then rows; old test results and their cascade | cut off between the two | what is cut off is retried; what expired goes | `ArtifactStore` |
| **Usage metering** (`usage.ts`) | monthly counters | quota check, guarded bump, nightly re-base | bumps race at the limit; a re-base writes what it summed earlier | no bump past the limit; the meter follows the rows | `ArtifactStore` (bytes) |
| **GitHub surfaces** (`github-surface-post.ts` and callers) | claim slot, write mutex, comment and check ids | snapshot, claim, list, create, patch, persist, release | two posters create; a slow one outlives its claim; lost and late replies | one comment, one check; nothing older shown over newer | `GithubSurface` |
| **Membership and invites** (`members-repo.ts`, `invites.ts`, `member-groups.ts`, `user-teardown.ts`) | memberships, group links, invites, row locks | change role, remove, leave, edit a group, invite, accept, revoke, expire, delete an account or the team | lock order; lists read before a wait | a team keeps an owner; groups hold members; an invite admits once | `TeamMembers` |
| **Reporter** (`src/packages/reporter/src/*`) | buffered attempts, batches, uploads, semaphore | enqueue, flush, retry, register, put, onEnd, signal | the suite ends while everything is in flight; a test that was done reports again; parallel lists after a retry | every entry counted once; `/complete` last; files to their own rows | `ReporterStream` |
| **Billing mirror** (`billing/*`) | subscription row | webhook, reconcile | duplicates, reordering, stale fetch | the newest event wins; reconcile converges | planned |
| **Realtime rooms** (`src/apps/dashboard/src/realtime/*`) | connections, browser state | publish, subscribe, reconnect | lost and reordered publishes | a viewer converges on the row | in part (`RunIngest`) |
| Codeowners, quarantine | single rows | edit, match | none of its own | reference matching | — |
| Authentication, scope, roles; rate limiting | none; platform binding | predicates per request | none of its own | — | — |
| Read models, analytics, export; emails, audit, MCP server | none; append-only | queries; send, append | none of its own | — | — |
| UI, trace viewer, seeds, e2e | presentation | — | — | — | — |

How they interact: the reporter calls run ingest over HTTP and registers
artifacts against a run ingest still considers open; ingest bumps usage in the
transaction that opens the run, broadcasts to the run's room after each commit
and refreshes the GitHub surfaces after a completion. A monitor's check runs the
reporter in a container, with the execution id as the run's idempotency key, and
its outcome is the run's status. Retention and project teardown remove what
ingest and artifacts wrote. Crons drive the watchdog, the monitor sweep, the
reapers, retention, re-base, invites, cleanup and reconciliation. The models
meet at these boundaries: `RunIngest` refines `RunLedger`, which is all others
need to know of a run; the artifacts of `ArtifactStore` are the uploads of
`ProjectCleanup`; the completions of `RunIngest` are those of `GithubSurface`;
a request of `ReporterStream` is a handler of `RunIngest` or `ArtifactStore`
that may be served and its reply lost.

`hazards` in `PROJECT.json` lists each place where one of these bites, with the
properties that would catch it.

## 2. Modules

A *process* (request, cron invocation, poster, pass, transaction) has a record
that holds its control point and exactly the local variables the code keeps
across an `await`; between two of its steps any other process may step. A
transaction whose first statement locks the row it decides on is one step.
`TeamMembers`, where locks are the subject, steps statement by statement. Each of
the seven component modules has an `MC` module that gives TLC its constants and
a `Proofs` module; `SetLemmas` holds what the proofs share about least and greatest
elements, sums and folds.

### RunIngest, RunLedger

| Code | Actions |
|---|---|
| `openRun` (`ingest/lifecycle.ts`) | `OpenProbe`, then `OpenInsert` / `OpenOverQuota` / `OpenLostRace`, `OpenRecover`, `reopenRunForWrites` |
| `appendRunResults` (`ingest/results.ts`) | `AppendGuard`, then `AppendOverCap` / `AppendCommit` |
| `completeRun` (`ingest/finalization.ts`) | `CompleteGuard`, then `CompleteCommit` or `completeShardedRun` |
| `finalizeStaleRun`, `sweepStaleRuns` | `sweepStaleRuns`, `SweepReadShards`, `SweepFlip` / `SweepMiss`, `SweepRecount`, `SweepRewrite` |
| `broadcastRunUpdate` | the same name; it may lose the message |

The one statement that runs without the lock is the watchdog's recount after a
flip that matched no row: `SweepRecount` is the snapshot its COUNT subselects see
and `SweepRewrite` the write of what they returned. `RunLedger` is the abstract
specification: a run is opened once, results are recorded and never taken back,
one verdict is reached and replaced only by a strictly worse one.

Left out: durations and expected-test denominators (they follow the same merge),
display columns, per-attempt child rows, the tests catalog, team activity,
codeowners, and the retry that nulls a deleted monitor's link. The usage counter
is a nondeterministic refusal. Planned tests are distinct, as the reporter's test
ids make them; a plan that named a test twice would be counted twice by the
prefill, whose insert ignores conflicts.

### MonitorPipeline

| Code | Actions |
|---|---|
| `createMonitor`, `updateMonitor`, `setMonitorEnabled`, `deleteMonitor` | the same names |
| `sweepDueMonitors` | `SweepSelect`, `SweepArm` / `SweepLostRace`, `SweepSend` / `SweepSendRejected`, `SweepCloseUnsent` |
| `runMonitorJob` | `Deliver`, `LoadMonitor`, `claimExecution`, `Execute` / `ExecuteThrows`, `recordExecutionResult` / `RecordThrows` / `RecordReplyLost`, `RecordInfraError`, `SettleJob` |
| `sweepStaleExecutions` | `ReapSelect`, `sweepStaleExecutions` |
| a failed statement anywhere else | `Throws` |
| platform | `Tick`: the clock, and the end of invocations at their wall-clock limit |

`LostReplies` says whether a commit may be reported to the Worker as a failure,
as when the connection drops after COMMIT (`RecordReplyLost` for the write of a
result). When what was committed is an error, the row can be claimed again before
the catch of the consumer that wrote it rewrites it, so that two consumers come to
run one execution: the doc's "only one may launch the container" fails (§5), and the
two safety properties except those executions, which the row's history field
`errorLost` marks. A failed queue send may have been
accepted. `Deliver` hands a message to a consumer whether or not another has it,
at most `MaxDeliveries` times. Assumptions on the constants and where the code
gives them: an invocation does not outlive the stale window (the platform's 15
minutes against 30, `queues/monitors.ts` and `src/apps/dashboard/env.ts`); an
edit commits before the interval it sets has gone by. An edit read its clock up
to `EditLag` before its UPDATE commits.

Abstracted: sweep and reap budgets, which only delay; the waves in which one
sweep sends; a batch of uptime jobs, consumed one after the other; recipients of
alerts; `attempt` and the run link. The synthetic API keys are not modelled.

### ProjectCleanup

| Code | Actions |
|---|---|
| presigned PUTs (`artifacts/store.ts`) and uploads through the worker | `finalizeUploads`, `startPut`, `landPut` |
| `teardownProject` | the same name: the delete and its outbox row |
| the eager pass, the five-minute cron | `sweepProjectArtifactCleanup`, then `claimCleanup`, `listCleanupPage`, `deleteCleanupPage`, `readFinishedAt`, `settleIncomplete` / `settleEarly` / `settleComplete` / `settleFailed` |
| a call that throws, a pass that is killed | `cleanupThrows`, `cleanupDies` |

The fencing token is `attempts`, which every claim increments and every settling
statement compares. R2 failures and deaths are bounded by `MaxFaults`. The clock
stops at `MaxTime`, which stands for every later time, so that "the grace period
is over" stays reachable; `NoLater` cuts computed times there. A pass lives at
most `MaxRun`, the platform's limit. Abstracted: the other jobs of a sweep, object
keys, error texts, audit rows.

### ArtifactStore

| Code | Actions |
|---|---|
| `registerArtifacts` | `registerBegin` (run open), `registerTests`, `registerRead` (known rows, the plan), `registerQuota`, `registerCommit` / `registerRollback` (guarded bump, insert, update), the single retry, `registerAnswer` |
| upload through the worker | `uploadBegin`, `uploadPut` |
| nightly re-base (`usage.ts`) | `rebaseSnapshot`, `rebaseWrite` / `rebaseConflict` (five tries) |
| retention | `sweepArtifacts`, `sweepObjects`, `sweepRows`, `sweepTests`, `sweepReadTests`, `sweepTestObjects`, `sweepTestRows`, `sweepDies` |
| the run is closed, the project deleted, the month ends, a row passes its window | `runCloses`, `deleteProject`, `newMonth`, `expire` |

An object's key holds the row's id, so an object is an identity with an id.
Retention windows are days and an idle run refuses writes after half an hour, so
nothing expires while a request or a PUT is in progress (`Quiet`). Only artifact
bytes are metered here; the counters of runs and results are bumped by the same
statements.

### GithubSurface

| Code | Actions |
|---|---|
| `resolveGithubRunContext` | `completed`, `resolveContext` |
| `postWithClaimedSlot` (check run) | `claimCheckRunSlot`, `readId` |
| `postWithWriteMutex` (comment) | `readSticky`, `claimPrCommentSlot`, `rereadSticky` |
| `postComment`, `githubWriteId` | `findMarkerComment`, `sendRequest`, `createServed`, `patchServed`, `patchMissed` |
| `persistId`, `releaseClaim` | the same names: compare-and-swap on the claim |
| failures | `requestFails` (the request may still be served), `posterDies`, `commentDeleted` |

A time-out ends a poster's wait and not the request: `createServed` and
`patchServed` may come after the poster has gone on. A body records the run and
the completion of its snapshot and whether it was served within its claim.
`findMarkerComment` reads one page of the 100 oldest comments and takes an answer
it cannot read for an empty one, so the listing may miss the comment there is and
a second one is created: `cause` records why a poster creates (`first`, `unseen`,
`deleted`), and `OneOfEach` is about the comments whose listing was right. How the
pull request came to have 100 comments is not modelled: any listing may miss.
Tokens and installations are a poster that dies.

### TeamMembers

| Code | Actions |
|---|---|
| `lockOwnerRows`, `notLastOwner`, `setMemberRole`, `removeMemberGuarded` | `setMemberRole`, `removeMemberGuarded`, `lockRow` (one per owner, in id order), `guardedWrite`, `writeBegins`, `writeRow`, `commitRole`, `commitRemoval` |
| `replaceMembers` and the deletion of a group | `replaceMembers`, `lockMembers`, `commitGroup`, `deleteGroup` |
| accepting an invite | `consumeInvite`, `joinTeam`, `commitJoin`, `insertRefused` |
| expiry, sweep, revocation | `inviteExpires`, `dropInvite` |
| account deletion (`user-teardown.ts`) | `assertUserDeletable`, `cleanupUserData`, `commitCleanup`, `cleanupFails` |
| deletion of the team | `teardownTeamRows` |
| Postgres | `deadlockAborts` |

A statement evaluates its WHERE on what was committed when it began; when it
meets a locked row it waits, and then looks again at that row only (EvalPlanQual).
What it counted before is not counted again; the guarded write depends on this.
The locks for which transactions wait are those of membership rows: what a group
edit also locks (the group's row, its link rows, the unique index of the group names)
is not modelled, and `DeadlockNeedsRoleChange` claims nothing of it.

### ReporterStream

| Code | Actions |
|---|---|
| `onTestEnd`, the accumulator | `onTestEnd`, `enqueueDone` |
| `batcher.ts` | `flushTimer`, `resultsAccepted`, `resultsLost`, `resultsRejected`, `flushDropped` |
| `artifact-uploader.ts` | `registered`, `registerTooLarge`, `registerFails`, `putEnds` |
| `onEnd` (`index.ts`) | `onEnd`, `startDrain`, `awaitDrain`, `awaitUploads`, `awaitOpen`, `completeRun`, `budgetPasses` |
| opening, signals | `openSettles`, `signalled`, `signalHandled` |

What the accumulator hands over is an *entry*: the attempts of a test up to one
that ended it. Playwright runs a serial group again from its first test when a later
one fails, so a test that was done may report again (`Serial`), and the accumulator
starts a new entry for it, which is streamed and counted as well; hence
`SummaryAddsUp` counts entries, and two definitions in §5 say what the code's own
words make of it. `ended` is a history variable: the attempts that ended an entry.

JavaScript runs one callback at a time, so a step is what runs between two
awaits. A request may be served and its reply lost, be refused, or reject the
key. Not modelled: opening (its outcome only), shard identity and CI detection,
the quarantine list, the pull request comment and the printed summary.

## 3. Runs

All state spaces are explored completely. `CHECK_DEADLOCK FALSE` everywhere: the
environment is bounded, so an instance really stops.

| Run | Question | What it shows |
|---|---|---|
| `ingest_flush` | two concurrent requests on an unsharded run: open, flush, complete and retry in every mix, batches that name a test twice or span two tests, a row cap of 2 over 3 tests | types; counters equal rows; the cap holds; past its grace a run with no admitted request left is frozen |
| `ingest_shards` | two shards with three verdicts, retried, against the watchdog | every shard counts; never passed with a shard missing; verdicts only worsen; the room never shows more than was committed |
| `ingest_watchdog` | reporters that stop anywhere, one kill of the cron or a handler | abandoned runs finish; the ledger is implemented; only the unlocked recount makes counters drift |
| `ingest_drift` | *violation*: does the run lock make counters exact? | a watchdog pass that lost its flip to `/complete` recounts without the lock, over what a `/results` has just committed |
| `monitor_jobs` | two consumers, three deliveries, sweeps and consumers that die, lost messages and replies, the reaper | one container per execution and settled rows touched by their owner only, but for an execution an error of which was lost; every execution settles |
| `monitor_schedule` | two sweeps with delayed ticks, three executions, edits of switch and interval with an old clock | checks keep the interval |
| `cleanup` | two uploads signed before the deletion, an eager and a repeated cron pass that throw, die or outlive their lease | the job outlives every upload; passes overlap only past a lease; a finished pass leaves only what it could not see; the job ends |
| `store` | two racing registrations near the quota, their uploads, a month's end, a re-base, a sweep cut off once | answers name the live row; no stranded object; the meter drifts only where named and is never bumped past the limit; what expired is swept |
| `surface` | three posters of two runs of a pull request, or of one run's check, that outlive their claims, die, or give up a request that is still served | claims exclude; one comment and one check; the newest run is shown; every way back is named |
| `team` | three transactions at a time over three users, an owner invite, an account deletion | the last owner is lost only where named; groups hold members; an invite grants once; lock rings need a role change |
| `team_ownerless` | *violation*: does a team keep an owner? | two guarded writes that locked disjoint owner lists, read before and after two role changes |
| `reporter` | a test of a serial group that is run again after it was done, with two files, one too large, and a test without retries; requests refused, retried or lost; a rejected key; a budget that runs out; signals | each entry counted once; `/complete` last; the cap on PUTs; files to their own rows; everything settles |

`PROJECT.json` names, for each property of a passing run, a mutant of the code
(a dropped guard, an off-by-one, a swapped order) under which that run finds it
violated.

### Bounds

Two requests (consumers, sweeps, registrations, passes) are enough to put any step
of one between any two of the other; a watchdog, reaper, re-base or third poster is
the third actor where it matters, and three transactions are the smallest lock
ring with a waiter. Three tests are one more than the row cap. Two executions make
a check overlap the last, three test two consecutive gaps. Three deliveries are the
queue's real budget. Windows of 0 to 2 ticks against clocks of 2 to 7 let both
sides of every comparison occur, equality included: in `surface` a claim with a
time to live of 0 expires in one tick; in `cleanup`, `DeleteBy` plus the whole
finalize window is within the clock (`CleanupClockReaches`). Pages of one object
and a page limit of one make two uploads exceed an attempt. A limit of 3 bytes
against payloads of 1 and 2 is reached exactly, missed and exceeded. `MaxBegun`
of 5 is the shortest history that leaves a team without owner. Fault, crash,
deletion and re-base bounds of 1 or 2 allow one failure inside the recovery from
another where the cfg says 2. Symmetry is used with invariants and action
properties only, never with liveness.

### Fairness

Nothing is assumed of clients, users, consumers or the scheduling cron: each may
stop for ever.

- `FairSpec` (ingest, monitors): the clock advances and the watchdog or the reaper
  goes on being invoked, as the platform's cron triggers are; strong fairness of
  the reaper's UPDATE, since a database that fails some invocations does not fail
  all of them.
- `CleanupSpec`: the clock advances, a pass steps until it ends or dies, and the
  five-minute sweep recurs. An upload may never land.
- `StoreSpec`: weak fairness of the retention sweep, a six-hourly cron whose invocations
  end. Registrations have none.
- `StreamSpec`: weak fairness of the reporter's own steps while the process lives:
  timers fire and every request has a time-out of its own.
- `SurfaceSpec` and `TeamSpec` have none; their properties are safety.

Kills and failures are bounded everywhere: a platform that killed every invocation
would finish nothing.

## 4. Proofs

For every value of the constants that meets their named assumptions. Every safety
property the passing runs check, invariant or action property, is stated by a
theorem. Each proof follows one pattern: an inductive invariant whose parts are
named, one lemma for each action (or for each kind of step several actions take),
and the property from the invariant. The invariants were checked on the runs'
instances before they were proved.

`RunIngestProofs`

- `TypeCorrect`: `TypeOK` is inductive as it stands.
- `VerdictOnlyWorsens`: action by action; only the writers listed in lemma
  `RunWriters` touch the run, and each leaves the status or merges it.
- `RoomFollowsCommits`: `RoomNeverAhead` is not inductive, since a broadcast in
  flight could overtake. `RoomInv` adds that every summary still to be sent is of
  a committed state, and that a status never falls back.
- `OnlySweepRewriteDrifts`: every step but `SweepRewrite` preserves exact counters,
  by lemmas about `Recount` and `computeAggregateDelta` over finite sets of tests.
- `CountersAreExact`, `RowCapIsKept`: in the behaviours where no watchdog writes its
  unlocked recount (`NoUnlockedRewrite`): all those without a watchdog, and those
  whose watchdogs never lose a flip. The hypothesis is needed: with such a write the
  counters drift (run `ingest_drift`), and the cap with them, since `/results`
  projects it from the counters. `ProjectionIsExact` says that on exact counters the
  projection is the number of rows there will be; `PlansFit`, that a plan admitted by
  the guard still fits when it is inserted.
- `ClosedRunsAreFrozen`: once the grace has passed and the admitted requests have
  ended, no step writes the run; `UnopenedIsBlank` keeps a run that was never opened
  from being closed.
- `NoShardIsLost`: under `SameSuite`, that is, every client names a shard or those
  that do agree on their number; a client without a shard may be among them. Where neither
  holds, a completion may wait for another total than the run's. `ShardInv` adds
  that a completion waits for the total the run has or will have
  (`CompletionsAgree`), that a run which does not know its total yet lacks a shard
  (`UncountedRunsLackShards`), and that reports are finite.
- `NoEarlyPass`: where every client names its shard. A client without one may complete
  on a guard that read the run before its first shard arrived, and pass it early.
  `VerdictsInFlight` says that what a watchdog is about to write is interrupted or
  worse.
- `PipelineIsALedger`: the safety part of `ImplementsLedger`. `LedgerInv` adds that
  a request about to write has seen the run; each action maps to a ledger step or
  a stutter.

`MonitorPipelineProofs`

- `TypeCorrect`: `TypeOK`, which says of the badge that no infra error reaches it.
- `OneContainer`, `SettledKept`: two consumers cannot hold a row because an owned
  row is never claimable (`OwnedRow`), and the reaper cannot take it because its
  owner lives at most `MaxRun <= Stale` (`ClockInv`). A row settled under its owner
  shows what that owner wrote. `OwnerInv` says so, with uniqueness of the owner, of
  every execution no error of which was committed and reported as a failure; that
  mark is never taken back (`LostStep`).
- `Cadence`: `CadenceInv` says that an enabled monitor's next run is at least an
  interval (less `EditLag`) after its last, and that a sweep whose re-arm would
  still succeed carries the present interval.

`ProjectCleanupProofs`

- `CleanupTypes`: the type invariant, from which the arithmetic of the others.
- `JobOutlives`: `UploadsBounded` says that no capability is usable more than
  `PutTTL` after the deletion and no PUT runs for `Grace`; `JobCoversWindow` and
  `PassesHold`, that a job is gone only after both, because what settles it is
  compared with a clock read no later than now.
- `LeaseHolds`: `ClaimsOrdered` says that tokens are distinct and at most
  `attempts`, and that a live job is not due before the leases of all earlier
  claims have run, so a later token was claimed after them.
- `OnlyUnseenIsLeft`: `PagesSeen` says that what is stored and is not on the
  untruncated page a pass is about to delete landed after that page was listed, and
  that once it is deleted this is so of all that is stored; other passes only
  delete. That the pass that removes the job is the only one with its token is
  `ClaimsOrdered` again.

`ArtifactStoreProofs`, for any finite set of identities, any number of requests and
months, any sizes and any quota

- `NothingIsStranded`: not inductive alone. `PlansHold` says that what a registration
  has read or written keeps its row and its id until it answers, because rows go
  only when nothing is in progress (`QuietOnceExpired`); `SweepsFollow`, that a
  sweep which is about to delete rows has deleted their objects.
- `UrlsAreOfLiveRows`: from `PlansHold` where the answer is given.
- `BumpsStayWithinTheLimit`: the bump is guarded in its own statement, so only
  its own size matters, not what passed the check before it.
- `MeterIsKept`: `SnapshotHolds` says that a re-base's snapshot that nothing
  followed is still the sum of the rows. Proving it for every instance showed that a
  stale refresh after the snapshot skews what the re-base writes, which takes more
  requests than the run has: `skewed` records it. Bytes are sums over
  identities, and `SumOverAll` and `SetLemmas` say how one changes with some of its
  terms.

`GithubSurfaceProofs`, for any number of posters and runs, any time to live and
any number of faults and deletions

- `ClaimsExclude`: not inductive alone. `ClaimsFollow` adds that a holder that no
  longer has the row's claim had outlived its own, so a claim that is taken now is
  later than every other by more than the time to live.
- `RecordsGoForward`: from `HolderIsNewest`: what the reread under the mutex found
  stays true while the claim is held, since only the holder writes the row.
- `PostsOnce`: `CreatesTheFirst` says that under the mutex a poster whose listing
  was right creates a comment only where every other is explained; for a check run, `CheckRecorded`
  says that one that is not explained is recorded or is its holder's.
- `CommentsGoForward`: `BodiesFollow` says that what a comment shows is recorded,
  or its poster has not recorded it and never will, or holds the row.
- `NewestIsShown`: `ShownInv` follows a poster to its good end. `EndsCovered` and
  `CheckCovered` say that it ends well only when its run or a newer one is recorded;
  `ClaimsHaveOwners`, that a claim left in the row is of a poster that did not;
  `LastWriterRecorded`, that whoever wrote last at the recorded comment is the one
  that was recorded, or did not end well.
- `SurfaceTypes`: the type invariant; `SurfaceInv` is the conjunction of all but the
  parts of `ShownInv`.

`TeamMembersProofs`, for any finite set of users and any transactions and invites

- `TeamInvariant`, `TeamTyped`: per transaction, `StatementFits` says what its
  statement is about, `LocksHold` that the rows it has locked are as it left them,
  `CountHolds` what it counted before the row it writes.
- `OwnerLossIsExplained`: `OwnersGuarded` says that as long as every guard covered
  the owners and no account deletion passed by, one guarded write runs at a time,
  it holds a lock on an owner, and past its count another owner is left.
- `GroupLinksAreMembers`: inductive with `LocksHold`: the edit links members it has
  locked, and a removal drops the links of the row it holds.
- `InviteIsGrantedOnce`: `GrantsSpent`, with the lock on the invite's row.
- `DeadlocksAreExplained`: `LocksInOrder` says that a transaction that has read the
  roles as they are holds exactly the owners it has been through, below all it still
  waits for; then the lowest row waited for in a ring leads to a contradiction.

`ReporterStreamProofs`, for any suite, serial groups, retries, batch size, files
and concurrency

- `EveryEntryIsCounted`: `EntriesFollow` says that a test that is buffered has an
  entry that is not over, and that until `onEnd` any other test's last entry is over,
  so that reporting again starts a new one; `OnceOnTheWay`, that an entry is at one
  place of its way (buffered, being built, queued, in one batch) and once;
  `CountsFollow`, that those that have left it are those that were counted.
- `CompleteIsLast`: `StagesFollow` says what each stage of `onEnd` has waited for.
- `CapOnPuts`: `SemaphoreFits` says that the count is the number of holders and that
  nothing waits while a slot is free, `PutsHaveTasks` and `TasksTellApart` that
  no PUT is taken for another; by what `FoldLeft` computes when a whole register
  call acquires (`AcquiredInOrder`).
- `FilesGoToOwnRows`: `ListsParallel`, by what `Kept` and `correlateUploads` compute
  (`KeptPositions`, `CorrelatedFiles`).

The sums and folds are recursive functions of the community modules. That such a
recursion has a solution, and what it computes, is proved for each of them in
`SetLemmas` and beside its use, by looking at a least counterexample.

Only model-checked: everything under fairness (`RunsFinish`, `ExecutionsSettle`,
`CleanupEnds`, `ExpiredIsSwept`, `EverythingSettles`, the ledger's liveness).
Liveness and ENABLED are out of this prover's reach.

## 5. Known divergences

Where a doc, comment or test says what the code does not do. The first two are
runs and `findings`. The others are defined in the modules beside their quotation;
a cfg with the constants named here finds each violated, without SYMMETRY.

| Definition | Said in | What happens | Constants |
|---|---|---|---|
| `CountersMatchRows` | `ingest/results.ts:43` | see `ingest_drift` | `ingest_drift` |
| `OwnerRemains` | `members-repo.ts:15` | see `team_ownerless` | `team_ownerless` |
| `NoShardFailureMasked` | `src/apps/dashboard/src/__tests__/sharded-complete.test.ts:398` | a shard fails after the watchdog read the shard rows: the run is shown as interrupted, the failure not merged until every shard reports | `ingest_shards` |
| `StreamingRunsSurvive` | `src/apps/dashboard/src/__tests__/scope-where.workers.test.ts:254` | a run that resumed streaming after it was selected is flipped all the same | `ingest_watchdog`, `Stale = 0`, `Horizon = 2` |
| `SettledRowsAreImmutable` | `monitors/monitors-repo.ts:520` | a committed verdict whose reply is lost is overwritten by the catch's infra error | `monitor_jobs` |
| `OneContainerPerExecution` | `monitors/monitors-repo.ts:516` | an error is committed and its reply lost: a second delivery claims the row, the first one's catch rewrites `running` to `error`, and a third claims it while the second still runs | `monitor_jobs` |
| `SlotFiresOnce` | `monitors/scheduler.ts:67` | two ticks at least an interval apart both selected the monitor before either re-armed: one slot, two executions | `monitor_schedule` |
| `AlertsAreEdges` | `monitors/alerts.tsx:5` | a retried execution overlaps the next one, and its alert compares with a status replaced meanwhile | `monitor_jobs`, two executions, `LostReplies = FALSE` |
| `NoOrphanOnceJobGone` | `project-artifact-cleanup.ts:156` | the window is checked after the last listing: a PUT that lands in between outlives the job | `cleanup` |
| `NoDoubleCount` | `usage.ts:27` | two requests that both read a row at its old size refresh it: the difference is charged twice | `store`, three requests, `Limit = 4` |
| `MeterNeverNegative` | `usage.ts:216` | a row of last month is refreshed to a smaller size: this month's meter is charged the difference | `store` |
| `CheckShowsTheOutcome` | `github-surface-post.ts:12` | two completions of one run render different verdicts, and the older one is patched last | `surface` |
| `CommentNeverGoesBack` | `github-pr-comment.ts:477` | a poster that outlived its mutex is served after its successor | `surface` |
| `DoneIsFinal` | `src/packages/reporter/src/accumulator.ts:10` | a test of a serial group that passed reports again when its group is retried: its attempts become two entries, not one `flaky` row | `reporter` |
| `SummaryCountsTests` | `src/packages/reporter/src/index.ts:937` | the line "streamed N/total test(s)" counts such a test twice | `reporter` |
| `NoDeadlock` | `members-repo.ts:81` | a group edit locks the one owner it read, then the other members; a new owner with a lower id makes a later transaction lock the two in the other order | `team` |

Three more are read off the code and the models without a definition of their own:
an account deletion drops its memberships without the owner locks, so "provably
not a sole owner" (`user-teardown.ts:70`) holds when the guard ran and not when
the row goes (`unguarded` in `TeamMembers`); the two entries of a serial test are
queued in the order in which their files were collected, so the earlier one may
reach the dashboard last, where the last write wins (`enqueueDone` takes any entry);
and `onEnd` awaits `openPromise`
outside its shutdown budget (`src/packages/reporter/src/index.ts:815`), so
`awaitOpen` is not limited by `budgetPasses`.

## 6. Plan

1. `BillingMirror`: reordered and duplicated webhooks against the nightly
   reconciliation. The question to start from: a `canceled` event that arrives
   before the `active` it followed advances the guard's timestamp.
2. `RunRoom`: connections, reconnects and the browser's reducer, over `RunLedger`.
3. `MonitorKeys`: synthetic keys and their sweep; lock order of the tests catalog.

## 7. Not modelled, and why

The billing mirror, the rooms' connections, the synthetic keys and the tests
catalog are the plan's. Everything else that is left out has no protocol of its
own: predicates evaluated once per request, read-only queries, CSV, emails, audit
lines, the platform's rate limiter, and presentation code, which is most of the
repository's lines. Postgres, R2, GitHub, the queues and the cron triggers appear
through the guarantees the code relies on: atomic transactions at READ COMMITTED,
at-least-once delivery, requests that may be served late or unknown to the
caller, invocations that end at a wall-clock limit.

## 8. Running

In this directory: `tlc -workers 2 -config <run>.cfg <MC module>.tla`, with the
module `PROJECT.json` names for the run; `tlapm <module>Proofs.tla`, and
`tlapm SetLemmas.tla`. The longest run (`reporter`) takes about a minute
on two cores.
