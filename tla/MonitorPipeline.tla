--------------------------- MODULE MonitorPipeline ---------------------------
(***************************************************************************)
(* Synthetic monitoring, for ONE monitor: the minute cron that turns a due *)
(* monitor into an execution row and a queue message, the queue consumers  *)
(* that claim, run and record an execution, the reaper of executions that  *)
(* got stuck, and the owner's edits.                                       *)
(*                                                                         *)
(* The queue delivers at least once: until it is acknowledged a message    *)
(* may be handed to several consumers, a bounded number of times.  The     *)
(* platform ends an invocation at its wall-clock limit, at any of its      *)
(* steps; that is the only crash.  Every database statement or transaction *)
(* is one step, and what a process read before one is in its record.  A    *)
(* statement may fail, and its commit may be reported as a failure.        *)
(***************************************************************************)
EXTENDS Integers, FiniteSets

CONSTANTS
    Executions,     \* ids of execution rows
    Consumers,      \* queue-consumer invocations
    Sweepers,       \* invocations of the scheduling cron
    Reapers,        \* invocations of the stuck-execution cron
    Outcomes,       \* what an executor may return, "infra" for infraError
    LostReplies,    \* whether a commit may be reported as a failure
    Intervals,      \* values of intervalSeconds the form offers
    MaxLag,         \* how late a cron tick may be delivered
    EditLag,        \* how old the clock an edit read may be when it commits
    MaxDeliveries,  \* 1 + maxRetries
    MaxRun,         \* the platform's limit on an invocation
    Stale,          \* WRIGHTFUL_MONITOR_EXECUTION_STALE_MINUTES
    Horizon,        \* bound: nothing new is started after this time
    MaxTime         \* bound: the clock stops here

Settled == {"pass", "degraded", "fail"}
InFlightStates == {"queued", "running"}
States == Settled \cup InFlightStates \cup {"error"}
NoRow == {"unused", "deleted"}

Procs == Consumers \cup Sweepers \cup Reapers
Times == 0 .. MaxTime

ASSUME ExecutionsFinite == IsFiniteSet(Executions)
ASSUME ProcsDisjoint ==
    /\ Consumers \cap Sweepers = {}
    /\ Consumers \cap Reapers = {}
    /\ Sweepers \cap Reapers = {}
ASSUME OutcomesType == Outcomes \subseteq Settled \cup {"error", "infra"}
ASSUME LostRepliesType == LostReplies \in BOOLEAN
ASSUME BoundsType ==
    /\ {MaxLag, EditLag, MaxDeliveries, MaxRun, Stale, Horizon, MaxTime}
           \subseteq Nat
    /\ 1 <= MaxTime
\* An edit commits before the interval it sets has gone by.
ASSUME IntervalsType ==
    /\ Intervals \subseteq Nat
    /\ \A i \in Intervals : EditLag < i
\* env.ts: the stale window exceeds the life of an invocation.
ASSUME StaleOutlivesRuns == MaxRun <= Stale

VARIABLES
    now,      \* wall clock, in seconds
    monitor,  \* the monitors row
    execs,    \* monitorExecutions rows, and in each, as a history no step
              \* reads, whether an error of it was committed and reported as
              \* a failure (errorLost)
    queue,    \* per execution: deliveries its message has left, 0 once gone
    req       \* per invocation: its control point and its local variables

vars == <<now, monitor, execs, queue, req>>

-----------------------------------------------------------------------------
Idle == [pc |-> "idle"]
Goto(p, r) == req' = [req EXCEPT ![p] = r]
At(p, label) == req[p].pc = label
Live == monitor.state = "live"
InFlight(e) == execs[e].state \in InFlightStates

Init ==
    /\ now = 1
    /\ monitor = [state |-> "absent", enabled |-> FALSE, intervalSeconds |-> 0,
                  nextRunAt |-> 0, lastEnqueuedAt |-> 0, lastStatus |-> "none"]
    /\ execs = [e \in Executions |->
                   [state |-> "unused", scheduledFor |-> 0,
                    createdAt |-> 0, startedAt |-> 0, errorLost |-> FALSE]]
    /\ queue = [e \in Executions |-> 0]
    /\ req = [p \in Procs |-> Idle]

\* The platform ends the invocations that reach their limit.
Tick ==
    /\ now < MaxTime
    /\ now' = now + 1
    /\ req' = [p \in Procs |->
                  IF ~At(p, "idle") /\ now + 1 - req[p].since > MaxRun
                  THEN Idle ELSE req[p]]
    /\ UNCHANGED <<monitor, execs, queue>>

-----------------------------------------------------------------------------
(* The owner *)

createMonitor(enabled, interval) ==
    /\ monitor.state = "absent"
    /\ monitor' = [state |-> "live", enabled |-> enabled,
                   intervalSeconds |-> interval,
                   nextRunAt |-> IF enabled THEN now + interval ELSE 0,
                   lastEnqueuedAt |-> 0, lastStatus |-> "none"]
    /\ UNCHANGED <<now, execs, queue, req>>

\* The form always posts the switch and the interval.  The handler read the
\* clock before its UPDATE.
updateMonitor(enabled, interval) ==
    /\ Live
    /\ \E at \in (now - EditLag) .. now :
           monitor' = [monitor EXCEPT
                        !.enabled = enabled,
                        !.intervalSeconds = interval,
                        !.nextRunAt = IF enabled THEN at + interval ELSE 0]
    /\ UNCHANGED <<now, execs, queue, req>>

setMonitorEnabled(enabled) == updateMonitor(enabled, monitor.intervalSeconds)

\* The foreign key cascades to the executions; messages stay queued.
deleteMonitor ==
    /\ Live
    /\ monitor' = [monitor EXCEPT !.state = "deleted"]
    /\ execs' = [e \in Executions |->
                    IF execs[e].state = "unused" THEN execs[e]
                    ELSE [execs[e] EXCEPT !.state = "deleted"]]
    /\ UNCHANGED <<now, queue, req>>

-----------------------------------------------------------------------------
(* The scheduling cron *)

dueMonitorsWhere(tick) ==
    /\ Live /\ monitor.enabled
    /\ monitor.nextRunAt <= tick
    /\ \A e \in Executions : ~InFlight(e)

\* Mutant: the re-arm trusts the SELECT.
ReArmEnabled(tick) == Live /\ monitor.enabled

monitorReArmCasWhere(tick) ==
    /\ Live /\ monitor.enabled
    /\ monitor.nextRunAt <= tick

\* The cron works with the time its tick was scheduled for, not with the
\* time it runs at.
SweepSelect(p, tick) ==
    /\ At(p, "idle")
    /\ now <= Horizon
    /\ dueMonitorsWhere(tick)
    /\ Goto(p, [pc |-> "arm", since |-> now, at |-> tick,
                due |-> monitor.nextRunAt,
                interval |-> monitor.intervalSeconds])
    /\ UNCHANGED <<now, monitor, execs, queue>>

\* The re-arm and the execution row commit together, before the send.
SweepArm(p, e) ==
    /\ At(p, "arm")
    /\ monitorReArmCasWhere(req[p].at)
    /\ execs[e].state = "unused"
    /\ monitor' = [monitor EXCEPT
                    !.nextRunAt = req[p].at + req[p].interval,
                    !.lastEnqueuedAt = req[p].at]
    /\ execs' = [execs EXCEPT ![e] =
                    [state |-> "queued", scheduledFor |-> req[p].due,
                     createdAt |-> req[p].at, startedAt |-> 0,
                     errorLost |-> FALSE]]
    /\ \/ Goto(p, [pc |-> "send", since |-> req[p].since, exec |-> e])
       \/ LostReplies /\ Goto(p, Idle)
    /\ UNCHANGED <<now, queue>>

SweepLostRace(p) ==
    /\ At(p, "arm")
    /\ ~monitorReArmCasWhere(req[p].at)
    /\ Goto(p, Idle)
    /\ UNCHANGED <<now, monitor, execs, queue>>

SweepSend(p) ==
    /\ At(p, "send")
    /\ queue' = [queue EXCEPT ![req[p].exec] = MaxDeliveries]
    /\ Goto(p, Idle)
    /\ UNCHANGED <<now, monitor, execs>>

\* The send is reported failed; the message may have been accepted all the
\* same.
SweepSendRejected(p) ==
    /\ At(p, "send")
    /\ \E n \in {0, MaxDeliveries} :
           queue' = [queue EXCEPT ![req[p].exec] = n]
    /\ Goto(p, [req[p] EXCEPT !.pc = "unsent"])
    /\ UNCHANGED <<now, monitor, execs>>

\* UPDATE ... WHERE state = 'queued'.
SweepCloseUnsent(p) ==
    /\ At(p, "unsent")
    /\ execs' = IF execs[req[p].exec].state # "queued" THEN execs
                ELSE [execs EXCEPT ![req[p].exec].state = "error"]
    /\ Goto(p, Idle)
    /\ UNCHANGED <<now, monitor, queue>>

-----------------------------------------------------------------------------
(* The queue consumer: runMonitorJob *)

Ack(e) == queue' = [queue EXCEPT ![e] = 0]

\* A delivery, and loadExecution: the row is gone if the monitor is.
Deliver(p, e) ==
    /\ At(p, "idle")
    /\ now <= Horizon
    /\ queue[e] > 0
    /\ IF execs[e].state \in NoRow
       THEN Ack(e) /\ UNCHANGED req
       ELSE /\ queue' = [queue EXCEPT ![e] = @ - 1]
            /\ Goto(p, [pc |-> "load", since |-> now, exec |-> e])
    /\ UNCHANGED <<now, monitor, execs>>

\* loadMonitor.  The badge read here is the baseline of the alert.
\* If the monitor is gone an error is recorded, on a row that went with it.
LoadMonitor(p) ==
    /\ At(p, "load")
    /\ IF Live
       THEN /\ Goto(p, [pc |-> "claim", since |-> req[p].since,
                        exec |-> req[p].exec, at |-> now,
                        prevStatus |-> monitor.lastStatus])
            /\ UNCHANGED queue
       ELSE Ack(req[p].exec) /\ Goto(p, Idle)
    /\ UNCHANGED <<now, monitor, execs>>

\* Mutant: any row that has not settled may be claimed.
ClaimableUnlessSettled == InFlightStates \cup {"error"}

Claimable == {"queued", "error"}

claimExecution(p) ==
    LET e == req[p].exec
    IN  /\ At(p, "claim")
        /\ IF execs[e].state \in Claimable
           THEN /\ execs' = [execs EXCEPT ![e].state = "running",
                                          ![e].startedAt = req[p].at]
                /\ \/ Goto(p, [req[p] EXCEPT !.pc = "execute"])
                   \/ LostReplies /\ Goto(p, Idle)
                /\ UNCHANGED queue
           ELSE Ack(e) /\ Goto(p, Idle) /\ UNCHANGED execs
        /\ UNCHANGED <<now, monitor>>

\* The executor returns ...
Execute(p) ==
    /\ At(p, "execute")
    /\ \E result \in Outcomes :
           Goto(p, [pc |-> "record", since |-> req[p].since,
                    exec |-> req[p].exec, prevStatus |-> req[p].prevStatus,
                    result |-> result])
    /\ UNCHANGED <<now, monitor, execs, queue>>

\* ... or throws.
ExecuteThrows(p) ==
    /\ At(p, "execute")
    /\ Goto(p, [pc |-> "recordInfra", since |-> req[p].since,
                exec |-> req[p].exec, wrote |-> "nothing"])
    /\ UNCHANGED <<now, monitor, execs, queue>>

isDown(status) == status \in {"fail", "error"}

classifyAlert(prev, next) ==
    IF ~isDown(prev) /\ isDown(next) THEN "down"
    ELSE IF isDown(prev) /\ ~isDown(next) THEN "recovery"
    ELSE "quiet"

\* An infra error is recorded as an error.
recordedState(result) == IF result = "infra" THEN "error" ELSE result

\* The UPDATE of the execution row is by id only.
recordState(e, result) ==
    execs' = IF execs[e].state \in NoRow THEN execs
             ELSE [execs EXCEPT ![e].state = recordedState(result)]

monitorBadgeUpdate(result) ==
    monitor' = IF Live /\ result # "infra"
               THEN [monitor EXCEPT !.lastStatus = result]
               ELSE monitor

\* An infra error is not alerted on, and its message is retried.
recordExecutionResult(p) ==
    LET result == req[p].result
    IN  /\ At(p, "record")
        /\ recordState(req[p].exec, result)
        /\ monitorBadgeUpdate(result)
        /\ IF result = "infra"
           THEN Goto(p, Idle)
           ELSE Goto(p, [pc |-> "settle", since |-> req[p].since,
                         exec |-> req[p].exec,
                         alert |-> classifyAlert(req[p].prevStatus, result)])
        /\ UNCHANGED <<now, queue>>

\* The database call throws, before its commit ...
RecordThrows(p) ==
    /\ At(p, "record")
    /\ Goto(p, [pc |-> "recordInfra", since |-> req[p].since,
                exec |-> req[p].exec, wrote |-> "nothing"])
    /\ UNCHANGED <<now, monitor, execs, queue>>

\* ... or after it.  Either way the catch records an infra error next: what
\* its write did (wrote) is unknown to it.
RecordReplyLost(p) ==
    LET e == req[p].exec
        result == req[p].result
    IN  /\ At(p, "record")
        /\ LostReplies
        /\ execs' = IF execs[e].state \in NoRow THEN execs
                    ELSE [execs EXCEPT
                           ![e].state = recordedState(result),
                           ![e].errorLost = @ \/ recordedState(result) = "error"]
        /\ monitorBadgeUpdate(result)
        /\ Goto(p, [pc |-> "recordInfra", since |-> req[p].since,
                    exec |-> e, wrote |-> recordedState(result)])
        /\ UNCHANGED <<now, queue>>

\* The badge is left alone and the message is retried.
RecordInfraError(p) ==
    /\ At(p, "recordInfra")
    /\ recordState(req[p].exec, "infra")
    /\ Goto(p, Idle)
    /\ UNCHANGED <<now, monitor, queue>>

\* The alert is sent and the message acknowledged.
SettleJob(p) ==
    /\ At(p, "settle")
    /\ Ack(req[p].exec)
    /\ Goto(p, Idle)
    /\ UNCHANGED <<now, monitor, execs>>

-----------------------------------------------------------------------------
(* The reaper *)

\* Mutant: only running executions go stale.
StaleIfRunning(e, cutoff) ==
    execs[e].state = "running" /\ execs[e].startedAt < cutoff

\* A queued execution ages from its creation, a running one from its claim.
staleExecutionsWhere(e, cutoff) ==
    \/ execs[e].state = "queued" /\ execs[e].createdAt < cutoff
    \/ execs[e].state = "running" /\ execs[e].startedAt < cutoff

ReapSelect(p) ==
    LET stale == {e \in Executions : staleExecutionsWhere(e, now - Stale)}
    IN  /\ At(p, "idle")
        /\ stale # {}
        /\ Goto(p, [pc |-> "reap", since |-> now, cutoff |-> now - Stale,
                    found |-> stale])
        /\ UNCHANGED <<now, monitor, execs, queue>>

\* Mutant: the UPDATE trusts the SELECT.
ReapAllFound(p) ==
    /\ At(p, "reap")
    /\ execs' = [e \in Executions |->
                    IF e \in req[p].found /\ execs[e].state \notin NoRow
                    THEN [execs[e] EXCEPT !.state = "error"]
                    ELSE execs[e]]
    /\ Goto(p, Idle)
    /\ UNCHANGED <<now, monitor, queue>>

\* One UPDATE per row found, each re-applying the stale predicate.
sweepStaleExecutions(p) ==
    /\ At(p, "reap")
    /\ execs' = [e \in Executions |->
                    IF e \in req[p].found
                       /\ staleExecutionsWhere(e, req[p].cutoff)
                    THEN [execs[e] EXCEPT !.state = "error"]
                    ELSE execs[e]]
    /\ Goto(p, Idle)
    /\ UNCHANGED <<now, monitor, queue>>

\* A statement that fails elsewhere ends the invocation: the crons wait for
\* their next tick, the queue retries the message.
Throws(p) ==
    /\ req[p].pc \in {"arm", "unsent", "load", "claim", "recordInfra", "reap"}
    /\ Goto(p, Idle)
    /\ UNCHANGED <<now, monitor, execs, queue>>

-----------------------------------------------------------------------------
Owner ==
    \/ \E enabled \in BOOLEAN, interval \in Intervals :
           \/ createMonitor(enabled, interval)
           \/ updateMonitor(enabled, interval)
    \/ \E enabled \in BOOLEAN : setMonitorEnabled(enabled)
    \/ deleteMonitor

Sweep(p) ==
    \/ \E tick \in (now - MaxLag) .. now : SweepSelect(p, tick)
    \/ \E e \in Executions : SweepArm(p, e)
    \/ SweepLostRace(p)
    \/ SweepSend(p)
    \/ SweepSendRejected(p)
    \/ SweepCloseUnsent(p)

Consume(p) ==
    \/ \E e \in Executions : Deliver(p, e)
    \/ LoadMonitor(p)
    \/ claimExecution(p)
    \/ Execute(p)
    \/ ExecuteThrows(p)
    \/ recordExecutionResult(p)
    \/ RecordThrows(p)
    \/ RecordReplyLost(p)
    \/ RecordInfraError(p)
    \/ SettleJob(p)

Reap(p) == ReapSelect(p) \/ sweepStaleExecutions(p)

Next ==
    \/ Tick
    \/ Owner
    \/ \E p \in Sweepers : Sweep(p)
    \/ \E p \in Consumers : Consume(p)
    \/ \E p \in Reapers : Reap(p)
    \/ \E p \in Procs : Throws(p)

Spec == Init /\ [][Next]_vars

\* The clock advances, the reaper keeps being invoked, and the database does
\* not fail it for ever.
FairSpec ==
    /\ Spec
    /\ WF_vars(Tick)
    /\ \A p \in Reapers :
          WF_vars(ReapSelect(p)) /\ SF_vars(sweepStaleExecutions(p))

-----------------------------------------------------------------------------
(* Properties *)

Badges == (Outcomes \ {"infra"}) \cup {"none"}

MonitorRows ==
    [state : {"absent", "live", "deleted"}, enabled : BOOLEAN,
     intervalSeconds : Nat, nextRunAt : Nat, lastEnqueuedAt : Times,
     lastStatus : Badges]

ExecutionRows ==
    [state : States \cup NoRow, scheduledFor : Nat, createdAt : Times,
     startedAt : Times, errorLost : BOOLEAN]

SweepJobs ==
         [pc : {"idle"}]
    \cup [pc : {"arm"}, since : Times, at : Times, due : Nat, interval : Nat]
    \cup [pc : {"send", "unsent"}, since : Times, exec : Executions]

ConsumeJobs ==
         [pc : {"idle"}]
    \cup [pc : {"load"}, since : Times, exec : Executions]
    \cup [pc : {"recordInfra"}, since : Times, exec : Executions,
          wrote : Settled \cup {"error", "nothing"}]
    \cup [pc : {"claim", "execute"}, since : Times, exec : Executions,
          at : Times, prevStatus : Badges]
    \cup [pc : {"record"}, since : Times, exec : Executions,
          prevStatus : Badges, result : Outcomes]
    \cup [pc : {"settle"}, since : Times, exec : Executions,
          alert : {"down", "recovery", "quiet"}]

ReapJobs ==
         [pc : {"idle"}]
    \cup [pc : {"reap"}, since : Times, cutoff : Int,
          found : SUBSET Executions]

\* Every column and every local variable holds a value of its type; the badge
\* only ever shows an outcome an executor observed, never an infra error or a
\* reaped execution.
TypeOK ==
    /\ now \in Times
    /\ monitor \in MonitorRows
    /\ monitor.state = "absent" \/ monitor.intervalSeconds \in Intervals
    /\ execs \in [Executions -> ExecutionRows]
    /\ queue \in [Executions -> 0 .. MaxDeliveries]
    /\ DOMAIN req = Procs
    /\ \A p \in Sweepers : req[p] \in SweepJobs
    /\ \A p \in Consumers : req[p] \in ConsumeJobs
    /\ \A p \in Reapers : req[p] \in ReapJobs

\* A consumer holds the execution whose check it is running.
Holds(p, e) ==
    /\ req[p].pc \in {"execute", "record"}
    /\ req[p].exec = e

\* At any time at most one consumer is running an execution's check, however
\* often its message is delivered, retried or sent in doubt, and whatever the
\* reaper and the owner do meanwhile.  The exception is an execution whose
\* error was committed and reported as a failure: another delivery may claim
\* the error row before the first consumer's catch rewrites it.
OneContainerUnlessErrorLost ==
    \A e \in Executions : \A p, q \in Consumers :
        Holds(p, e) /\ Holds(q, e) => p = q \/ execs[e].errorLost

\* Once an execution has settled, no redelivery, reaper, failed send or
\* second consumer changes its outcome: only the consumer that wrote this
\* outcome does, while it handles the error of its own write.  The exception
\* is again an execution an error of which was lost, since it may be run twice
\* at a time.
OnlyItsOwnerResettles ==
    [][\A e \in Executions :
         execs[e].state \in Settled /\ ~execs[e].errorLost =>
             \/ execs'[e].state \in {execs[e].state, "deleted"}
             \/ \E p \in Consumers :
                   /\ RecordInfraError(p)
                   /\ req[p].exec = e
                   /\ req[p].wrote = execs[e].state]_vars

\* Two checks are never enqueued closer together than the interval the
\* monitor has, up to the age of an edit's clock: not by duplicated, delayed
\* or overlapping ticks, not around a pause, not with an interval that was
\* changed after the sweep read it.
CadenceKept ==
    [][\A e \in Executions :
         execs[e].state = "unused" /\ execs'[e].state = "queued"
             /\ monitor.lastEnqueuedAt > 0 =>
           execs'[e].createdAt - monitor.lastEnqueuedAt
               >= monitor.intervalSeconds - EditLag]_vars

\* A check that was enqueued does not stay in flight for ever, though its
\* message may be lost and its consumer killed.
ExecutionsSettle ==
    \A e \in Executions : InFlight(e) ~> ~InFlight(e)

\* What monitors-repo.ts says of the claim: of the consumers handed the same
\* job "only one may launch the container".
OneContainerPerExecution ==
    \A e \in Executions : \A p, q \in Consumers :
        Holds(p, e) /\ Holds(q, e) => p = q

\* What monitors-repo.ts says of the claim: pass, fail and degraded rows are
\* immutable.
SettledRowsAreImmutable ==
    [][\A e \in Executions :
         execs[e].state \in Settled =>
             execs'[e].state \in {execs[e].state, "deleted"}]_vars

\* What scheduler.ts says of the re-arm: selecting a monitor twice does not
\* fire one scheduled slot twice.
SlotFiresOnce ==
    \A d, e \in Executions :
        /\ d # e
        /\ execs[d].state \notin NoRow
        /\ execs[e].state \notin NoRow
        => execs[d].scheduledFor # execs[e].scheduledFor

\* What alerts.tsx says: an alert is sent on a transition of the monitor's
\* health, and only then.
AlertsAreEdges ==
    [][\A p \in Consumers :
         recordExecutionResult(p) /\ Live /\ req[p].result # "infra" =>
             classifyAlert(req[p].prevStatus, req[p].result)
               = classifyAlert(monitor.lastStatus, req[p].result)]_vars
=============================================================================
