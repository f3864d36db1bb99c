------------------------ MODULE MonitorPipelineProofs ------------------------
(***************************************************************************)
(* Theorems about MonitorPipeline, for every number of executions, queue   *)
(* consumers, sweeps and reapers, every set of intervals and every bound.  *)
(***************************************************************************)
EXTENDS MonitorPipeline, TLAPS

-----------------------------------------------------------------------------
(* Local records *)

LEMMA GotoFrame ==
    ASSUME DOMAIN req = Procs, NEW p \in Procs, NEW r, Goto(p, r)
    PROVE  /\ DOMAIN req' = Procs
           /\ req'[p] = r
           /\ \A q \in Procs \ {p} : req'[q] = req[q]
BY DEF Goto

\* What a local record holds at each control point.
LEMMA SweepLocals ==
    ASSUME NEW r \in SweepJobs
    PROVE  /\ r.pc # "idle" => r.since \in Times
           /\ r.pc = "arm" => /\ r.at \in Times
                              /\ r.due \in Nat
                              /\ r.interval \in Nat
           /\ r.pc = "send" => [r EXCEPT !.pc = "unsent"] \in SweepJobs
           /\ r.pc \in {"send", "unsent"} => r.exec \in Executions
           /\ r.pc \in {"idle", "arm", "send", "unsent"}
BY DEF SweepJobs

LEMMA ConsumeLocals ==
    ASSUME NEW r \in ConsumeJobs
    PROVE  /\ r.pc # "idle" => r.since \in Times /\ r.exec \in Executions
           /\ r.pc \in {"claim", "execute"} =>
                 r.at \in Times /\ r.prevStatus \in Badges
           /\ r.pc = "claim" => [r EXCEPT !.pc = "execute"] \in ConsumeJobs
           /\ r.pc = "record" => /\ r.result \in Outcomes
                                 /\ r.prevStatus \in Badges
           /\ r.pc = "recordInfra" =>
                 r.wrote \in Settled \cup {"error", "nothing"}
           /\ r.pc \in {"idle", "load", "claim", "execute", "record",
                        "recordInfra", "settle"}
BY DEF ConsumeJobs

LEMMA ReapLocals ==
    ASSUME NEW r \in ReapJobs
    PROVE  /\ r.pc # "idle" => r.since \in Times
           /\ r.pc = "reap" => /\ r.cutoff \in Int
                               /\ r.found \in SUBSET Executions
           /\ r.pc \in {"idle", "reap"}
BY DEF ReapJobs

\* Every record a process may move to, as one fact per control point.
LEMMA JobForms ==
    /\ Idle \in SweepJobs /\ Idle \in ConsumeJobs /\ Idle \in ReapJobs
    /\ \A s, t \in Times, d, i \in Nat :
          [pc |-> "arm", since |-> s, at |-> t, due |-> d, interval |-> i]
             \in SweepJobs
    /\ \A s \in Times, e \in Executions :
          /\ [pc |-> "send", since |-> s, exec |-> e] \in SweepJobs
          /\ [pc |-> "load", since |-> s, exec |-> e] \in ConsumeJobs
          /\ \A w \in Settled \cup {"error", "nothing"} :
                [pc |-> "recordInfra", since |-> s, exec |-> e, wrote |-> w]
                   \in ConsumeJobs
    /\ \A s, t \in Times, e \in Executions, v \in Badges :
          [pc |-> "claim", since |-> s, exec |-> e, at |-> t, prevStatus |-> v]
             \in ConsumeJobs
    /\ \A s \in Times, e \in Executions, v \in Badges,
          u \in Outcomes :
          [pc |-> "record", since |-> s, exec |-> e, prevStatus |-> v,
           result |-> u] \in ConsumeJobs
    /\ \A s \in Times, e \in Executions,
          k \in {"down", "recovery", "quiet"} :
          [pc |-> "settle", since |-> s, exec |-> e, alert |-> k]
             \in ConsumeJobs
    /\ \A s \in Times, c \in Int, found \in SUBSET Executions :
          [pc |-> "reap", since |-> s, cutoff |-> c, found |-> found]
             \in ReapJobs
BY DEF Idle, SweepJobs, ConsumeJobs, ReapJobs

\* A sweep, a consumer or a reaper that moves to a record of its kind keeps
\* the records of all processes well-typed.
LEMMA ReqType ==
    ASSUME TypeOK, NEW p \in Procs, NEW r, Goto(p, r),
           p \in Sweepers => r \in SweepJobs,
           p \in Consumers => r \in ConsumeJobs,
           p \in Reapers => r \in ReapJobs
    PROVE  /\ DOMAIN req' = Procs
           /\ \A q \in Sweepers : req'[q] \in SweepJobs
           /\ \A q \in Consumers : req'[q] \in ConsumeJobs
           /\ \A q \in Reapers : req'[q] \in ReapJobs
BY GotoFrame DEF TypeOK, Procs

-----------------------------------------------------------------------------
(* Type correctness *)

LEMMA Bounds ==
    /\ MaxLag \in Nat /\ EditLag \in Nat /\ MaxDeliveries \in Nat
    /\ MaxRun \in Nat /\ Stale \in Nat /\ Horizon \in Nat /\ MaxTime \in Nat
    /\ 0 \in Times /\ 1 \in Times /\ Times \subseteq Nat
BY BoundsType DEF Times

LEMMA QueueType ==
    ASSUME TypeOK, NEW e \in Executions, NEW n \in 0 .. MaxDeliveries,
           queue' = [queue EXCEPT ![e] = n]
    PROVE  queue' \in [Executions -> 0 .. MaxDeliveries]
BY DEF TypeOK

LEMMA TypeInit == Init => TypeOK
<1>. SUFFICES ASSUME Init PROVE TypeOK
  OBVIOUS
<1>. USE DEF Init
<1>1. now \in Times /\ 0 \in Times
  BY BoundsType DEF Times
<1>. QED BY <1>1, JobForms, BoundsType DEF TypeOK, MonitorRows, Badges,
                                          ExecutionRows, NoRow, Procs

\* The clock and the owner.
LEMMA TypeTick == TypeOK /\ Tick => TypeOK'
<1>. SUFFICES ASSUME TypeOK, Tick PROVE TypeOK'
  OBVIOUS
<1>1. now' \in Times
  BY BoundsType DEF TypeOK, Tick, Times
<1>2. DOMAIN req' = Procs /\ \A p \in Procs : req'[p] \in {Idle, req[p]}
  BY DEF Tick
<1>3. \A p \in Procs : /\ p \in Sweepers => req'[p] \in SweepJobs
                       /\ p \in Consumers => req'[p] \in ConsumeJobs
                       /\ p \in Reapers => req'[p] \in ReapJobs
  BY <1>2, JobForms DEF TypeOK
<1>. QED BY <1>1, <1>2, <1>3 DEF TypeOK, Tick, Procs

\* The switch is an edit that keeps the interval.
LEMMA OwnerCases ==
    ASSUME TypeOK, Owner
    PROVE  \/ deleteMonitor
           \/ \E enabled \in BOOLEAN, interval \in Intervals :
                 createMonitor(enabled, interval)
           \/ \E enabled \in BOOLEAN, interval \in Intervals :
                 updateMonitor(enabled, interval)
<1>1. ASSUME NEW enabled \in BOOLEAN, setMonitorEnabled(enabled)
      PROVE  \E interval \in Intervals : updateMonitor(enabled, interval)
  <2>1. monitor.intervalSeconds \in Intervals
    BY <1>1 DEF setMonitorEnabled, updateMonitor, Live, TypeOK
  <2>. QED BY <1>1, <2>1 DEF setMonitorEnabled
<1>. QED BY <1>1 DEF Owner

\* An edit schedules an enabled monitor less than EditLag before the end of
\* the interval it sets.
LEMMA EditForm ==
    ASSUME TypeOK, NEW enabled \in BOOLEAN, NEW interval \in Intervals,
           updateMonitor(enabled, interval)
    PROVE  /\ Live
           /\ \E next \in Nat :
                 /\ enabled => next >= now + interval - EditLag
                 /\ monitor' = [monitor EXCEPT !.enabled = enabled,
                                               !.intervalSeconds = interval,
                                               !.nextRunAt = next]
           /\ UNCHANGED <<now, execs, queue, req>>
<1>. PICK at \in (now - EditLag) .. now :
              monitor' = [monitor EXCEPT
                        !.enabled = enabled,
                        !.intervalSeconds = interval,
                        !.nextRunAt = IF enabled THEN at + interval ELSE 0]
  BY DEF updateMonitor
<1>. DEFINE next == IF enabled THEN at + interval ELSE 0
<1>1. interval \in Nat /\ EditLag \in Nat /\ EditLag < interval /\ now \in Nat
  BY IntervalsType, BoundsType DEF TypeOK, Times
<1>2. next \in Nat /\ (enabled => next >= now + interval - EditLag)
  BY <1>1
<1>3. monitor' = [monitor EXCEPT !.enabled = enabled,
                                 !.intervalSeconds = interval,
                                 !.nextRunAt = next]
  OBVIOUS
<1>. HIDE DEF next
<1>. QED BY <1>2, <1>3 DEF updateMonitor

LEMMA TypeOwner == TypeOK /\ Owner => TypeOK'
<1>. SUFFICES ASSUME TypeOK, Owner PROVE TypeOK'
  OBVIOUS
<1>1. CASE deleteMonitor
  <2>1. execs' \in [Executions -> ExecutionRows]
    BY <1>1 DEF deleteMonitor, TypeOK, ExecutionRows, NoRow
  <2>. QED BY <1>1, <2>1 DEF deleteMonitor, Live, TypeOK, MonitorRows
<1>2. ASSUME NEW enabled \in BOOLEAN, NEW interval \in Intervals,
             createMonitor(enabled, interval)
      PROVE  TypeOK'
  <2>1. now + interval \in Nat /\ interval \in Nat /\ 0 \in Times
    BY BoundsType, IntervalsType DEF TypeOK, Times
  <2>. QED BY <1>2, <2>1 DEF createMonitor, TypeOK, MonitorRows, Badges
<1>3. ASSUME NEW enabled \in BOOLEAN, NEW interval \in Intervals,
             updateMonitor(enabled, interval)
      PROVE  TypeOK'
  <2>. PICK next \in Nat :
              monitor' = [monitor EXCEPT !.enabled = enabled,
                                         !.intervalSeconds = interval,
                                         !.nextRunAt = next]
    BY <1>3, EditForm, ZenonT(30)
  <2>. QED BY <1>3, IntervalsType DEF updateMonitor, TypeOK, MonitorRows
<1>. QED BY <1>1, <1>2, <1>3, OwnerCases

\* The scheduling cron.
LEMMA TypeSweep ==
    ASSUME TypeOK, NEW p \in Sweepers, Sweep(p)
    PROVE  TypeOK'
<1>. p \in Procs /\ p \notin Consumers /\ p \notin Reapers
  BY ProcsDisjoint DEF Procs
<1>. req[p] \in SweepJobs
  BY DEF TypeOK
<1>1. ASSUME NEW tick \in (now - MaxLag) .. now, SweepSelect(p, tick)
      PROVE  TypeOK'
  <2>1. tick \in Times /\ monitor.nextRunAt \in Nat
        /\ monitor.intervalSeconds \in Nat /\ now \in Times
    BY <1>1, BoundsType
       DEF SweepSelect, dueMonitorsWhere, TypeOK, Times, MonitorRows
  <2>. DEFINE r == [pc |-> "arm", since |-> now, at |-> tick,
                    due |-> monitor.nextRunAt,
                    interval |-> monitor.intervalSeconds]
  <2>2. r \in SweepJobs
    BY <2>1, JobForms
  <2>3. Goto(p, r)
    BY <1>1 DEF SweepSelect
  <2>. HIDE DEF r
  <2>. QED BY <1>1, <2>2, <2>3, ReqType DEF SweepSelect, TypeOK
<1>2. ASSUME NEW e \in Executions, SweepArm(p, e) PROVE TypeOK'
  <2>0. req[p].pc = "arm"
    BY <1>2 DEF SweepArm, At
  <2>1. /\ req[p].since \in Times /\ req[p].at \in Times
        /\ req[p].due \in Nat /\ req[p].interval \in Nat
        /\ 0 \in Times /\ Times \subseteq Nat
    BY <2>0, SweepLocals, Bounds
  <2>2. execs' \in [Executions -> ExecutionRows]
    BY <1>2, <2>1 DEF SweepArm, TypeOK, ExecutionRows, States, InFlightStates
  <2>. DEFINE next == req[p].at + req[p].interval
              at == req[p].at
  <2>2a. req[p].at \in Nat
    BY <2>1
  <2>3. next \in Nat /\ at \in Times
    BY <2>1, <2>2a
  <2>. monitor' = [monitor EXCEPT !.nextRunAt = next, !.lastEnqueuedAt = at]
    BY <1>2 DEF SweepArm
  <2>. HIDE DEF next, at
  <2>4. /\ monitor' \in MonitorRows
        /\ monitor'.state = monitor.state
        /\ monitor'.intervalSeconds = monitor.intervalSeconds
    BY <2>3 DEF TypeOK, MonitorRows
  <2>. DEFINE r == [pc |-> "send", since |-> req[p].since, exec |-> e]
  <2>5. r \in SweepJobs /\ Idle \in SweepJobs
    BY <2>1, JobForms
  <2>6. Goto(p, r) \/ Goto(p, Idle)
    BY <1>2 DEF SweepArm
  <2>. HIDE DEF r
  <2>. QED BY <1>2, <2>2, <2>4, <2>5, <2>6, ReqType DEF SweepArm, TypeOK
<1>3. CASE SweepLostRace(p)
  BY <1>3, JobForms, ReqType DEF SweepLostRace, TypeOK
<1>4. CASE SweepSend(p)
  <2>0. req[p].pc = "send"
    BY <1>4 DEF SweepSend, At
  <2>. req[p].exec \in Executions
    BY <2>0, SweepLocals
  <2>. MaxDeliveries \in 0 .. MaxDeliveries
    BY Bounds
  <2>. queue' = [queue EXCEPT ![req[p].exec] = MaxDeliveries]
    BY <1>4 DEF SweepSend
  <2>1. queue' \in [Executions -> 0 .. MaxDeliveries]
    BY QueueType
  <2>. QED BY <1>4, <2>1, JobForms, ReqType DEF SweepSend, TypeOK
<1>5. CASE SweepSendRejected(p)
  <2>0. req[p].pc = "send"
    BY <1>5 DEF SweepSendRejected, At
  <2>. req[p].exec \in Executions
    BY <2>0, SweepLocals
  <2>. PICK n \in {0, MaxDeliveries} :
              queue' = [queue EXCEPT ![req[p].exec] = n]
    BY <1>5 DEF SweepSendRejected
  <2>. n \in 0 .. MaxDeliveries
    BY Bounds
  <2>1. queue' \in [Executions -> 0 .. MaxDeliveries]
    BY QueueType
  <2>. DEFINE r == [req[p] EXCEPT !.pc = "unsent"]
  <2>2. r \in SweepJobs /\ Goto(p, r)
    BY <1>5, <2>0, SweepLocals DEF SweepSendRejected
  <2>. HIDE DEF r
  <2>. QED BY <1>5, <2>1, <2>2, ReqType DEF SweepSendRejected, TypeOK
<1>6. CASE SweepCloseUnsent(p)
  <2>1. execs' \in [Executions -> ExecutionRows]
    BY <1>6 DEF SweepCloseUnsent, TypeOK, ExecutionRows, States
  <2>. QED BY <1>6, <2>1, JobForms, ReqType DEF SweepCloseUnsent, TypeOK
<1>. QED BY <1>1, <1>2, <1>3, <1>4, <1>5, <1>6 DEF Sweep

\* The queue consumer.
LEMMA RecordedType ==
    ASSUME NEW result \in Outcomes \cup {"infra"}
    PROVE  recordedState(result) \in Settled \cup {"error"}
BY OutcomesType DEF recordedState

LEMMA RecordType ==
    ASSUME TypeOK, NEW e \in Executions,
           NEW result \in Outcomes \cup {"infra"}, recordState(e, result)
    PROVE  execs' \in [Executions -> ExecutionRows]
BY RecordedType DEF recordState, TypeOK, ExecutionRows, States

LEMMA BadgeType ==
    ASSUME TypeOK, NEW result \in Outcomes, monitorBadgeUpdate(result)
    PROVE  /\ monitor' \in MonitorRows
           /\ monitor'.state = monitor.state
           /\ monitor'.intervalSeconds = monitor.intervalSeconds
BY DEF monitorBadgeUpdate, TypeOK, MonitorRows, Badges

LEMMA TypeConsume ==
    ASSUME TypeOK, NEW p \in Consumers, Consume(p)
    PROVE  TypeOK'
<1>. p \in Procs /\ p \notin Sweepers /\ p \notin Reapers
  BY ProcsDisjoint DEF Procs
<1>. req[p] \in ConsumeJobs
  BY DEF TypeOK
<1>. now \in Times /\ 0 \in 0 .. MaxDeliveries
  BY Bounds DEF TypeOK
<1>0. ASSUME req[p].pc # "idle"
      PROVE  req[p].since \in Times /\ req[p].exec \in Executions
  BY <1>0, ConsumeLocals
<1>1. ASSUME NEW e \in Executions, Deliver(p, e) PROVE TypeOK'
  <2>1. CASE execs[e].state \in NoRow
    BY <1>1, <2>1, QueueType DEF Deliver, Ack, TypeOK
  <2>2. CASE execs[e].state \notin NoRow
    <3>1. queue[e] - 1 \in 0 .. MaxDeliveries
      BY <1>1, Bounds DEF Deliver, TypeOK
    <3>2. queue' = [queue EXCEPT ![e] = queue[e] - 1]
      BY <1>1, <2>2 DEF Deliver
    <3>3. queue' \in [Executions -> 0 .. MaxDeliveries]
      BY <3>1, <3>2, QueueType
    <3>. DEFINE r == [pc |-> "load", since |-> now, exec |-> e]
    <3>4. r \in ConsumeJobs /\ Goto(p, r)
      BY <1>1, <2>2, JobForms DEF Deliver
    <3>. HIDE DEF r
    <3>. QED BY <1>1, <3>3, <3>4, ReqType DEF Deliver, TypeOK
  <2>. QED BY <2>1, <2>2
<1>2. CASE LoadMonitor(p)
  <2>1. req[p].since \in Times /\ req[p].exec \in Executions
    BY <1>2, <1>0 DEF LoadMonitor, At
  <2>2. CASE Live
    <3>. DEFINE r == [pc |-> "claim", since |-> req[p].since,
                      exec |-> req[p].exec, at |-> now,
                      prevStatus |-> monitor.lastStatus]
    <3>1. monitor.lastStatus \in Badges
      BY DEF TypeOK, MonitorRows
    <3>2. r \in ConsumeJobs
      BY <2>1, <3>1, JobForms
    <3>3. Goto(p, r)
      BY <1>2, <2>2 DEF LoadMonitor
    <3>. HIDE DEF r
    <3>. QED BY <1>2, <2>2, <3>2, <3>3, ReqType DEF LoadMonitor, TypeOK
  <2>3. CASE ~Live
    <3>1. queue' \in [Executions -> 0 .. MaxDeliveries] /\ Goto(p, Idle)
      BY <1>2, <2>1, <2>3, QueueType DEF LoadMonitor, Ack
    <3>. QED BY <1>2, <3>1, JobForms, ReqType DEF LoadMonitor, TypeOK
  <2>. QED BY <2>2, <2>3
<1>3. CASE claimExecution(p)
  <2>0. req[p].pc = "claim"
    BY <1>3 DEF claimExecution, At
  <2>1. req[p].exec \in Executions /\ req[p].at \in Times
    BY <2>0, ConsumeLocals
  <2>2. CASE execs[req[p].exec].state \in Claimable
    <3>1. execs' \in [Executions -> ExecutionRows]
      BY <1>3, <2>1, <2>2
         DEF claimExecution, TypeOK, ExecutionRows, States, InFlightStates
    <3>. DEFINE r == [req[p] EXCEPT !.pc = "execute"]
    <3>2. r \in ConsumeJobs /\ Idle \in ConsumeJobs
      BY <2>0, ConsumeLocals, JobForms
    <3>3. Goto(p, r) \/ Goto(p, Idle)
      BY <1>3, <2>2 DEF claimExecution
    <3>. HIDE DEF r
    <3>. QED BY <1>3, <2>2, <3>1, <3>2, <3>3, ReqType
             DEF claimExecution, TypeOK
  <2>3. CASE execs[req[p].exec].state \notin Claimable
    <3>1. queue' \in [Executions -> 0 .. MaxDeliveries] /\ Goto(p, Idle)
      BY <1>3, <2>1, <2>3, QueueType DEF claimExecution, Ack
    <3>. QED BY <1>3, <2>3, <3>1, JobForms, ReqType DEF claimExecution, TypeOK
  <2>. QED BY <2>2, <2>3
<1>4. CASE Execute(p)
  <2>. PICK result \in Outcomes :
              Goto(p, [pc |-> "record", since |-> req[p].since,
                       exec |-> req[p].exec, prevStatus |-> req[p].prevStatus,
                       result |-> result])
    BY <1>4 DEF Execute
  <2>. DEFINE r == [pc |-> "record", since |-> req[p].since,
                    exec |-> req[p].exec, prevStatus |-> req[p].prevStatus,
                    result |-> result]
  <2>1. req[p].pc = "execute"
    BY <1>4 DEF Execute, At
  <2>2. /\ req[p].prevStatus \in Badges
        /\ req[p].since \in Times /\ req[p].exec \in Executions
    BY <2>1, ConsumeLocals
  <2>3. r \in ConsumeJobs
    BY <2>2, JobForms
  <2>. Goto(p, r)
    OBVIOUS
  <2>. HIDE DEF r
  <2>. QED BY <1>4, <2>3, ReqType DEF Execute, TypeOK
<1>5. CASE ExecuteThrows(p) \/ RecordThrows(p)
  <2>. DEFINE r == [pc |-> "recordInfra", since |-> req[p].since,
                    exec |-> req[p].exec, wrote |-> "nothing"]
  <2>1. req[p].since \in Times /\ req[p].exec \in Executions
    BY <1>5, <1>0 DEF ExecuteThrows, RecordThrows, At
  <2>2. r \in ConsumeJobs
    BY <2>1, JobForms
  <2>3. Goto(p, r)
    BY <1>5 DEF ExecuteThrows, RecordThrows
  <2>. HIDE DEF r
  <2>. QED BY <1>5, <2>2, <2>3, ReqType
           DEF ExecuteThrows, RecordThrows, TypeOK
<1>5a. CASE RecordReplyLost(p)
  <2>. DEFINE w == recordedState(req[p].result)
              r == [pc |-> "recordInfra", since |-> req[p].since,
                    exec |-> req[p].exec, wrote |-> w]
  <2>0. req[p].pc = "record"
    BY <1>5a DEF RecordReplyLost, At
  <2>1. /\ req[p].since \in Times /\ req[p].exec \in Executions
        /\ req[p].result \in Outcomes
    BY <2>0, ConsumeLocals
  <2>2. w \in Settled \cup {"error"}
    BY <2>1, RecordedType
  <2>3. r \in ConsumeJobs
    BY <2>1, <2>2, JobForms
  <2>4. Goto(p, r)
    BY <1>5a DEF RecordReplyLost
  <2>5. execs' \in [Executions -> ExecutionRows]
    BY <1>5a, <2>1, <2>2
       DEF RecordReplyLost, TypeOK, ExecutionRows, States
  <2>6. /\ monitor' \in MonitorRows
        /\ monitor'.state = monitor.state
        /\ monitor'.intervalSeconds = monitor.intervalSeconds
    BY <1>5a, <2>1, BadgeType DEF RecordReplyLost
  <2>. HIDE DEF r, w
  <2>. QED BY <1>5a, <2>3, <2>4, <2>5, <2>6, ReqType
           DEF RecordReplyLost, TypeOK
<1>6. CASE recordExecutionResult(p)
  <2>1. req[p].pc = "record"
    BY <1>6 DEF recordExecutionResult, At
  <2>2. /\ req[p].since \in Times /\ req[p].exec \in Executions
        /\ req[p].result \in Outcomes
    BY <2>1, ConsumeLocals
  <2>3. /\ execs' \in [Executions -> ExecutionRows]
        /\ monitor' \in MonitorRows
        /\ monitor'.state = monitor.state
        /\ monitor'.intervalSeconds = monitor.intervalSeconds
    BY <1>6, <2>2, RecordType, BadgeType
       DEF recordExecutionResult
  <2>. DEFINE r == [pc |-> "settle", since |-> req[p].since,
                    exec |-> req[p].exec,
                    alert |-> classifyAlert(req[p].prevStatus, req[p].result)]
  <2>4. r \in ConsumeJobs
    BY <2>2, JobForms DEF classifyAlert
  <2>5. Goto(p, r) \/ Goto(p, Idle)
    BY <1>6 DEF recordExecutionResult
  <2>. HIDE DEF r
  <2>. QED BY <1>6, <2>3, <2>4, <2>5, JobForms, ReqType
           DEF recordExecutionResult, TypeOK
<1>7. CASE RecordInfraError(p)
  <2>1. req[p].exec \in Executions
    BY <1>7, <1>0 DEF RecordInfraError, At
  <2>2. execs' \in [Executions -> ExecutionRows]
    BY <1>7, <2>1, RecordType DEF RecordInfraError
  <2>. QED BY <1>7, <2>2, JobForms, ReqType DEF RecordInfraError, TypeOK
<1>8. CASE SettleJob(p)
  <2>1. req[p].exec \in Executions
    BY <1>8, <1>0 DEF SettleJob, At
  <2>2. queue' \in [Executions -> 0 .. MaxDeliveries]
    BY <1>8, <2>1, QueueType DEF SettleJob, Ack
  <2>. QED BY <1>8, <2>2, JobForms, ReqType DEF SettleJob, TypeOK
<1>. QED BY <1>1, <1>2, <1>3, <1>4, <1>5, <1>5a, <1>6, <1>7, <1>8
         DEF Consume

\* The reaper.
LEMMA TypeReap ==
    ASSUME TypeOK, NEW p \in Reapers, Reap(p)
    PROVE  TypeOK'
<1>. p \in Procs /\ p \notin Sweepers /\ p \notin Consumers
  BY ProcsDisjoint DEF Procs
<1>1. CASE ReapSelect(p)
  <2>. DEFINE stale == {e \in Executions :
                           staleExecutionsWhere(e, now - Stale)}
              r == [pc |-> "reap", since |-> now, cutoff |-> now - Stale,
                    found |-> stale]
  <2>1. now \in Times /\ now - Stale \in Int
    BY Bounds DEF TypeOK
  <2>2. stale \in SUBSET Executions
    OBVIOUS
  <2>3. r \in ReapJobs
    BY <2>1, <2>2, JobForms
  <2>4. Goto(p, r)
    BY <1>1 DEF ReapSelect
  <2>. HIDE DEF r
  <2>. QED BY <1>1, <2>3, <2>4, ReqType DEF ReapSelect, TypeOK
<1>2. CASE sweepStaleExecutions(p)
  <2>1. execs' \in [Executions -> ExecutionRows]
    BY <1>2 DEF sweepStaleExecutions, TypeOK, ExecutionRows, States
  <2>. QED BY <1>2, <2>1, JobForms, ReqType DEF sweepStaleExecutions, TypeOK
<1>. QED BY <1>1, <1>2 DEF Reap

LEMMA TypeThrows ==
    ASSUME TypeOK, NEW p \in Procs, Throws(p)
    PROVE  TypeOK'
BY JobForms, ReqType DEF Throws, TypeOK

LEMMA TypeNext == TypeOK /\ [Next]_vars => TypeOK'
<1>. SUFFICES ASSUME TypeOK, [Next]_vars PROVE TypeOK'
  OBVIOUS
<1>1. CASE UNCHANGED vars
  BY <1>1 DEF vars, TypeOK
<1>. QED BY <1>1, TypeTick, TypeOwner, TypeSweep, TypeConsume, TypeReap,
         TypeThrows
         DEF Next

\* Rows and local records keep their types, and the badge never shows an
\* infra error or a reaped execution.
THEOREM TypeCorrect == Spec => []TypeOK
BY TypeInit, TypeNext, PTL DEF Spec

-----------------------------------------------------------------------------
(* Invocations live within the platform's limit *)

\* A local record at time t: its process is within its limit, the claim's
\* clock was read since it started, and the reaper's cutoff is old enough.
Timely(r, t) ==
    /\ r.pc # "idle" => r.since <= t /\ t <= r.since + MaxRun
    /\ r.pc = "claim" => r.since <= r.at /\ r.at <= t
    /\ r.pc = "reap" => r.cutoff <= t - Stale

ClockInv == \A p \in Procs : Timely(req[p], now)

LEMMA ClockStep ==
    ASSUME TypeOK, ClockInv, NEW p \in Procs, NEW r, Goto(p, r),
           Timely(r, now), now' = now
    PROVE  ClockInv'
BY GotoFrame DEF ClockInv, TypeOK

LEMMA IdleTimely == \A t : Timely(Idle, t)
BY DEF Timely, Idle

LEMMA SinceType ==
    ASSUME TypeOK, NEW p \in Procs
    PROVE  /\ req[p].pc # "idle" => req[p].since \in Nat
           /\ now \in Nat /\ MaxRun \in Nat /\ Stale \in Nat
<1>1. req[p].pc # "idle" => req[p].since \in Times
  BY SweepLocals, ConsumeLocals, ReapLocals DEF TypeOK, Procs
<1>. QED BY <1>1, Bounds DEF TypeOK

LEMMA ClockTick == TypeOK /\ ClockInv /\ Tick => ClockInv'
<1>. SUFFICES ASSUME TypeOK, ClockInv, Tick, NEW p \in Procs
              PROVE  Timely(req[p], now)'
  BY DEF ClockInv
<1>1. now' = now + 1 /\ req'[p] \in {Idle, req[p]}
  BY DEF Tick
<1>2. CASE req'[p] = Idle
  BY <1>2 DEF Timely, Idle
<1>3. CASE req'[p] # Idle
  <2>1. req'[p] = req[p]
    BY <1>1, <1>3
  <2>2. req[p].pc # "idle" => now + 1 - req[p].since <= MaxRun
    BY <1>3, SinceType DEF Tick, At
  <2>3. Timely(req[p], now)
    BY DEF ClockInv
  <2>4. req[p].pc = "claim" => req[p].at \in Nat
    BY SweepLocals, ConsumeLocals, ReapLocals, Bounds DEF TypeOK, Procs
  <2>5. req[p].pc = "reap" => req[p].cutoff \in Int
    BY SweepLocals, ConsumeLocals, ReapLocals DEF TypeOK, Procs
  <2>. QED BY <1>1, <2>1, <2>2, <2>3, <2>4, <2>5, SinceType DEF Timely
<1>. QED BY <1>2, <1>3

\* A process moves on with the start it had, or starts now.
LEMMA ClockMoves ==
    ASSUME TypeOK, ClockInv, NEW p \in Procs, NEW r, Goto(p, r), now' = now,
           r.pc \notin {"claim", "reap"},
           \/ r.pc = "idle"
           \/ r.since = now
           \/ req[p].pc # "idle" /\ r.since = req[p].since
    PROVE  ClockInv'
<1>1. Timely(req[p], now)
  BY DEF ClockInv
<1>2. Timely(r, now)
  BY <1>1, SinceType DEF Timely
<1>. QED BY <1>2, ClockStep

LEMMA ClockSweep ==
    ASSUME TypeOK, ClockInv, NEW p \in Sweepers, Sweep(p)
    PROVE  ClockInv'
<1>. p \in Procs
  BY DEF Procs
<1>. req[p] \in SweepJobs
  BY DEF TypeOK
<1>1. ASSUME NEW tick \in (now - MaxLag) .. now, SweepSelect(p, tick)
      PROVE  ClockInv'
  BY <1>1, ClockMoves DEF SweepSelect
<1>2. ASSUME NEW e \in Executions, SweepArm(p, e) PROVE ClockInv'
  <2>1. CASE Goto(p, Idle)
    BY <1>2, <2>1, ClockMoves DEF SweepArm, Idle
  <2>2. CASE ~Goto(p, Idle)
    BY <1>2, <2>2, ClockMoves DEF SweepArm, At
  <2>. QED BY <2>1, <2>2
<1>3. CASE SweepLostRace(p) \/ SweepSend(p) \/ SweepCloseUnsent(p)
  BY <1>3, ClockMoves DEF SweepLostRace, SweepSend, SweepCloseUnsent, Idle
<1>4. CASE SweepSendRejected(p)
  <2>1. req[p].pc = "send"
    BY <1>4 DEF SweepSendRejected, At
  <2>. DEFINE r == [req[p] EXCEPT !.pc = "unsent"]
  <2>2. r.pc = "unsent" /\ r.since = req[p].since
    BY <2>1 DEF SweepJobs
  <2>3. Goto(p, r) /\ now' = now
    BY <1>4 DEF SweepSendRejected
  <2>. HIDE DEF r
  <2>. QED BY <2>1, <2>2, <2>3, ClockMoves
<1>. QED BY <1>1, <1>2, <1>3, <1>4 DEF Sweep

LEMMA ClockConsume ==
    ASSUME TypeOK, ClockInv, NEW p \in Consumers, Consume(p)
    PROVE  ClockInv'
<1>. p \in Procs
  BY DEF Procs
<1>. req[p] \in ConsumeJobs
  BY DEF TypeOK
<1>1. ASSUME NEW e \in Executions, Deliver(p, e) PROVE ClockInv'
  <2>1. CASE execs[e].state \in NoRow
    BY <1>1, <2>1 DEF Deliver, ClockInv
  <2>2. CASE execs[e].state \notin NoRow
    BY <1>1, <2>2, ClockMoves DEF Deliver
  <2>. QED BY <2>1, <2>2
<1>2. CASE LoadMonitor(p)
  <2>1. CASE Live
    <3>. DEFINE r == [pc |-> "claim", since |-> req[p].since,
                      exec |-> req[p].exec, at |-> now,
                      prevStatus |-> monitor.lastStatus]
    <3>1. req[p].pc = "load" /\ Goto(p, r) /\ now' = now
      BY <1>2, <2>1 DEF LoadMonitor, At
    <3>2. Timely(req[p], now)
      BY DEF ClockInv
    <3>3. Timely(r, now)
      BY <3>1, <3>2, SinceType DEF Timely
    <3>. HIDE DEF r
    <3>. QED BY <3>1, <3>3, ClockStep
  <2>2. CASE ~Live
    BY <1>2, <2>2, ClockMoves DEF LoadMonitor, Idle
  <2>. QED BY <2>1, <2>2
<1>3. CASE claimExecution(p)
  <2>1. req[p].pc = "claim" /\ now' = now
    BY <1>3 DEF claimExecution, At
  <2>. DEFINE r == [req[p] EXCEPT !.pc = "execute"]
  <2>2. r.pc = "execute" /\ r.since = req[p].since
    BY <2>1 DEF ConsumeJobs
  <2>3. Goto(p, r) \/ Goto(p, Idle)
    BY <1>3 DEF claimExecution
  <2>4. Idle.pc = "idle"
    BY DEF Idle
  <2>. HIDE DEF r
  <2>. QED BY <2>1, <2>2, <2>3, <2>4, ClockMoves
<1>4. CASE Execute(p)
  BY <1>4, ClockMoves DEF Execute, At
<1>5. CASE ExecuteThrows(p) \/ RecordThrows(p) \/ RecordReplyLost(p)
  BY <1>5, ClockMoves DEF ExecuteThrows, RecordThrows, RecordReplyLost, At
<1>6. CASE recordExecutionResult(p)
  <2>1. CASE Goto(p, Idle)
    BY <1>6, <2>1, ClockMoves DEF recordExecutionResult, Idle
  <2>2. CASE ~Goto(p, Idle)
    BY <1>6, <2>2, ClockMoves DEF recordExecutionResult, At
  <2>. QED BY <2>1, <2>2
<1>7. CASE RecordInfraError(p) \/ SettleJob(p)
  BY <1>7, ClockMoves DEF RecordInfraError, SettleJob, Idle
<1>. QED BY <1>1, <1>2, <1>3, <1>4, <1>5, <1>6, <1>7 DEF Consume

LEMMA ClockReap ==
    ASSUME TypeOK, ClockInv, NEW p \in Reapers, Reap(p)
    PROVE  ClockInv'
<1>. p \in Procs
  BY DEF Procs
<1>1. CASE ReapSelect(p)
  <2>. DEFINE stale == {e \in Executions :
                           staleExecutionsWhere(e, now - Stale)}
              r == [pc |-> "reap", since |-> now, cutoff |-> now - Stale,
                    found |-> stale]
  <2>1. Timely(r, now)
    BY SinceType DEF Timely
  <2>2. Goto(p, r) /\ now' = now
    BY <1>1 DEF ReapSelect
  <2>. HIDE DEF r
  <2>. QED BY <2>1, <2>2, ClockStep
<1>2. CASE sweepStaleExecutions(p)
  BY <1>2, ClockMoves DEF sweepStaleExecutions, Idle
<1>. QED BY <1>1, <1>2 DEF Reap

LEMMA ClockNext == TypeOK /\ ClockInv /\ [Next]_vars => ClockInv'
<1>. SUFFICES ASSUME TypeOK, ClockInv, [Next]_vars PROVE ClockInv'
  OBVIOUS
<1>1. CASE UNCHANGED vars
  BY <1>1 DEF vars, ClockInv
<1>2. CASE Owner
  <2>1. UNCHANGED <<now, req>>
    BY <1>2 DEF Owner, createMonitor, updateMonitor, setMonitorEnabled,
                deleteMonitor
  <2>. QED BY <2>1 DEF ClockInv
<1>3. ASSUME NEW p \in Procs, Throws(p) PROVE ClockInv'
  BY <1>3, ClockMoves DEF Throws, Idle
<1>. QED BY <1>1, <1>2, <1>3, ClockTick, ClockSweep, ClockConsume, ClockReap
         DEF Next

LEMMA ClockAlways == Spec => [](TypeOK /\ ClockInv)
<1>1. Init => TypeOK /\ ClockInv
  BY TypeInit, IdleTimely DEF Init, ClockInv
<1>2. TypeOK /\ ClockInv /\ [Next]_vars => (TypeOK /\ ClockInv)'
  BY TypeNext, ClockNext
<1>. QED BY <1>1, <1>2, PTL DEF Spec

-----------------------------------------------------------------------------
(* One consumer per execution *)

\* p claimed e and has not finished with it.
Owning(p, e) ==
    /\ req[p].pc \in {"execute", "record", "recordInfra"}
    /\ req[p].exec = e

\* An owned row was claimed within its owner's life, cannot be claimed again,
\* and has settled only if its owner wrote it and lost the reply.
OwnedRow(p, e) ==
    /\ execs[e].state \in {"running", "deleted"} \cup Settled
    /\ execs[e].state \in Settled =>
          req[p].pc = "recordInfra" /\ req[p].wrote = execs[e].state
    /\ execs[e].state = "running" => req[p].since <= execs[e].startedAt

\* What is said of an owner holds until an error of its execution is lost,
\* which cannot be before the row is written.
OwnerInv ==
    /\ \A e \in Executions :
          execs[e].state = "unused" => ~execs[e].errorLost
    /\ \A e \in Executions : \A p \in Consumers :
          Owning(p, e) /\ ~execs[e].errorLost =>
             OwnedRow(p, e) /\ \A q \in Consumers : Owning(q, e) => q = p

\* A lost error is remembered, and only a row that was written has one.
LostKept ==
    \A e \in Executions :
       /\ execs[e].errorLost => execs'[e].errorLost
       /\ execs'[e].state = "unused" => ~execs'[e].errorLost

\* How a step other than a re-arm writes an execution row.
LEMMA RowWrites ==
    ASSUME TypeOK, [Next]_vars,
           \A p \in Sweepers, e \in Executions : ~SweepArm(p, e),
           NEW e \in Executions
    PROVE  /\ execs'[e].errorLost = execs[e].errorLost \/ execs'[e].errorLost
           /\ execs'[e].state = "unused" => execs'[e] = execs[e]
<1>. /\ execs \in [Executions -> ExecutionRows]
     /\ execs[e] \in ExecutionRows
  BY DEF TypeOK
<1>. SUFFICES ASSUME execs'[e] # execs[e]
              PROVE  /\ \/ execs'[e].errorLost = execs[e].errorLost
                        \/ execs'[e].errorLost
                     /\ execs'[e].state # "unused"
  OBVIOUS
<1>. Next
  BY DEF vars
<1>1. CASE Owner
  <2>1. deleteMonitor
    BY <1>1 DEF Owner, createMonitor, updateMonitor, setMonitorEnabled
  <2>. QED BY <2>1 DEF deleteMonitor, ExecutionRows
<1>2. ASSUME NEW p \in Sweepers, Sweep(p)
      PROVE  /\ execs'[e].errorLost = execs[e].errorLost
             /\ execs'[e].state # "unused"
  <2>1. SweepCloseUnsent(p)
    BY <1>2 DEF Sweep, SweepSelect, SweepLostRace, SweepSend, SweepSendRejected
  <2>. QED BY <2>1 DEF SweepCloseUnsent, ExecutionRows
<1>3. ASSUME NEW p \in Consumers, Consume(p)
      PROVE  /\ \/ execs'[e].errorLost = execs[e].errorLost
                \/ execs'[e].errorLost
             /\ execs'[e].state # "unused"
  <2>. req[p] \in ConsumeJobs
    BY DEF TypeOK
  <2>1. CASE claimExecution(p)
    BY <2>1 DEF claimExecution, ExecutionRows
  <2>2. ASSUME NEW d, NEW r, recordedState(r) # "unused", recordState(d, r)
        PROVE  /\ execs'[e].errorLost = execs[e].errorLost
               /\ execs'[e].state # "unused"
    <3>. PICK w : w = recordedState(r)
      OBVIOUS
    <3>. QED BY <2>2 DEF recordState, ExecutionRows
  <2>3. CASE RecordInfraError(p)
    BY <2>2, <2>3 DEF RecordInfraError, recordedState
  <2>4. ASSUME req[p].pc = "record"
        PROVE  recordedState(req[p].result) # "unused"
    BY <2>4, ConsumeLocals, RecordedType DEF Settled
  <2>5. CASE recordExecutionResult(p)
    <3>1. req[p].pc = "record" /\ recordState(req[p].exec, req[p].result)
      BY <2>5 DEF recordExecutionResult, At
    <3>. QED BY <3>1, <2>2, <2>4
  <2>6. CASE RecordReplyLost(p)
    <3>. PICK w, d, lost :
              /\ w = recordedState(req[p].result) /\ d = req[p].exec
              /\ lost = (execs[d].errorLost \/ w = "error")
      OBVIOUS
    <3>1. w # "unused"
      BY <2>4, <2>6 DEF RecordReplyLost, At
    <3>2. \/ UNCHANGED execs
          \/ execs' = [execs EXCEPT ![d].state = w, ![d].errorLost = lost]
      BY <2>6 DEF RecordReplyLost
    <3>. QED BY <3>1, <3>2 DEF ExecutionRows
  <2>. QED BY <1>3, <2>1, <2>3, <2>5, <2>6
           DEF Consume, Deliver, LoadMonitor, Execute, ExecuteThrows,
               RecordThrows, SettleJob
<1>4. ASSUME NEW p \in Reapers, Reap(p)
      PROVE  /\ execs'[e].errorLost = execs[e].errorLost
             /\ execs'[e].state # "unused"
  BY <1>4 DEF Reap, ReapSelect, sweepStaleExecutions, ExecutionRows
<1>5. CASE Tick \/ \E p \in Procs : Throws(p)
  BY <1>5 DEF Tick, Throws
<1>. QED BY <1>1, <1>2, <1>3, <1>4, <1>5 DEF Next

LEMMA LostStep ==
    ASSUME TypeOK, OwnerInv, [Next]_vars
    PROVE  LostKept
<1>1. ASSUME NEW p \in Sweepers, NEW d \in Executions, SweepArm(p, d)
      PROVE  LostKept
  <2>1. execs[d].state = "unused" /\ ~execs[d].errorLost
    BY <1>1 DEF SweepArm, OwnerInv
  <2>2. /\ execs'[d].state = "queued"
        /\ \A e \in Executions \ {d} : execs'[e] = execs[e]
    BY <1>1 DEF SweepArm, TypeOK
  <2>. QED BY <2>1, <2>2 DEF LostKept, OwnerInv
<1>2. ASSUME \A p \in Sweepers, e \in Executions : ~SweepArm(p, e)
      PROVE  LostKept
  <2>1. \A e \in Executions :
           /\ execs'[e].errorLost = execs[e].errorLost \/ execs'[e].errorLost
           /\ execs'[e].state = "unused" => execs'[e] = execs[e]
    BY <1>2, RowWrites
  <2>. QED BY <2>1 DEF LostKept, OwnerInv
<1>. QED BY <1>1, <1>2

\* A step of another process that leaves the owned rows alone, or deletes
\* them.
LEMMA OwnedFrame ==
    ASSUME OwnerInv, LostKept,
           \A p \in Consumers : req'[p] \in {Idle, req[p]},
           \A p \in Consumers, e \in Executions :
              Owning(p, e) /\ ~execs[e].errorLost =>
                 \/ execs'[e] = execs[e]
                 \/ execs'[e].state = "deleted"
    PROVE  OwnerInv'
<1>1. \A p \in Consumers, e \in Executions :
         Owning(p, e)' => Owning(p, e) /\ req'[p] = req[p]
  BY DEF Owning, Idle
<1>2. \A e \in Executions : ~execs'[e].errorLost => ~execs[e].errorLost
  BY DEF LostKept
<1>3. \A p \in Consumers, e \in Executions :
         Owning(p, e)' /\ ~execs'[e].errorLost => OwnedRow(p, e)'
  BY <1>1, <1>2 DEF OwnerInv, OwnedRow, Settled
<1>4. \A p, q \in Consumers, e \in Executions :
         Owning(p, e)' /\ Owning(q, e)' /\ ~execs'[e].errorLost => p = q
  BY <1>1, <1>2 DEF OwnerInv
<1>. QED BY <1>3, <1>4 DEF OwnerInv, LostKept

\* A consumer that lets go of its execution may write the row, since it was
\* the only owner.
LEMMA OwnerLeaves ==
    ASSUME TypeOK, OwnerInv, LostKept,
           NEW p \in Consumers, NEW r, Goto(p, r),
           r.pc \notin {"execute", "record", "recordInfra"},
           \A e \in Executions : execs'[e] # execs[e] => Owning(p, e)
    PROVE  OwnerInv'
<1>. DOMAIN req = Procs /\ p \in Procs /\ Consumers \subseteq Procs
  BY DEF TypeOK, Procs
<1>1. \A q \in Consumers, e \in Executions :
         Owning(q, e)' => q # p /\ Owning(q, e) /\ req'[q] = req[q]
  BY GotoFrame DEF Owning
<1>2. \A q \in Consumers, e \in Executions :
         Owning(q, e)' /\ ~execs'[e].errorLost =>
            execs'[e] = execs[e] /\ ~execs[e].errorLost
  BY <1>1 DEF OwnerInv, LostKept
<1>3. \A q \in Consumers, e \in Executions :
         Owning(q, e)' /\ ~execs'[e].errorLost => OwnedRow(q, e)'
  BY <1>1, <1>2 DEF OwnerInv, OwnedRow
<1>4. \A o, q \in Consumers, e \in Executions :
         Owning(o, e)' /\ Owning(q, e)' /\ ~execs'[e].errorLost => o = q
  BY <1>1, <1>2 DEF OwnerInv
<1>. QED BY <1>3, <1>4 DEF OwnerInv, LostKept

\* An owner that keeps its execution.
LEMMA OwnerStays ==
    ASSUME TypeOK, OwnerInv, LostKept, NEW p \in Consumers,
           NEW e \in Executions, Owning(p, e),
           NEW r, Goto(p, r), r.exec = e, r.since = req[p].since,
           req[p].pc \in {"execute", "record"},
           r.pc \in {"record", "recordInfra"},
           \A d \in Executions \ {e} : execs'[d] = execs[d],
           \/ execs'[e] = execs[e]
           \/ /\ execs'[e].state \in Settled
              /\ r.pc = "recordInfra" /\ r.wrote = execs'[e].state
           \/ execs'[e].errorLost
    PROVE  OwnerInv'
<1>. DOMAIN req = Procs /\ p \in Procs /\ Consumers \subseteq Procs
  BY DEF TypeOK, Procs
<1>1. req'[p] = r /\ \A q \in Consumers \ {p} : req'[q] = req[q]
  BY GotoFrame
<1>2. \A q \in Consumers, d \in Executions : Owning(q, d)' <=> Owning(q, d)
  BY <1>1 DEF Owning
<1>3. \A d \in Executions : ~execs'[d].errorLost => ~execs[d].errorLost
  BY DEF LostKept
<1>4. ~execs'[e].errorLost => OwnedRow(p, e)'
  BY <1>1, <1>3 DEF OwnerInv, OwnedRow, Settled
<1>5. \A q \in Consumers, d \in Executions :
         q # p /\ Owning(q, d) /\ ~execs'[d].errorLost => d # e
  BY <1>3 DEF OwnerInv
<1>6. \A d \in Executions : Owning(p, d) => d = e
  BY DEF Owning
<1>7. \A q \in Consumers, d \in Executions :
         Owning(q, d) /\ ~execs'[d].errorLost => OwnedRow(q, d)'
  BY <1>1, <1>3, <1>4, <1>5, <1>6 DEF OwnerInv, OwnedRow
<1>. QED BY <1>2, <1>3, <1>7 DEF OwnerInv, LostKept

LEMMA OwnerSweep ==
    ASSUME TypeOK, OwnerInv, LostKept, NEW p \in Sweepers, Sweep(p)
    PROVE  OwnerInv'
<1>. p \in Procs /\ p \notin Consumers /\ DOMAIN req = Procs
     /\ Consumers \subseteq Procs
  BY ProcsDisjoint DEF Procs, TypeOK
<1>1. \A q \in Consumers : req'[q] = req[q]
  <2>1. \E r : Goto(p, r)
    BY DEF Sweep, SweepSelect, SweepArm, SweepLostRace, SweepSend,
           SweepSendRejected, SweepCloseUnsent
  <2>. QED BY <2>1, GotoFrame
<1>2. \A q \in Consumers, e \in Executions :
         Owning(q, e) /\ ~execs[e].errorLost => execs'[e] = execs[e]
  <2>. SUFFICES ASSUME NEW q \in Consumers, NEW e \in Executions,
                       Owning(q, e), ~execs[e].errorLost,
                       execs'[e] # execs[e]
                PROVE  FALSE
    OBVIOUS
  <2>1. execs[e].state \in {"running", "deleted"} \cup Settled
    BY DEF OwnerInv, OwnedRow
  <2>2. execs[e].state \notin {"unused", "queued"}
    BY <2>1 DEF Settled
  <2>3. ASSUME NEW d \in Executions, SweepArm(p, d) PROVE FALSE
    BY <2>2, <2>3 DEF SweepArm, TypeOK
  <2>4. CASE SweepCloseUnsent(p)
    BY <2>2, <2>4 DEF SweepCloseUnsent, TypeOK
  <2>. QED BY <2>3, <2>4 DEF Sweep, SweepSelect, SweepLostRace, SweepSend,
                             SweepSendRejected
<1>. QED BY <1>1, <1>2, OwnedFrame

\* A row that may be claimed has no owner.
LEMMA OwnerClaims ==
    ASSUME TypeOK, ClockInv, OwnerInv, LostKept, NEW p \in Consumers,
           claimExecution(p)
    PROVE  OwnerInv'
<1>. p \in Procs /\ DOMAIN req = Procs /\ Consumers \subseteq Procs
  BY DEF Procs, TypeOK
<1>1. req[p].pc = "claim" /\ req[p] \in ConsumeJobs
  BY DEF claimExecution, At, TypeOK
<1>. PICK e \in Executions : e = req[p].exec
  BY <1>1, ConsumeLocals
<1>. DEFINE r == [req[p] EXCEPT !.pc = "execute"]
<1>2. CASE execs[e].state \notin Claimable
  <2>1. Goto(p, Idle) /\ UNCHANGED execs
    BY <1>2 DEF claimExecution
  <2>2. Idle.pc = "idle"
    BY DEF Idle
  <2>. QED BY <2>1, <2>2, OwnerLeaves
<1>3. ASSUME execs[e].state \in Claimable
      PROVE  /\ execs'[e].state = "running"
             /\ execs'[e].startedAt = req[p].at
             /\ \A d \in Executions \ {e} : execs'[d] = execs[d]
             /\ ~execs'[e].errorLost =>
                   \A q \in Consumers : ~Owning(q, e)
  <2>1. /\ execs'[e].state = "running" /\ execs'[e].startedAt = req[p].at
        /\ \A d \in Executions \ {e} : execs'[d] = execs[d]
    BY <1>3 DEF claimExecution, TypeOK, ExecutionRows
  <2>2. ~execs'[e].errorLost => ~execs[e].errorLost
    BY DEF LostKept
  <2>3. ~execs[e].errorLost => \A q \in Consumers : ~Owning(q, e)
    BY <1>3 DEF OwnerInv, OwnedRow, Claimable, Settled
  <2>. QED BY <2>1, <2>2, <2>3
<1>4. CASE execs[e].state \in Claimable /\ Goto(p, Idle)
  <2>1. Idle.pc = "idle" /\ req'[p] = Idle
        /\ \A q \in Consumers \ {p} : req'[q] = req[q]
    BY <1>4, GotoFrame DEF Idle
  <2>2. \A q \in Consumers, d \in Executions :
           Owning(q, d)' /\ ~execs'[d].errorLost =>
              /\ Owning(q, d) /\ d # e
              /\ req'[q] = req[q] /\ execs'[d] = execs[d]
    BY <1>3, <1>4, <2>1 DEF Owning
  <2>3. \A q \in Consumers, d \in Executions :
           Owning(q, d)' /\ ~execs'[d].errorLost => OwnedRow(q, d)'
    BY <2>2 DEF OwnerInv, OwnedRow
  <2>4. \A q, o \in Consumers, d \in Executions :
           Owning(q, d)' /\ Owning(o, d)' /\ ~execs'[d].errorLost => o = q
    BY <2>2 DEF OwnerInv
  <2>. QED BY <2>3, <2>4 DEF OwnerInv, LostKept
<1>5. CASE execs[e].state \in Claimable /\ ~Goto(p, Idle)
  <2>1. r.pc = "execute" /\ r.exec = e /\ r.since = req[p].since
    BY <1>1 DEF ConsumeJobs
  <2>2. req'[p] = r /\ \A q \in Consumers \ {p} : req'[q] = req[q]
    BY <1>5, GotoFrame DEF claimExecution
  <2>4. req[p].since <= req[p].at
    BY <1>1 DEF ClockInv, Timely
  <2>. HIDE DEF r
  <2>6. \A q \in Consumers, d \in Executions :
           Owning(q, d)' /\ ~execs'[d].errorLost =>
              \/ q = p /\ d = e
              \/ /\ q # p /\ d # e /\ Owning(q, d)
                 /\ req'[q] = req[q] /\ execs'[d] = execs[d]
    BY <1>3, <1>5, <2>1, <2>2 DEF Owning
  <2>7. OwnedRow(p, e)'
    BY <1>3, <1>5, <2>1, <2>2, <2>4 DEF OwnedRow, Settled
  <2>9. \A q \in Consumers, d \in Executions :
           Owning(q, d)' /\ ~execs'[d].errorLost => OwnedRow(q, d)'
    BY <2>6, <2>7 DEF OwnerInv, OwnedRow
  <2>10. \A q, o \in Consumers, d \in Executions :
            Owning(q, d)' /\ Owning(o, d)' /\ ~execs'[d].errorLost => o = q
    BY <2>6 DEF OwnerInv
  <2>. QED BY <2>9, <2>10 DEF OwnerInv, LostKept
<1>. QED BY <1>2, <1>4, <1>5

LEMMA OwnerConsume ==
    ASSUME TypeOK, ClockInv, OwnerInv, LostKept,
           NEW p \in Consumers, Consume(p)
    PROVE  OwnerInv'
<1>. req[p] \in ConsumeJobs /\ Idle.pc = "idle"
  BY DEF TypeOK, Idle
<1>1. ASSUME NEW e \in Executions, Deliver(p, e) PROVE OwnerInv'
  <2>1. UNCHANGED execs
    BY <1>1 DEF Deliver
  <2>2. \/ UNCHANGED req
        \/ Goto(p, [pc |-> "load", since |-> now, exec |-> e])
    BY <1>1 DEF Deliver
  <2>3. UNCHANGED req => OwnerInv'
    BY <2>1 DEF OwnerInv, OwnedRow, Owning
  <2>. QED BY <2>1, <2>2, <2>3, OwnerLeaves
<1>2. CASE LoadMonitor(p)
  BY <1>2, OwnerLeaves DEF LoadMonitor
<1>3. CASE claimExecution(p)
  BY <1>3, OwnerClaims
<1>4. CASE Execute(p) \/ ExecuteThrows(p) \/ RecordThrows(p)
  <2>. DEFINE e == req[p].exec
  <2>1. /\ Owning(p, e) /\ e \in Executions
        /\ req[p].pc \in {"execute", "record"}
    BY <1>4, ConsumeLocals
       DEF Execute, ExecuteThrows, RecordThrows, At, Owning
  <2>2. UNCHANGED execs
    BY <1>4 DEF Execute, ExecuteThrows, RecordThrows
  <2>3. PICK r : /\ Goto(p, r) /\ r.exec = e /\ r.since = req[p].since
                 /\ r.pc \in {"record", "recordInfra"}
    <3>1. CASE ExecuteThrows(p) \/ RecordThrows(p)
      <4>. WITNESS [pc |-> "recordInfra", since |-> req[p].since, exec |-> e,
                    wrote |-> "nothing"]
      <4>. QED BY <3>1 DEF ExecuteThrows, RecordThrows
    <3>2. ASSUME NEW result,
                 Goto(p, [pc |-> "record", since |-> req[p].since,
                          exec |-> e, prevStatus |-> req[p].prevStatus,
                          result |-> result])
          PROVE  \E r : /\ Goto(p, r) /\ r.exec = e
                        /\ r.since = req[p].since
                        /\ r.pc \in {"record", "recordInfra"}
      <4>. WITNESS [pc |-> "record", since |-> req[p].since,
                    exec |-> e, prevStatus |-> req[p].prevStatus,
                    result |-> result]
      <4>. QED BY <3>2
    <3>. QED BY <1>4, <3>1, <3>2 DEF Execute
  <2>. HIDE DEF e
  <2>. QED BY <2>1, <2>2, <2>3, OwnerStays
<1>5. CASE RecordReplyLost(p)
  <2>. DEFINE e == req[p].exec
              w == recordedState(req[p].result)
              r == [pc |-> "recordInfra", since |-> req[p].since, exec |-> e,
                    wrote |-> w]
  <2>1. /\ Owning(p, e) /\ e \in Executions /\ req[p].pc = "record"
        /\ req[p].result \in Outcomes
    BY <1>5, ConsumeLocals DEF RecordReplyLost, At, Owning
  <2>2. w \in Settled \cup {"error"}
    BY <2>1, RecordedType
  <2>3. /\ Goto(p, r) /\ r.exec = e /\ r.since = req[p].since
        /\ r.pc = "recordInfra" /\ r.wrote = w
    BY <1>5 DEF RecordReplyLost
  <2>. DEFINE lost == execs[e].errorLost \/ w = "error"
  <2>4. \/ UNCHANGED execs
        \/ execs' = [execs EXCEPT ![e].state = w, ![e].errorLost = lost]
    BY <1>5 DEF RecordReplyLost
  <2>5. w = "error" => lost
    OBVIOUS
  <2>. HIDE DEF r, e, w, lost
  <2>6. /\ \/ execs'[e] = execs[e]
           \/ execs'[e].state \in Settled /\ execs'[e].state = w
           \/ execs'[e].errorLost
        /\ \A d \in Executions \ {e} : execs'[d] = execs[d]
    BY <2>1, <2>2, <2>4, <2>5 DEF TypeOK, ExecutionRows
  <2>. QED BY <2>1, <2>3, <2>6, OwnerStays
<1>6. CASE recordExecutionResult(p)
  <2>1. \A e \in Executions : execs'[e] # execs[e] => Owning(p, e)
    BY <1>6 DEF recordExecutionResult, recordState, At, Owning, TypeOK
  <2>. QED BY <1>6, <2>1, OwnerLeaves DEF recordExecutionResult
<1>7. CASE RecordInfraError(p)
  <2>1. \A e \in Executions : execs'[e] # execs[e] => Owning(p, e)
    BY <1>7 DEF RecordInfraError, recordState, At, Owning, TypeOK
  <2>. QED BY <1>7, <2>1, OwnerLeaves DEF RecordInfraError
<1>8. CASE SettleJob(p)
  BY <1>8, OwnerLeaves DEF SettleJob
<1>. QED BY <1>1, <1>2, <1>3, <1>4, <1>5, <1>6, <1>7, <1>8 DEF Consume

\* An owned row that runs is younger than any reaper's cutoff.
LEMMA OwnerReap ==
    ASSUME TypeOK, ClockInv, OwnerInv, LostKept, NEW p \in Reapers, Reap(p)
    PROVE  OwnerInv'
<1>. p \in Procs /\ p \notin Consumers /\ DOMAIN req = Procs
     /\ Consumers \subseteq Procs
  BY ProcsDisjoint DEF Procs, TypeOK
<1>1. \A q \in Consumers : req'[q] = req[q]
  <2>1. \E r : Goto(p, r)
    BY DEF Reap, ReapSelect, sweepStaleExecutions
  <2>. QED BY <2>1, GotoFrame
<1>2. \A q \in Consumers, e \in Executions :
         Owning(q, e) /\ ~execs[e].errorLost => execs'[e] = execs[e]
  <2>. SUFFICES ASSUME NEW q \in Consumers, NEW e \in Executions,
                       Owning(q, e), ~execs[e].errorLost,
                       execs'[e] # execs[e]
                PROVE  FALSE
    OBVIOUS
  <2>1. sweepStaleExecutions(p)
    BY DEF Reap, ReapSelect
  <2>2. staleExecutionsWhere(e, req[p].cutoff)
    BY <2>1 DEF sweepStaleExecutions
  <2>3. OwnedRow(q, e)
    BY DEF OwnerInv
  <2>4. /\ execs[e].state = "running"
        /\ execs[e].startedAt < req[p].cutoff
    BY <2>2, <2>3 DEF staleExecutionsWhere, OwnedRow, Settled
  <2>5. req[p].cutoff <= now - Stale /\ now <= req[q].since + MaxRun
    BY <2>1 DEF ClockInv, Timely, sweepStaleExecutions, At, Owning
  <2>6. req[q].since <= execs[e].startedAt
    BY <2>3, <2>4 DEF OwnedRow
  <2>7. /\ req[q].since \in Nat /\ now \in Nat
        /\ MaxRun \in Nat /\ Stale \in Nat
    BY SinceType DEF Owning
  <2>8. execs[e].startedAt \in Nat
    BY Bounds DEF TypeOK, ExecutionRows
  <2>9. req[p].cutoff \in Int
    BY <2>1, ReapLocals DEF sweepStaleExecutions, At, TypeOK
  <2>. QED BY <2>4, <2>5, <2>6, <2>7, <2>8, <2>9, StaleOutlivesRuns
<1>. QED BY <1>1, <1>2, OwnedFrame

LEMMA OwnerNext ==
    ASSUME TypeOK, ClockInv, OwnerInv, [Next]_vars
    PROVE  OwnerInv'
<1>. LostKept
  BY LostStep
<1>1. CASE UNCHANGED vars
  BY <1>1 DEF vars, OwnerInv, OwnedRow, Owning
<1>2. CASE Tick
  BY <1>2, OwnedFrame DEF Tick, Procs
<1>3. CASE Owner
  <2>1. UNCHANGED req
    BY <1>3 DEF Owner, createMonitor, updateMonitor, setMonitorEnabled,
                deleteMonitor
  <2>2. UNCHANGED execs \/ deleteMonitor
    BY <1>3 DEF Owner, createMonitor, updateMonitor, setMonitorEnabled
  <2>3. \A e \in Executions : \/ execs'[e] = execs[e]
                              \/ execs'[e].state = "deleted"
    BY <2>2 DEF deleteMonitor, TypeOK, ExecutionRows
  <2>. QED BY <2>1, <2>3, OwnedFrame
<1>4. ASSUME NEW p \in Procs, Throws(p) PROVE OwnerInv'
  <2>1. \A q \in Consumers : req'[q] \in {Idle, req[q]}
    BY <1>4, GotoFrame DEF Throws, TypeOK, Procs
  <2>. QED BY <1>4, <2>1, OwnedFrame DEF Throws
<1>. QED BY <1>1, <1>2, <1>3, <1>4, OwnerSweep, OwnerConsume, OwnerReap
         DEF Next

LEMMA OwnerAlways == Spec => [](TypeOK /\ ClockInv /\ OwnerInv)
<1>1. Init => OwnerInv
  BY DEF Init, OwnerInv, Owning, Idle, Procs
<1>2. TypeOK /\ ClockInv /\ OwnerInv /\ [Next]_vars => OwnerInv'
  BY OwnerNext
<1>. QED BY <1>1, <1>2, ClockAlways, PTL DEF Spec

\* One consumer at most runs an execution's check: the claim excludes the
\* others, and the reaper's window outlives the invocation that holds it.  The
\* only way out is an error that was both committed and reported as a failure.
THEOREM OneContainer == Spec => []OneContainerUnlessErrorLost
<1>1. OwnerInv => OneContainerUnlessErrorLost
  <2>1. \A p \in Consumers, e \in Executions : Holds(p, e) => Owning(p, e)
    BY DEF Owning, Holds
  <2>. QED BY <2>1 DEF OwnerInv, OneContainerUnlessErrorLost
<1>. QED BY <1>1, OwnerAlways, PTL

\* A row that has settled changes only with its monitor's deletion or by the
\* consumer that wrote what it shows.
LEMMA SettledStep ==
    ASSUME TypeOK, OwnerInv, Next, NEW e \in Executions,
           execs[e].state \in Settled, ~execs[e].errorLost
    PROVE  \/ execs'[e].state \in {execs[e].state, "deleted"}
           \/ \E p \in Consumers :
                 /\ RecordInfraError(p)
                 /\ req[p].exec = e
                 /\ req[p].wrote = execs[e].state
<1>. SUFFICES ASSUME execs'[e].state \notin {execs[e].state, "deleted"},
                     \A p \in Consumers :
                        ~(/\ RecordInfraError(p)
                          /\ req[p].exec = e
                          /\ req[p].wrote = execs[e].state)
              PROVE  FALSE
  OBVIOUS
<1>. execs[e].state \notin {"unused", "queued", "running", "error", "deleted"}
  BY DEF Settled
<1>1. CASE Tick \/ Owner \/ \E p \in Procs : Throws(p)
  <2>1. UNCHANGED execs \/ deleteMonitor
    BY <1>1 DEF Throws, Tick, Owner, createMonitor, updateMonitor, setMonitorEnabled
  <2>. QED BY <2>1 DEF deleteMonitor, TypeOK, ExecutionRows
<1>2. ASSUME NEW p \in Sweepers, Sweep(p) PROVE FALSE
  <2>1. ASSUME NEW d \in Executions, SweepArm(p, d) PROVE FALSE
    BY <2>1 DEF SweepArm, TypeOK
  <2>2. CASE SweepCloseUnsent(p)
    BY <2>2 DEF SweepCloseUnsent, TypeOK
  <2>. QED BY <1>2, <2>1, <2>2 DEF Sweep, SweepSelect, SweepLostRace,
                                   SweepSend, SweepSendRejected
<1>3. ASSUME NEW p \in Consumers, Consume(p) PROVE FALSE
  <2>1. CASE claimExecution(p)
    BY <2>1 DEF claimExecution, Claimable, TypeOK
  <2>2. CASE recordExecutionResult(p) \/ RecordReplyLost(p)
    <3>1. Owning(p, req[p].exec) /\ req[p].pc = "record"
      BY <2>2 DEF recordExecutionResult, RecordReplyLost, At, Owning
    <3>2. e # req[p].exec
      BY <3>1 DEF OwnerInv, OwnedRow
    <3>. QED BY <2>2, <3>2 DEF recordExecutionResult, RecordReplyLost,
                               recordState, TypeOK
  <2>3. CASE RecordInfraError(p)
    <3>1. Owning(p, req[p].exec)
      BY <2>3 DEF RecordInfraError, At, Owning
    <3>2. e # req[p].exec
      BY <2>3, <3>1 DEF OwnerInv, OwnedRow
    <3>. QED BY <2>3, <3>2 DEF RecordInfraError, recordState, TypeOK
  <2>. QED BY <1>3, <2>1, <2>2, <2>3
           DEF Consume, Deliver, LoadMonitor, Execute,
               ExecuteThrows, RecordThrows, SettleJob
<1>4. ASSUME NEW p \in Reapers, Reap(p) PROVE FALSE
  BY <1>4 DEF Reap, ReapSelect, sweepStaleExecutions, staleExecutionsWhere
<1>. QED BY <1>1, <1>2, <1>3, <1>4 DEF Next

\* A settled execution keeps its outcome against redeliveries, the reaper, a
\* failed send and every other consumer, unless an error of it was lost.
THEOREM SettledKept == Spec => OnlyItsOwnerResettles
<1>1. TypeOK /\ OwnerInv /\ [Next]_vars =>
         [\A e \in Executions :
            execs[e].state \in Settled /\ ~execs[e].errorLost =>
               \/ execs'[e].state \in {execs[e].state, "deleted"}
               \/ \E p \in Consumers :
                     /\ RecordInfraError(p)
                     /\ req[p].exec = e
                     /\ req[p].wrote = execs[e].state]_vars
  BY SettledStep
<1>. QED BY <1>1, OwnerAlways, PTL DEF Spec, OnlyItsOwnerResettles

-----------------------------------------------------------------------------
(* The cadence *)

\* The next run of an enabled monitor keeps the interval from the last one,
\* and a sweep whose re-arm would succeed has the monitor's interval.
CadenceInv ==
    /\ monitor.lastEnqueuedAt <= now
    /\ Live /\ monitor.enabled /\ monitor.lastEnqueuedAt > 0 =>
          monitor.nextRunAt
             >= monitor.lastEnqueuedAt + monitor.intervalSeconds - EditLag
    /\ \A p \in Sweepers :
          req[p].pc = "arm" =>
             /\ req[p].at <= now
             /\ monitorReArmCasWhere(req[p].at) =>
                   req[p].interval = monitor.intervalSeconds

LEMMA MonitorTypes ==
    ASSUME TypeOK
    PROVE  /\ now \in Nat /\ EditLag \in Nat
           /\ monitor.intervalSeconds \in Nat /\ monitor.nextRunAt \in Nat
           /\ monitor.lastEnqueuedAt \in Nat
           /\ \A p \in Sweepers : req[p].pc = "arm" =>
                 req[p].at \in Nat /\ req[p].interval \in Nat
BY Bounds, SweepLocals DEF TypeOK, MonitorRows

\* The columns the cadence reads, and the sweeps about to re-arm, are as they
\* were or fewer.
LEMMA CadenceFrame ==
    ASSUME TypeOK, CadenceInv, now' \in Nat, now' >= now,
           monitor'.state = monitor.state,
           monitor'.enabled = monitor.enabled,
           monitor'.intervalSeconds = monitor.intervalSeconds,
           monitor'.nextRunAt = monitor.nextRunAt,
           monitor'.lastEnqueuedAt = monitor.lastEnqueuedAt,
           \A p \in Sweepers : req'[p].pc = "arm" => req'[p] = req[p]
    PROVE  CadenceInv'
<1>. USE MonitorTypes
<1>1. \A p \in Sweepers : req'[p].pc = "arm" =>
         /\ req'[p].at <= now'
         /\ req[p].at \in Nat /\ req'[p] = req[p]
  BY DEF CadenceInv
<1>2. \A p \in Sweepers : req'[p].pc = "arm" =>
         (monitorReArmCasWhere(req[p].at)' <=> monitorReArmCasWhere(req[p].at))
  BY DEF monitorReArmCasWhere, Live
<1>. QED BY <1>1, <1>2 DEF CadenceInv, monitorReArmCasWhere, Live

\* Whoever edits a monitor defeats every re-arm that has not committed.
LEMMA CadenceOwner == TypeOK /\ CadenceInv /\ Owner => CadenceInv'
<1>. SUFFICES ASSUME TypeOK, CadenceInv, Owner PROVE CadenceInv'
  OBVIOUS
<1>. USE MonitorTypes
<1>1. CASE deleteMonitor
  <2>1. /\ monitor'.state = "deleted"
        /\ monitor'.lastEnqueuedAt = monitor.lastEnqueuedAt
        /\ UNCHANGED <<now, req>>
    BY <1>1 DEF deleteMonitor, TypeOK, MonitorRows
  <2>. QED BY <2>1 DEF CadenceInv, monitorReArmCasWhere, Live
<1>2. ASSUME NEW enabled \in BOOLEAN, NEW interval \in Intervals,
             NEW next \in Nat, UNCHANGED <<now, req>>,
             enabled => next >= now + interval - EditLag,
             monitor'.enabled = enabled,
             monitor'.intervalSeconds = interval,
             monitor'.nextRunAt = next,
             monitor'.lastEnqueuedAt \in {0, monitor.lastEnqueuedAt}
      PROVE  CadenceInv'
  <2>1. interval \in Nat /\ EditLag < interval
    BY IntervalsType
  <2>2. monitor'.lastEnqueuedAt \in Nat /\ monitor'.lastEnqueuedAt <= now
    BY <1>2 DEF CadenceInv
  <2>3. enabled => next >= monitor'.lastEnqueuedAt + interval - EditLag
    BY <1>2, <2>1, <2>2
  <2>4. enabled => next > now
    BY <1>2, <2>1
  <2>5. \A p \in Sweepers : req[p].pc = "arm" =>
           req[p].at <= now /\ ~(enabled /\ next <= req[p].at)
    BY <2>4 DEF CadenceInv
  <2>. QED BY <1>2, <2>2, <2>3, <2>5 DEF CadenceInv, monitorReArmCasWhere
<1>3. ASSUME NEW enabled \in BOOLEAN, NEW interval \in Intervals,
             createMonitor(enabled, interval)
      PROVE  CadenceInv'
  <2>. DEFINE next == IF enabled THEN now + interval ELSE 0
  <2>1. next \in Nat /\ (enabled => next >= now + interval - EditLag)
    BY IntervalsType
  <2>2. /\ monitor'.enabled = enabled
        /\ monitor'.intervalSeconds = interval
        /\ monitor'.nextRunAt = next
        /\ monitor'.lastEnqueuedAt = 0
        /\ UNCHANGED <<now, req>>
    BY <1>3 DEF createMonitor
  <2>. HIDE DEF next
  <2>. QED BY <1>2, <2>1, <2>2
<1>4. ASSUME NEW enabled \in BOOLEAN, NEW interval \in Intervals,
             updateMonitor(enabled, interval)
      PROVE  CadenceInv'
  <2>. PICK next \in Nat :
              /\ enabled => next >= now + interval - EditLag
              /\ monitor' = [monitor EXCEPT !.enabled = enabled,
                                            !.intervalSeconds = interval,
                                            !.nextRunAt = next]
    BY <1>4, EditForm, ZenonT(30)
  <2>1. /\ monitor'.enabled = enabled
        /\ monitor'.intervalSeconds = interval
        /\ monitor'.nextRunAt = next
        /\ monitor'.lastEnqueuedAt = monitor.lastEnqueuedAt
        /\ UNCHANGED <<now, req>>
    BY <1>4 DEF updateMonitor, TypeOK, MonitorRows
  <2>. QED BY <1>2, <2>1
<1>. QED BY <1>1, <1>3, <1>4, OwnerCases

\* A re-arm pushes the schedule by the monitor's interval, so that it only
\* makes the other sweeps' re-arms fail.
LEMMA CadenceArm ==
    ASSUME TypeOK, CadenceInv, NEW p \in Sweepers, NEW e \in Executions,
           SweepArm(p, e)
    PROVE  CadenceInv'
<1>. USE MonitorTypes
<1>. p \in Procs /\ Sweepers \subseteq Procs /\ DOMAIN req = Procs
  BY DEF Procs, TypeOK
<1>1. /\ req[p].pc = "arm" /\ monitorReArmCasWhere(req[p].at) /\ now' = now
  BY DEF SweepArm, At
<1>. DEFINE at == req[p].at
            next == req[p].at + req[p].interval
<1>2. /\ at \in Nat /\ at <= now /\ next \in Nat
      /\ next = at + monitor.intervalSeconds
      /\ monitor.nextRunAt <= at
  BY <1>1 DEF CadenceInv, monitorReArmCasWhere
<1>3. /\ req'[p].pc \in {"send", "idle"}
      /\ \A q \in Sweepers \ {p} : req'[q] = req[q]
  BY GotoFrame DEF SweepArm, Idle
<1>4. /\ monitor'.state = monitor.state
      /\ monitor'.enabled = monitor.enabled
      /\ monitor'.intervalSeconds = monitor.intervalSeconds
      /\ monitor'.nextRunAt = next /\ monitor'.lastEnqueuedAt = at
  BY DEF SweepArm, TypeOK, MonitorRows
<1>. HIDE DEF at, next
<1>5. ASSUME NEW q \in Sweepers, req'[q].pc = "arm"
      PROVE  /\ req'[q].at <= now'
             /\ monitorReArmCasWhere(req[q].at)' =>
                   req'[q].interval = monitor'.intervalSeconds
  <2>1. req'[q] = req[q]
    BY <1>3, <1>5
  <2>2. req[q].at \in Nat /\ req[q].at <= now
    BY <1>5, <2>1 DEF CadenceInv
  <2>3. monitorReArmCasWhere(req[q].at)' => monitorReArmCasWhere(req[q].at)
    BY <1>2, <1>4, <2>1, <2>2 DEF monitorReArmCasWhere, Live
  <2>. QED BY <1>1, <1>4, <1>5, <2>1, <2>2, <2>3 DEF CadenceInv
<1>6. next >= at + monitor.intervalSeconds - EditLag
  BY <1>2
<1>. QED BY <1>1, <1>2, <1>4, <1>5, <1>6
         DEF CadenceInv, monitorReArmCasWhere, Live

LEMMA CadenceNext == TypeOK /\ CadenceInv /\ [Next]_vars => CadenceInv'
<1>. SUFFICES ASSUME TypeOK, CadenceInv, [Next]_vars PROVE CadenceInv'
  OBVIOUS
<1>. now \in Nat /\ DOMAIN req = Procs
  BY Bounds DEF TypeOK
<1>1. CASE UNCHANGED vars
  BY <1>1, CadenceFrame DEF vars
<1>2. CASE Tick
  <2>1. \A p \in Sweepers : req'[p] \in {Idle, req[p]}
    BY <1>2 DEF Tick, Procs
  <2>2. now' = now + 1 /\ UNCHANGED monitor
    BY <1>2 DEF Tick
  <2>. QED BY <2>1, <2>2, CadenceFrame DEF Idle
<1>3. ASSUME NEW p \in Sweepers, NEW tick \in (now - MaxLag) .. now,
             SweepSelect(p, tick)
      PROVE  CadenceInv'
  <2>1. UNCHANGED <<now, monitor>>
    BY <1>3 DEF SweepSelect
  <2>2. /\ req'[p].at = tick /\ tick <= now
        /\ req'[p].interval = monitor.intervalSeconds
        /\ \A q \in Sweepers \ {p} : req'[q] = req[q]
    BY <1>3, GotoFrame, Bounds DEF SweepSelect, Procs
  <2>. QED BY <2>1, <2>2 DEF CadenceInv, monitorReArmCasWhere, Live
<1>4. ASSUME NEW p \in Sweepers,
             \/ SweepLostRace(p) \/ SweepSend(p) \/ SweepSendRejected(p)
             \/ SweepCloseUnsent(p)
      PROVE  CadenceInv'
  <2>1. UNCHANGED <<now, monitor>>
    BY <1>4 DEF SweepLostRace, SweepSend, SweepSendRejected, SweepCloseUnsent
  <2>2. req[p] \in SweepJobs
    BY DEF TypeOK
  <2>3. req'[p].pc # "arm" /\ \A q \in Sweepers \ {p} : req'[q] = req[q]
    BY <1>4, <2>2, GotoFrame DEF SweepLostRace, SweepSend, SweepSendRejected,
            SweepCloseUnsent, Procs, Idle, SweepJobs
  <2>. QED BY <2>1, <2>3, CadenceFrame
<1>5. ASSUME NEW p \in Consumers, Consume(p) PROVE CadenceInv'
  <2>1. /\ UNCHANGED now
        /\ monitor'.state = monitor.state
        /\ monitor'.enabled = monitor.enabled
        /\ monitor'.intervalSeconds = monitor.intervalSeconds
        /\ monitor'.nextRunAt = monitor.nextRunAt
        /\ monitor'.lastEnqueuedAt = monitor.lastEnqueuedAt
    BY <1>5 DEF Consume, Deliver, LoadMonitor, claimExecution, Execute,
                ExecuteThrows, recordExecutionResult, RecordThrows,
                RecordReplyLost, RecordInfraError, SettleJob,
                monitorBadgeUpdate, TypeOK,
                MonitorRows
  <2>2. UNCHANGED req \/ \E r : Goto(p, r)
    BY <1>5 DEF Consume, Deliver, LoadMonitor, claimExecution, Execute,
                ExecuteThrows, recordExecutionResult, RecordThrows,
                RecordReplyLost, RecordInfraError, SettleJob
  <2>3. \A q \in Sweepers : req'[q] = req[q]
    BY <2>2, GotoFrame, ProcsDisjoint DEF Procs
  <2>. QED BY <2>1, <2>3, CadenceFrame
<1>6. ASSUME NEW p \in Reapers, Reap(p) PROVE CadenceInv'
  <2>1. UNCHANGED <<now, monitor>> /\ \E r : Goto(p, r)
    BY <1>6 DEF Reap, ReapSelect, sweepStaleExecutions
  <2>2. \A q \in Sweepers : req'[q] = req[q]
    BY <2>1, GotoFrame, ProcsDisjoint DEF Procs
  <2>. QED BY <2>1, <2>2, CadenceFrame
<1>7. ASSUME NEW p \in Procs, Throws(p) PROVE CadenceInv'
  <2>1. \A q \in Sweepers : req'[q] \in {Idle, req[q]}
    BY <1>7, GotoFrame DEF Throws, Procs
  <2>. QED BY <1>7, <2>1, CadenceFrame DEF Throws, Idle
<1>. QED BY <1>1, <1>2, <1>3, <1>4, <1>5, <1>6, <1>7, CadenceOwner,
            CadenceArm
         DEF Next, Sweep

\* Only a re-arm enqueues a check, and it does so once the next run is due.
LEMMA CadenceStep ==
    ASSUME TypeOK, CadenceInv, Next, NEW e \in Executions,
           execs[e].state = "unused", execs'[e].state = "queued",
           monitor.lastEnqueuedAt > 0
    PROVE  execs'[e].createdAt - monitor.lastEnqueuedAt
             >= monitor.intervalSeconds - EditLag
<1>1. PICK p \in Sweepers, d \in Executions : SweepArm(p, d)
  <2>1. CASE Owner
    BY <2>1 DEF Owner, createMonitor, updateMonitor, setMonitorEnabled,
                deleteMonitor
  <2>2. ASSUME NEW p \in Sweepers, Sweep(p)
        PROVE  \E d \in Executions : SweepArm(p, d)
    BY <2>2 DEF Sweep, SweepSelect, SweepLostRace, SweepSend,
                SweepSendRejected, SweepCloseUnsent, TypeOK
  <2>3. ASSUME NEW p \in Consumers, Consume(p) PROVE FALSE
    BY <2>3 DEF Consume, Deliver, LoadMonitor, claimExecution, Claimable,
                Execute, ExecuteThrows, recordExecutionResult,
                RecordThrows, RecordReplyLost, RecordInfraError, recordState,
                NoRow, SettleJob, TypeOK
  <2>4. ASSUME NEW p \in Reapers, Reap(p) PROVE FALSE
    BY <2>4 DEF Reap, ReapSelect, sweepStaleExecutions, staleExecutionsWhere
  <2>5. CASE Tick \/ \E p \in Procs : Throws(p)
    BY <2>5 DEF Tick, Throws
  <2>. QED BY <2>1, <2>2, <2>3, <2>4, <2>5 DEF Next
<1>2. d = e /\ execs'[e].createdAt = req[p].at
  BY <1>1 DEF SweepArm, TypeOK
<1>3. /\ req[p].pc = "arm" /\ Live /\ monitor.enabled
      /\ monitor.nextRunAt <= req[p].at
  BY <1>1 DEF SweepArm, At, monitorReArmCasWhere
<1>. QED BY <1>2, <1>3, MonitorTypes DEF CadenceInv

\* Two checks of a monitor are never enqueued closer together than its
\* interval, up to the age of an edit's clock, whatever ticks overlap and
\* whatever the owner edits meanwhile.
THEOREM Cadence == Spec => CadenceKept
<1>1. Init => CadenceInv
  BY DEF Init, CadenceInv, Live, Idle, Procs
<1>2. TypeOK /\ CadenceInv /\ [Next]_vars =>
         [\A e \in Executions :
            execs[e].state = "unused" /\ execs'[e].state = "queued"
                /\ monitor.lastEnqueuedAt > 0 =>
              execs'[e].createdAt - monitor.lastEnqueuedAt
                  >= monitor.intervalSeconds - EditLag]_vars
  BY CadenceStep
<1>. QED BY <1>1, <1>2, CadenceNext, TypeCorrect, PTL DEF Spec, CadenceKept
=============================================================================
