--------------------------- MODULE RunIngestProofs ---------------------------
(***************************************************************************)
(* Theorems about RunIngest, for every number of tests, shards, handlers   *)
(* and sweepers, and every payload the constants admit.                    *)
(***************************************************************************)
EXTENDS RunIngest, FiniteSetTheorems, TLAPS

-----------------------------------------------------------------------------
(* The data operators *)

\* A recount is a natural number for every counter.
LEMMA RecountType ==
    ASSUME NEW table
    PROVE  Recount(table) \in [Counters -> Nat]
<1>1. ASSUME NEW c \in Counters
      PROVE  Cardinality({t \in Tests : Counted(table[t], c)}) \in Nat
  BY TestsFinite, FS_Subset, FS_CardinalityType
<1>. QED BY <1>1 DEF Recount

\* The difference /results adds to a counter is an integer.
LEMMA DeltaType ==
    ASSUME NEW D \in SUBSET Tests, NEW results, DOMAIN results = D, NEW prior
    PROVE  computeAggregateDelta(results, prior) \in [Counters -> Int]
<1>1. IsFiniteSet(D)
  BY TestsFinite, FS_Subset
<1>2. ASSUME NEW c \in Counters
      PROVE  /\ Cardinality({t \in D : Counted(results[t], c)}) \in Nat
             /\ Cardinality({t \in D : Counted(prior[t], c)}) \in Nat
  BY <1>1, FS_Subset, FS_CardinalityType
<1>. QED BY <1>2 DEF computeAggregateDelta

LEMMA CardinalityDisjoint ==
    ASSUME NEW S, NEW T, IsFiniteSet(S), IsFiniteSet(T), S \cap T = {}
    PROVE  Cardinality(S \cup T) = Cardinality(S) + Cardinality(T)
<1>1. Cardinality({}) = 0
  BY FS_EmptySet
<1>2. Cardinality(S) \in Nat /\ Cardinality(T) \in Nat
  BY FS_CardinalityType
<1>3. Cardinality(S \cup T)
        = Cardinality(S) + Cardinality(T) - Cardinality(S \cap T)
  BY FS_Union
<1>4. Cardinality(S \cap T) = 0
  BY <1>1, Zenon
<1>. QED BY <1>2, <1>3, <1>4

\* Moving the counters by the difference is the same as recounting the
\* rows after the upsert: the incremental path of /results and the
\* recompute path of /complete cannot disagree.
LEMMA DeltaIsExact ==
    ASSUME NEW D \in SUBSET Tests, NEW results, DOMAIN results = D,
           NEW table, NEW c \in Counters
    PROVE  Recount(Upsert(table, results))[c]
             = Recount(table)[c] + computeAggregateDelta(results, table)[c]
<1>. DEFINE Kept == {t \in Tests \ D : Counted(table[t], c)}
            Old  == {t \in D : Counted(table[t], c)}
            New  == {t \in D : Counted(results[t], c)}
<1>1. /\ IsFiniteSet(Kept) /\ IsFiniteSet(Old) /\ IsFiniteSet(New)
      /\ Cardinality(Kept) \in Nat
      /\ Cardinality(Old) \in Nat
      /\ Cardinality(New) \in Nat
  <2>1. Kept \in SUBSET Tests /\ Old \in SUBSET Tests /\ New \in SUBSET Tests
    OBVIOUS
  <2>. QED BY <2>1, TestsFinite, FS_Subset, FS_CardinalityType
<1>2. {t \in Tests : Counted(table[t], c)} = Kept \cup Old
  OBVIOUS
<1>3. {t \in Tests : Counted(Upsert(table, results)[t], c)} = Kept \cup New
  <2>1. \A t \in Tests : Upsert(table, results)[t]
                           = IF t \in D THEN results[t] ELSE table[t]
    BY DEF Upsert
  <2>. QED BY <2>1
<1>4. Kept \cap Old = {} /\ Kept \cap New = {}
  OBVIOUS
<1>5. /\ Cardinality(Kept \cup Old) = Cardinality(Kept) + Cardinality(Old)
      /\ Cardinality(Kept \cup New) = Cardinality(Kept) + Cardinality(New)
  BY <1>1, <1>4, CardinalityDisjoint
<1>. QED
  <2>1. Recount(table)[c] = Cardinality(Kept \cup Old)
    BY <1>2 DEF Recount
  <2>2. Recount(Upsert(table, results))[c] = Cardinality(Kept \cup New)
    BY <1>3 DEF Recount
  <2>3. computeAggregateDelta(results, table)[c]
          = Cardinality(New) - Cardinality(Old)
    BY DEF computeAggregateDelta
  <2>. HIDE DEF Kept, Old, New
  <2>. QED BY <1>1, <1>5, <2>1, <2>2, <2>3

\* A fresh run's counters agree with its prefilled rows: as many tests as
\* were planned, none of them in a bucket yet.
LEMMA PrefillIsExact ==
    ASSUME NEW plan \in Plans, NEW shard, NEW t
    PROVE  Recount(buildQueuePrefillStatements(plan))
             = buildRunInsertValues(plan, shard, t).counters
<1>. DEFINE table == buildQueuePrefillStatements(plan)
            Planned == {x \in Tests : \E i \in DOMAIN plan : plan[i] = x}
<1>1. plan \in Seq(Tests)
  BY PlansType
<1>2. Len(plan) \in Nat /\ DOMAIN plan = 1 .. Len(plan)
  BY <1>1
<1>3. \A x \in Tests : table[x] = IF x \in Planned THEN "queued" ELSE NoRow
  BY DEF buildQueuePrefillStatements
<1>4. Cardinality({x \in Tests : Counted(table[x], "totalTests")}) = Len(plan)
  <2>1. {x \in Tests : Counted(table[x], "totalTests")} = Planned
    BY <1>3 DEF Counted, NoRow
  <2>2. [i \in 1 .. Len(plan) |-> plan[i]] \in Bijection(1 .. Len(plan), Planned)
    <3>1. \A i \in 1 .. Len(plan) : plan[i] \in Planned
      BY <1>1, <1>2
    <3>2. \A i, j \in 1 .. Len(plan) : plan[i] = plan[j] => i = j
      BY <1>2, PlansDistinct
    <3>3. \A x \in Planned : \E i \in 1 .. Len(plan) : plan[i] = x
      BY <1>2
    <3>. HIDE DEF Planned
    <3>. QED BY <3>1, <3>2, <3>3 DEF Bijection, Injection, Surjection, IsInjective
  <2>3. ExistsBijection(1 .. Len(plan), Planned)
    BY <2>2 DEF ExistsBijection
  <2>. QED BY <1>2, <2>1, <2>3, FS_CountingElements
<1>5. ASSUME NEW c \in Counters \ {"totalTests"}
      PROVE  Cardinality({x \in Tests : Counted(table[x], c)}) = 0
  <2>1. {x \in Tests : Counted(table[x], c)} = {}
    BY <1>3 DEF Counted, statusBucket, Counters, NoRow
  <2>. QED BY <2>1, FS_EmptySet
<1>. QED
  BY <1>4, <1>5 DEF Recount, buildRunInsertValues

-----------------------------------------------------------------------------
(* Type correctness *)

\* Merging two statuses yields one of them.
LEMMA MergeType ==
    ASSUME NEW current \in RunStatuses, NEW incoming \in TERMINAL_RUN_STATUSES
    PROVE  mergeRunStatus(current, incoming) \in RunStatuses
BY DEF mergeRunStatus, RunStatuses

\* A process that moves to a control point its kind allows stays well-typed.
LEMMA GotoType ==
    ASSUME TypeOK, NEW p, NEW r, Goto(p, r),
           \/ p \in Handlers /\ r \in Requests
           \/ p \in Sweepers /\ r \in SweepRequests
    PROVE  /\ DOMAIN req' = Procs
           /\ \A q \in Handlers : req'[q] \in Requests
           /\ \A q \in Sweepers : req'[q] \in SweepRequests
BY ProcsDisjoint DEF TypeOK, Goto, Procs

LEMMA TypeInit == Init => TypeOK
<1>. SUFFICES ASSUME Init PROVE TypeOK
  OBVIOUS
<1>1. now \in Times /\ crashes \in 0 .. MaxCrashes /\ 0 \in Times
  BY BoundsType DEF Init, Times
<1>2. run \in [status : RunStatuses, counters : [Counters -> Int],
             expectedShards : Nat, completedAt : Times, lastActivityAt : Times]
  BY <1>1 DEF Init, RunStatuses
<1>3. /\ rows \in [Tests -> RowStatuses \cup {NoRow}]
      /\ shardRows \in [ShardIds -> [status : TERMINAL_RUN_STATUSES \cup {NoRow},
                                    completedAt : Times]]
  BY <1>1 DEF Init
<1>4. Idle \in Requests /\ Idle \in SweepRequests
  BY DEF Idle, Requests, SweepRequests
<1>5. /\ DOMAIN req = Procs
      /\ \A p \in Handlers : req[p] \in Requests
      /\ \A p \in Sweepers : req[p] \in SweepRequests
  BY <1>4 DEF Init, Procs
<1>6. room \in RunStatuses
  BY DEF Init, RunStatuses
<1>. QED BY <1>1, <1>2, <1>3, <1>5, <1>6 DEF TypeOK

\* What a local record must be at each control point of a handler.
LEMMA HandlerLocals ==
    ASSUME NEW r \in Requests
    PROVE  /\ r.pc \in {"insert", "recover"} =>
                 r.at \in Times /\ r.plan \in Plans /\ r.shard \in ShardInputs
                 /\ r = [pc |-> r.pc, at |-> r.at,
                         plan |-> r.plan, shard |-> r.shard]
           /\ r.pc = "reopen" => r.at \in Times /\ r.shard \in ShardInputs
           /\ r.pc = "append" =>
                 /\ r.at \in Times
                 /\ DOMAIN r.results \in SUBSET Tests
                 /\ r.results \in [DOMAIN r.results -> WireStatuses]
           /\ r.pc \in {"complete", "completeShard"} =>
                 /\ r.at \in Times
                 /\ r.status \in CompleteStatuses
                 /\ r.shard \in ShardInputs
                 /\ r.expected \in Nat
           /\ r.pc = "publish" => r.summary \in RunStatuses
BY DEF Requests

LEMMA SweeperLocals ==
    ASSUME NEW r \in SweepRequests
    PROVE  /\ r.pc = "readShards" => r.at \in Times
           /\ r.pc = "flip" => r.at \in Times
                               /\ r.status \in TERMINAL_RUN_STATUSES
           /\ r.pc = "rewrite" => r.counters \in [Counters -> Int]
           /\ r.pc = "publish" => r.summary \in RunStatuses
BY DEF SweepRequests

\* A shard's coordinates have natural numbers, and its total is the number
\* the run is to wait for.
LEMMA ShardType ==
    ASSUME NEW s \in ShardInputs
    PROVE  /\ s.total \in Nat
           /\ s # NoShard => s.index \in ShardIds
BY ShardsType DEF NoShard, ShardIds

\* Every request a handler may move to, as one fact per control point.
LEMMA RequestForms ==
    /\ Idle \in Requests /\ Idle \in SweepRequests
    /\ \A t \in Times, plan \in Plans, s \in ShardInputs,
          l \in {"insert", "recover"} :
          [pc |-> l, at |-> t, plan |-> plan, shard |-> s] \in Requests
    /\ \A t \in Times, s \in ShardInputs :
          [pc |-> "reopen", at |-> t, shard |-> s] \in Requests
    /\ \A t \in Times, D \in SUBSET Tests : \A f \in [D -> WireStatuses] :
          [pc |-> "append", at |-> t, results |-> f] \in Requests
    /\ \A t \in Times, v \in CompleteStatuses, s \in ShardInputs, n \in Nat,
          l \in {"complete", "completeShard"} :
          [pc |-> l, at |-> t, status |-> v, shard |-> s, expected |-> n]
             \in Requests
    /\ \A v \in RunStatuses :
          Publishing(v) \in Requests /\ Publishing(v) \in SweepRequests
    /\ \A t \in Times : [pc |-> "readShards", at |-> t] \in SweepRequests
    /\ \A t \in Times, v \in TERMINAL_RUN_STATUSES :
          [pc |-> "flip", at |-> t, status |-> v] \in SweepRequests
    /\ [pc |-> "recount"] \in SweepRequests
    /\ \A f \in [Counters -> Int] :
          [pc |-> "rewrite", counters |-> f] \in SweepRequests
BY DEF Idle, Requests, SweepRequests, Publishing

\* Recording a shard keeps the table of reports well-typed.
LEMMA ReportsType ==
    ASSUME NEW s \in ShardInputs, NEW v \in TERMINAL_RUN_STATUSES,
           NEW t \in Times,
           shardRows \in [ShardIds -> [status : TERMINAL_RUN_STATUSES \cup {NoRow},
                                      completedAt : Times]]
    PROVE  recordShard(s, v, t)
             \in [ShardIds -> [status : TERMINAL_RUN_STATUSES \cup {NoRow},
                              completedAt : Times]]
BY ShardType DEF recordShard

\* A shard's completion leaves the status alone or merges a terminal status
\* into it.
LEMMA VerdictIsMerge ==
    ASSUME NEW reports, NEW n,
           reports \in [ShardIds -> [status : TERMINAL_RUN_STATUSES \cup {NoRow},
                                    completedAt : Times]],
           NEW verdict \in ShardVerdicts(reports, n)
    PROVE  \/ verdict = run.status
           \/ \E s \in TERMINAL_RUN_STATUSES :
                 verdict = mergeRunStatus(run.status, s)
<1>1. StatusesOf(reports) \subseteq TERMINAL_RUN_STATUSES
  BY DEF StatusesOf, Reported
<1>. QED BY <1>1 DEF ShardVerdicts, worstShardStatus

LEMMA VerdictType ==
    ASSUME NEW reports, NEW n, run.status \in RunStatuses,
           reports \in [ShardIds -> [status : TERMINAL_RUN_STATUSES \cup {NoRow},
                                    completedAt : Times]],
           NEW verdict \in ShardVerdicts(reports, n)
    PROVE  verdict \in RunStatuses
BY VerdictIsMerge, MergeType

LEMMA ResolveType ==
    ASSUME TypeOK, NEW p \in Handlers, NEW t \in Times,
           NEW s \in ShardInputs, ResolveExisting(p, t, s)
    PROVE  \E r \in Requests : Goto(p, r)
BY RequestForms DEF ResolveExisting

LEMMA HandlerTypeStep ==
    ASSUME TypeOK, NEW p \in Handlers, Handler(p)
    PROVE  TypeOK'
<1>. USE DEF At
<1>1. req[p] \in Requests /\ now \in Times
  BY DEF TypeOK
<1>2. ASSUME NEW r \in Requests, Goto(p, r),
             UNCHANGED <<now, run, rows, shardRows, room, crashes>>
      PROVE  TypeOK'
  BY <1>2, GotoType DEF TypeOK
<1>3. ASSUME NEW plan \in Plans, NEW s \in ShardInputs, OpenProbe(p, plan, s)
      PROVE  TypeOK'
  <2>1. \E r \in Requests : Goto(p, r)
    BY <1>1, <1>3, ResolveType, RequestForms DEF OpenProbe
  <2>. QED BY <1>2, <1>3, <2>1 DEF OpenProbe
<1>4. CASE OpenInsert(p)
  <2>1. /\ req[p].at \in Times
        /\ req[p].plan \in Plans
        /\ req[p].shard \in ShardInputs
    BY <1>1, <1>4, HandlerLocals DEF OpenInsert
  <2>2. Len(req[p].plan) \in Nat /\ req[p].shard.total \in Nat
    BY <2>1, PlansType, ShardType
  <2>3. run' \in [status : RunStatuses, counters : [Counters -> Int],
                expectedShards : Nat, completedAt : Times,
                lastActivityAt : Times]
    <3>1. [c \in Counters |-> IF c = "totalTests" THEN Len(req[p].plan) ELSE 0]
            \in [Counters -> Int]
      BY <2>2
    <3>2. "running" \in RunStatuses /\ 0 \in Times
      BY BoundsType DEF RunStatuses, Times
    <3>. QED BY <1>4, <2>1, <2>2, <3>1, <3>2 DEF OpenInsert, buildRunInsertValues
  <2>4. rows' \in [Tests -> RowStatuses \cup {NoRow}]
    BY <1>4 DEF OpenInsert, buildQueuePrefillStatements, RowStatuses
  <2>5. Publishing("running") \in Requests
    BY RequestForms DEF RunStatuses
  <2>. QED BY <1>4, <2>3, <2>4, <2>5, GotoType DEF OpenInsert, TypeOK
<1>5. CASE OpenOverQuota(p)
  BY <1>2, <1>5, RequestForms DEF OpenOverQuota
<1>6. CASE OpenLostRace(p)
  <2>1. /\ req[p].at \in Times
        /\ req[p].plan \in Plans
        /\ req[p].shard \in ShardInputs
        /\ req[p] = [pc |-> "insert", at |-> req[p].at,
                     plan |-> req[p].plan, shard |-> req[p].shard]
    BY <1>1, <1>6, HandlerLocals DEF OpenLostRace
  <2>2. [req[p] EXCEPT !.pc = "recover"]
          = [pc |-> "recover", at |-> req[p].at,
             plan |-> req[p].plan, shard |-> req[p].shard]
    BY <2>1
  <2>3. [req[p] EXCEPT !.pc = "recover"] \in Requests
    BY <2>1, <2>2, RequestForms
  <2>. QED BY <1>2, <1>6, <2>3 DEF OpenLostRace
<1>7. CASE OpenRecover(p)
  <2>1. req[p].at \in Times /\ req[p].shard \in ShardInputs
    BY <1>1, <1>7, HandlerLocals DEF OpenRecover
  <2>2. \E r \in Requests : Goto(p, r)
    BY <1>7, <2>1, ResolveType DEF OpenRecover
  <2>. QED BY <1>2, <1>7, <2>2 DEF OpenRecover
<1>8. CASE reopenRunForWrites(p)
  <2>1. req[p].at \in Times /\ req[p].shard.total \in Nat
    BY <1>1, <1>8, HandlerLocals, ShardType DEF reopenRunForWrites
  <2>2. run' \in [status : RunStatuses, counters : [Counters -> Int],
                expectedShards : Nat, completedAt : Times,
                lastActivityAt : Times]
    BY <1>8, <2>1 DEF reopenRunForWrites, TypeOK
  <2>. QED BY <1>8, <2>2, RequestForms, GotoType DEF reopenRunForWrites, TypeOK
<1>9. ASSUME NEW batch \in Batches, AppendGuard(p, batch)
      PROVE  TypeOK'
  <2>1. \A f \in dedupeResultsByTestId(batch) :
          [pc |-> "append", at |-> now, results |-> f] \in Requests
    <3>. DEFINE Entry == [testId : Tests, status : WireStatuses]
    <3>1. batch \in Seq(Entry)
      BY BatchesType
    <3>2. {batch[i].testId : i \in DOMAIN batch} \in SUBSET Tests
      <4>1. \A i \in DOMAIN batch : batch[i] \in Entry
        <5>. HIDE DEF Entry
        <5>. QED BY <3>1
      <4>. QED BY <4>1
    <3>. QED BY <1>1, <3>2, RequestForms DEF dedupeResultsByTestId
  <2>2. \E r \in Requests : Goto(p, r)
    BY <1>9, <2>1, RequestForms DEF AppendGuard
  <2>. QED BY <1>2, <1>9, <2>2 DEF AppendGuard
<1>10. CASE AppendOverCap(p)
  BY <1>2, <1>10, RequestForms DEF AppendOverCap
<1>11. CASE AppendCommit(p)
  <2>1. /\ req[p].at \in Times
        /\ DOMAIN req[p].results \in SUBSET Tests
        /\ req[p].results \in [DOMAIN req[p].results -> WireStatuses]
    BY <1>1, <1>11, HandlerLocals DEF AppendCommit
  <2>. DEFINE delta == computeAggregateDelta(req[p].results, rows)
  <2>2. delta \in [Counters -> Int]
    BY <2>1, DeltaType
  <2>3. [c \in Counters |-> run.counters[c] + delta[c]] \in [Counters -> Int]
    <3>. HIDE DEF delta
    <3>. QED BY <2>2 DEF TypeOK
  <2>4. run' \in [status : RunStatuses, counters : [Counters -> Int],
                expectedShards : Nat, completedAt : Times,
                lastActivityAt : Times]
    <3>1. run' = [run EXCEPT
                   !.counters = [c \in Counters |-> run.counters[c] + delta[c]],
                   !.lastActivityAt = req[p].at]
      BY <1>11 DEF AppendCommit
    <3>. HIDE DEF delta
    <3>. QED BY <2>1, <2>3, <3>1 DEF TypeOK
  <2>5. rows' \in [Tests -> RowStatuses \cup {NoRow}]
    BY <1>11, <2>1 DEF AppendCommit, Upsert, RowStatuses, TypeOK
  <2>6. Publishing(run.status) \in Requests
    BY RequestForms DEF TypeOK
  <2>. QED BY <1>11, <2>4, <2>5, <2>6, GotoType DEF AppendCommit, TypeOK
<1>12. ASSUME NEW v \in CompleteStatuses, NEW s \in ShardInputs,
              CompleteGuard(p, v, s)
       PROVE  TypeOK'
  <2>1. run.expectedShards \in Nat /\ s.total \in Nat
    BY ShardType DEF TypeOK
  <2>2. \E r \in Requests : Goto(p, r)
    BY <1>1, <1>12, <2>1, RequestForms DEF CompleteGuard
  <2>. QED BY <1>2, <1>12, <2>2 DEF CompleteGuard
<1>13. CASE CompleteCommit(p)
  <2>. DEFINE merged == mergeRunStatus(run.status, req[p].status)
  <2>1. req[p].at \in Times /\ req[p].status \in TERMINAL_RUN_STATUSES
    BY <1>1, <1>13, HandlerLocals, StatusesType DEF CompleteCommit
  <2>2. merged \in RunStatuses
    BY <2>1, MergeType DEF TypeOK
  <2>3. MaxOf(run.completedAt, req[p].at) \in Times
    BY <2>1 DEF MaxOf, TypeOK
  <2>4. Recount(rows) \in [Counters -> Int]
    BY RecountType
  <2>5. run' \in [status : RunStatuses, counters : [Counters -> Int],
                expectedShards : Nat, completedAt : Times,
                lastActivityAt : Times]
    <3>. HIDE DEF merged
    <3>1. run' = [run EXCEPT
                   !.status = merged,
                   !.completedAt = MaxOf(run.completedAt, req[p].at),
                   !.lastActivityAt = req[p].at,
                   !.counters = Recount(rows)]
      BY <1>13 DEF CompleteCommit, merged
    <3>. QED BY <2>1, <2>2, <2>3, <2>4, <3>1 DEF TypeOK
  <2>6. Publishing(merged) \in Requests /\ Goto(p, Publishing(merged))
    BY <1>13, <2>2, RequestForms DEF CompleteCommit
  <2>. QED BY <1>13, <2>5, <2>6, GotoType DEF CompleteCommit, TypeOK
<1>14. CASE completeShardedRun(p)
  <2>. DEFINE r == req[p]
              reports == recordShard(r.shard, r.status, r.at)
  <2>1. /\ r.at \in Times /\ r.status \in TERMINAL_RUN_STATUSES
        /\ r.shard \in ShardInputs /\ r.expected \in Nat
    BY <1>1, <1>14, HandlerLocals, StatusesType DEF completeShardedRun
  <2>2. reports \in [ShardIds -> [status : TERMINAL_RUN_STATUSES \cup {NoRow},
                                 completedAt : Times]]
    BY <2>1, ReportsType DEF TypeOK
  <2>. HIDE DEF reports
  <2>3. PICK verdict \in ShardVerdicts(reports, r.expected),
             latest \in LatestCompletion(reports, r.at) :
          /\ run' = [run EXCEPT
                      !.status = verdict,
                      !.completedAt =
                         IF Cardinality(Reported(reports)) >= r.expected
                         THEN latest ELSE @,
                      !.expectedShards =
                         IF Cardinality(Reported(reports)) >= r.expected
                         THEN r.expected ELSE @,
                      !.lastActivityAt = r.at,
                      !.counters = Recount(rows)]
          /\ Goto(p, Publishing(verdict))
    BY <1>14 DEF completeShardedRun, reports
  <2>4. verdict \in RunStatuses
    BY <2>2, VerdictType DEF TypeOK
  <2>5. latest \in Times
    BY <2>1, <2>2 DEF LatestCompletion, Reported
  <2>6. run' \in [status : RunStatuses, counters : [Counters -> Int],
                expectedShards : Nat, completedAt : Times,
                lastActivityAt : Times]
    <3>1. Recount(rows) \in [Counters -> Int]
      BY RecountType
    <3>. QED BY <2>1, <2>3, <2>4, <2>5, <3>1 DEF TypeOK
  <2>7. shardRows' = reports
    BY <1>14 DEF completeShardedRun, reports
  <2>8. Publishing(verdict) \in Requests
    BY <2>4, RequestForms
  <2>. QED
    BY <1>14, <2>2, <2>3, <2>6, <2>7, <2>8, GotoType
    DEF completeShardedRun, TypeOK
<1>15. CASE broadcastRunUpdate(p)
  <2>1. req[p].summary \in RunStatuses
    BY <1>1, <1>15, HandlerLocals DEF broadcastRunUpdate
  <2>. QED
    BY <1>15, <2>1, RequestForms, GotoType DEF broadcastRunUpdate, TypeOK
<1>. QED
  BY <1>3, <1>4, <1>5, <1>6, <1>7, <1>8, <1>9, <1>10, <1>11, <1>12, <1>13,
     <1>14, <1>15 DEF Handler

LEMMA SweepTypeStep ==
    ASSUME TypeOK, NEW p \in Sweepers, Sweep(p)
    PROVE  TypeOK'
<1>. USE DEF At
<1>1. req[p] \in SweepRequests /\ now \in Times
  BY DEF TypeOK
<1>2. ASSUME NEW r \in SweepRequests, Goto(p, r),
             UNCHANGED <<now, run, rows, shardRows, room, crashes>>
      PROVE  TypeOK'
  BY <1>2, GotoType DEF TypeOK
<1>3. CASE sweepStaleRuns(p)
  BY <1>1, <1>2, <1>3, RequestForms DEF sweepStaleRuns
<1>4. CASE SweepReadShards(p)
  <2>1. req[p].at \in Times
    BY <1>1, <1>4, SweeperLocals DEF SweepReadShards
  <2>2. worstShardStatus(StatusesOf(shardRows) \cup {"interrupted"})
          \subseteq TERMINAL_RUN_STATUSES
    <3>1. StatusesOf(shardRows) \subseteq TERMINAL_RUN_STATUSES
      BY DEF StatusesOf, Reported, TypeOK
    <3>. QED BY <3>1 DEF worstShardStatus, TERMINAL_RUN_STATUSES
  <2>3. \E r \in SweepRequests : Goto(p, r)
    BY <1>4, <2>1, <2>2, RequestForms DEF SweepReadShards
  <2>. QED BY <1>2, <1>4, <2>3 DEF SweepReadShards
<1>5. CASE SweepFlip(p)
  <2>1. req[p].at \in Times /\ req[p].status \in RunStatuses
    BY <1>1, <1>5, SweeperLocals DEF SweepFlip, RunStatuses
  <2>2. Recount(rows) \in [Counters -> Int]
    BY RecountType
  <2>3. run' \in [status : RunStatuses, counters : [Counters -> Int],
                expectedShards : Nat, completedAt : Times,
                lastActivityAt : Times]
    BY <1>5, <2>1, <2>2 DEF SweepFlip, TypeOK
  <2>4. Publishing(req[p].status) \in SweepRequests
    BY <2>1, RequestForms
  <2>. QED BY <1>5, <2>3, <2>4, GotoType DEF SweepFlip, TypeOK
<1>6. CASE SweepMiss(p)
  BY <1>2, <1>6, RequestForms DEF SweepMiss
<1>7. CASE SweepRecount(p)
  <2>1. Recount(rows) \in [Counters -> Int]
    BY RecountType
  <2>2. [pc |-> "rewrite", counters |-> Recount(rows)] \in SweepRequests
    BY <2>1, RequestForms
  <2>. QED BY <1>2, <1>7, <2>2 DEF SweepRecount
<1>8. CASE SweepRewrite(p)
  <2>1. req[p].counters \in [Counters -> Int]
    BY <1>1, <1>8, SweeperLocals DEF SweepRewrite
  <2>. QED BY <1>8, <2>1, RequestForms, GotoType DEF SweepRewrite, TypeOK
<1>9. CASE broadcastRunUpdate(p)
  <2>1. req[p].summary \in RunStatuses
    BY <1>1, <1>9, SweeperLocals DEF broadcastRunUpdate
  <2>. QED
    BY <1>9, <2>1, RequestForms, GotoType DEF broadcastRunUpdate, TypeOK
<1>. QED
  BY <1>3, <1>4, <1>5, <1>6, <1>7, <1>8, <1>9 DEF Sweep

LEMMA TypeStep == TypeOK /\ [Next]_vars => TypeOK'
<1>. SUFFICES ASSUME TypeOK, [Next]_vars PROVE TypeOK'
  OBVIOUS
<1>1. CASE Tick
  <2>1. now' \in Times
    BY <1>1, BoundsType DEF Tick, TypeOK, Times
  <2>. QED BY <1>1, <2>1 DEF Tick, TypeOK
<1>2. ASSUME NEW p \in Handlers, Handler(p) PROVE TypeOK'
  BY <1>2, HandlerTypeStep
<1>3. ASSUME NEW p \in Sweepers, Sweep(p) PROVE TypeOK'
  BY <1>3, SweepTypeStep
<1>4. ASSUME NEW p \in Procs, Crash(p) PROVE TypeOK'
  <2>1. crashes' \in 0 .. MaxCrashes
    BY <1>4, BoundsType DEF Crash, TypeOK
  <2>2. Idle \in Requests /\ Idle \in SweepRequests
    BY RequestForms
  <2>. QED BY <1>4, <2>1, <2>2, GotoType DEF Crash, TypeOK, Procs
<1>5. CASE UNCHANGED vars
  BY <1>5 DEF vars, TypeOK
<1>. QED BY <1>1, <1>2, <1>3, <1>4, <1>5 DEF Next

\* Type correctness of the pipeline, for every instance.
THEOREM TypeCorrect == Spec => []TypeOK
BY TypeInit, TypeStep, PTL DEF Spec

-----------------------------------------------------------------------------
(* A verdict only gets worse *)

\* Merging a terminal status leaves the status as it is or makes it worse.
LEMMA MergeWorsens ==
    ASSUME NEW current \in RunStatuses, NEW incoming \in TERMINAL_RUN_STATUSES
    PROVE  LET merged == mergeRunStatus(current, incoming)
           IN  merged = current \/ Rank(current) < Rank(merged)
BY DEF mergeRunStatus, runStatusSeverity, Rank, RunStatuses,
       TERMINAL_RUN_STATUSES, Absent

\* The seven steps that write the runs row.
LEMMA RunWriters ==
    ASSUME [Next]_vars
    PROVE  \/ UNCHANGED run
           \/ \E p \in Handlers : \/ OpenInsert(p) \/ reopenRunForWrites(p)
                                  \/ AppendCommit(p) \/ CompleteCommit(p)
                                  \/ completeShardedRun(p)
           \/ \E p \in Sweepers : SweepFlip(p) \/ SweepRewrite(p)
<1>1. CASE Tick
  BY <1>1 DEF Tick
<1>2. ASSUME NEW p \in Handlers, Handler(p)
      PROVE  \/ UNCHANGED run
             \/ OpenInsert(p) \/ reopenRunForWrites(p) \/ AppendCommit(p)
             \/ CompleteCommit(p) \/ completeShardedRun(p)
  BY <1>2 DEF Handler, OpenProbe, OpenOverQuota, OpenLostRace, OpenRecover,
     AppendGuard, AppendOverCap, CompleteGuard, broadcastRunUpdate
<1>3. ASSUME NEW p \in Sweepers, Sweep(p)
      PROVE  UNCHANGED run \/ SweepFlip(p) \/ SweepRewrite(p)
  BY <1>3 DEF Sweep, sweepStaleRuns, SweepReadShards, SweepMiss, SweepRecount,
     broadcastRunUpdate
<1>4. ASSUME NEW p \in Procs, Crash(p) PROVE UNCHANGED run
  BY <1>4 DEF Crash
<1>5. CASE UNCHANGED vars
  BY <1>5 DEF vars
<1>. QED BY <1>1, <1>2, <1>3, <1>4, <1>5 DEF Next

\* Result rows are written by the opening insert and by /results only.
LEMMA RowWriters ==
    ASSUME [Next]_vars
    PROVE  \/ UNCHANGED rows
           \/ \E p \in Handlers : OpenInsert(p) \/ AppendCommit(p)
<1>1. CASE Tick \/ UNCHANGED vars
  BY <1>1 DEF Tick, vars
<1>2. ASSUME NEW p \in Handlers, Handler(p)
      PROVE  UNCHANGED rows \/ OpenInsert(p) \/ AppendCommit(p)
  BY <1>2 DEF Handler, OpenProbe, OpenOverQuota, OpenLostRace, OpenRecover,
     reopenRunForWrites, AppendGuard, AppendOverCap, CompleteGuard,
     CompleteCommit, completeShardedRun, broadcastRunUpdate
<1>3. ASSUME NEW p \in Sweepers, Sweep(p) PROVE UNCHANGED rows
  BY <1>3 DEF Sweep, sweepStaleRuns, SweepReadShards, SweepFlip, SweepMiss,
     SweepRecount, SweepRewrite, broadcastRunUpdate
<1>4. ASSUME NEW p \in Procs, Crash(p) PROVE UNCHANGED rows
  BY <1>4 DEF Crash
<1>. QED BY <1>1, <1>2, <1>3, <1>4 DEF Next

\* One step of the pipeline keeps the status or strictly raises its rank.
LEMMA WorsenStep ==
    TypeOK /\ [Next]_vars
    => run'.status = run.status \/ Rank(run.status) < Rank(run'.status)
<1>. SUFFICES ASSUME TypeOK, [Next]_vars
              PROVE  \/ run'.status = run.status
                     \/ Rank(run.status) < Rank(run'.status)
  OBVIOUS
<1>. USE DEF At
<1>1. run.status \in RunStatuses
  BY DEF TypeOK
<1>2. ASSUME NEW p \in Handlers, OpenInsert(p)
      PROVE  Rank(run.status) < Rank(run'.status)
  BY <1>2 DEF OpenInsert, buildRunInsertValues, Rank, Absent
<1>3. ASSUME NEW p \in Handlers, reopenRunForWrites(p)
      PROVE  run'.status = run.status
  BY <1>3 DEF reopenRunForWrites, TypeOK
<1>4. ASSUME NEW p \in Handlers, AppendCommit(p)
      PROVE  run'.status = run.status
  BY <1>4 DEF AppendCommit, TypeOK
<1>5. ASSUME NEW p \in Handlers, CompleteCommit(p)
      PROVE  \/ run'.status = run.status
             \/ Rank(run.status) < Rank(run'.status)
  <2>1. req[p].status \in TERMINAL_RUN_STATUSES
    BY <1>5, HandlerLocals, StatusesType DEF CompleteCommit, TypeOK
  <2>2. run'.status = mergeRunStatus(run.status, req[p].status)
    BY <1>5 DEF CompleteCommit, TypeOK
  <2>. QED BY <1>1, <2>1, <2>2, MergeWorsens
<1>6. ASSUME NEW p \in Handlers, completeShardedRun(p)
      PROVE  \/ run'.status = run.status
             \/ Rank(run.status) < Rank(run'.status)
  <2>. DEFINE r == req[p]
              reports == recordShard(r.shard, r.status, r.at)
  <2>1. /\ r.at \in Times /\ r.status \in TERMINAL_RUN_STATUSES
        /\ r.shard \in ShardInputs
    BY <1>6, HandlerLocals, StatusesType DEF completeShardedRun, TypeOK
  <2>2. reports \in [ShardIds -> [status : TERMINAL_RUN_STATUSES \cup {NoRow},
                                 completedAt : Times]]
    BY <2>1, ReportsType DEF TypeOK
  <2>3. \E verdict \in ShardVerdicts(reports, r.expected) :
           run'.status = verdict
    <3>. HIDE DEF reports
    <3>. QED BY <1>6 DEF completeShardedRun, reports, TypeOK
  <2>. HIDE DEF reports
  <2>4. PICK verdict \in ShardVerdicts(reports, r.expected) :
           run'.status = verdict
    BY <2>3
  <2>5. \/ verdict = run.status
        \/ \E s \in TERMINAL_RUN_STATUSES :
              verdict = mergeRunStatus(run.status, s)
    BY <2>2, VerdictIsMerge
  <2>. QED BY <1>1, <2>4, <2>5, MergeWorsens
<1>7. ASSUME NEW p \in Sweepers, SweepFlip(p)
      PROVE  Rank(run.status) < Rank(run'.status)
  <2>1. req[p].status \in TERMINAL_RUN_STATUSES
    BY <1>7, SweeperLocals DEF SweepFlip, TypeOK
  <2>2. run.status = "running" /\ run'.status = req[p].status
    BY <1>7 DEF SweepFlip, TypeOK
  <2>. QED
    BY <2>1, <2>2 DEF Rank, runStatusSeverity, TERMINAL_RUN_STATUSES, Absent
<1>8. ASSUME NEW p \in Sweepers, SweepRewrite(p)
      PROVE  run'.status = run.status
  BY <1>8 DEF SweepRewrite, TypeOK
<1>9. ASSUME UNCHANGED run
      PROVE  run'.status = run.status
  BY <1>9
<1>10. \/ UNCHANGED run
       \/ \E p \in Handlers : \/ OpenInsert(p) \/ reopenRunForWrites(p)
                              \/ AppendCommit(p) \/ CompleteCommit(p)
                              \/ completeShardedRun(p)
       \/ \E p \in Sweepers : SweepFlip(p) \/ SweepRewrite(p)
  BY RunWriters
<1>. QED
  BY <1>2, <1>3, <1>4, <1>5, <1>6, <1>7, <1>8, <1>9, <1>10

\* No interleaving of opens, flushes, completions and sweeps ever improves a
\* verdict, or revives a finished run.
THEOREM VerdictOnlyWorsens == Spec => StatusOnlyWorsens
<1>1. TypeOK /\ [Next]_vars
      => [run'.status = run.status \/ Rank(run.status) < Rank(run'.status)]_vars
  BY WorsenStep
<1>. QED
  BY <1>1, TypeCorrect, PTL DEF Spec, StatusOnlyWorsens

-----------------------------------------------------------------------------
(* Viewers never see more than was committed *)

\* The strengthening: the summaries still to be broadcast are themselves of
\* committed states, so that a late or reordered broadcast cannot overtake.
SummariesCommitted ==
    \A p \in Procs :
        At(p, "publish") => Rank(req[p].summary) <= Rank(run.status)

RoomInv == TypeOK /\ SummariesCommitted /\ RoomNeverAhead

LEMMA RankType ==
    ASSUME NEW s \in RunStatuses
    PROVE  Rank(s) \in Nat
BY DEF Rank, runStatusSeverity, RunStatuses, TERMINAL_RUN_STATUSES, Absent

\* A step that starts a broadcast announces the status it has just written.
LEMMA PublishesWhatItWrote ==
    ASSUME TypeOK, [Next]_vars, NEW q \in Procs, At(q, "publish")'
    PROVE  \/ req'[q] = req[q]
           \/ req'[q].summary = run'.status
<1>. USE DEF At
<1>1. CASE Tick \/ UNCHANGED vars
  BY <1>1 DEF Tick, vars
<1>2. ASSUME NEW p \in Handlers, Handler(p), q # p
      PROVE  req'[q] = req[q]
  BY <1>2 DEF Handler, OpenProbe, OpenInsert, OpenOverQuota, OpenLostRace,
     OpenRecover, ResolveExisting, reopenRunForWrites, AppendGuard,
     AppendOverCap, AppendCommit, CompleteGuard, CompleteCommit,
     completeShardedRun, broadcastRunUpdate, Goto, TypeOK
<1>3. ASSUME NEW p \in Sweepers, Sweep(p), q # p
      PROVE  req'[q] = req[q]
  BY <1>3 DEF Sweep, sweepStaleRuns, SweepReadShards, SweepFlip, SweepMiss,
     SweepRecount, SweepRewrite, broadcastRunUpdate, Goto, TypeOK
<1>4. ASSUME NEW p \in Procs, Crash(p), q # p
      PROVE  req'[q] = req[q]
  BY <1>4 DEF Crash, Goto, TypeOK
<1>5. ASSUME NEW r, Goto(q, r)
      PROVE  req'[q] = r
  BY <1>5 DEF Goto, TypeOK
<1>6. ASSUME q \in Handlers, Handler(q)
      PROVE  req'[q].summary = run'.status
  <2>1. CASE OpenInsert(q)
    BY <1>5, <2>1 DEF OpenInsert, buildRunInsertValues, Publishing
  <2>2. CASE AppendCommit(q)
    BY <1>5, <2>2 DEF AppendCommit, Publishing, TypeOK
  <2>3. CASE CompleteCommit(q)
    BY <1>5, <2>3 DEF CompleteCommit, Publishing, TypeOK
  <2>4. CASE completeShardedRun(q)
    BY <1>5, <2>4 DEF completeShardedRun, Publishing, TypeOK
  <2>5. ASSUME NEW s, NEW t, ResolveExisting(q, t, s)
        PROVE  FALSE
    BY <1>5, <2>5 DEF ResolveExisting, Idle
  <2>6. CASE OpenLostRace(q)
    <3>1. req[q] \in Requests
      BY <1>6 DEF TypeOK
    <3>2. [req[q] EXCEPT !.pc = "recover"].pc = "recover"
      BY <2>6, <3>1, HandlerLocals DEF OpenLostRace
    <3>. QED BY <1>5, <2>6, <3>2 DEF OpenLostRace
  <2>7. ASSUME NEW plan \in Plans, NEW s \in ShardInputs, OpenProbe(q, plan, s)
        PROVE  FALSE
    BY <1>5, <2>5, <2>7 DEF OpenProbe, Idle
  <2>8. ASSUME NEW batch \in Batches, AppendGuard(q, batch)
        PROVE  FALSE
    <3>1. CASE Goto(q, Idle)
      BY <1>5, <3>1 DEF Idle
    <3>2. ASSUME NEW f, Goto(q, [pc |-> "append", at |-> now, results |-> f])
          PROVE  FALSE
      BY <1>5, <3>2
    <3>. QED BY <2>8, <3>1, <3>2 DEF AppendGuard
  <2>9. ASSUME NEW v \in CompleteStatuses, NEW s \in ShardInputs,
               CompleteGuard(q, v, s)
        PROVE  FALSE
    BY <1>5, <2>9 DEF CompleteGuard, Idle
  <2>10. CASE OpenOverQuota(q) \/ reopenRunForWrites(q) \/ AppendOverCap(q)
              \/ broadcastRunUpdate(q)
    BY <1>5, <2>10 DEF OpenOverQuota, reopenRunForWrites, AppendOverCap,
       broadcastRunUpdate, Idle
  <2>11. CASE OpenRecover(q)
    BY <2>5, <2>11 DEF OpenRecover
  <2>. QED
    BY <1>6, <2>1, <2>2, <2>3, <2>4, <2>6, <2>7, <2>8, <2>9, <2>10, <2>11
    DEF Handler
<1>7. ASSUME q \in Sweepers, Sweep(q)
      PROVE  req'[q].summary = run'.status
  <2>1. CASE SweepFlip(q)
    BY <1>5, <2>1 DEF SweepFlip, Publishing, TypeOK
  <2>2. CASE SweepReadShards(q)
    BY <1>5, <2>2 DEF SweepReadShards
  <2>3. CASE sweepStaleRuns(q) \/ SweepMiss(q) \/ SweepRecount(q)
             \/ SweepRewrite(q) \/ broadcastRunUpdate(q)
    BY <1>5, <2>3 DEF sweepStaleRuns, SweepMiss, SweepRecount, SweepRewrite,
       broadcastRunUpdate, Idle
  <2>. QED BY <1>7, <2>1, <2>2, <2>3 DEF Sweep
<1>8. ASSUME Crash(q) PROVE FALSE
  BY <1>5, <1>8 DEF Crash, Idle
<1>. QED
  BY <1>1, <1>2, <1>3, <1>4, <1>6, <1>7, <1>8 DEF Next

LEMMA RoomStep == RoomInv /\ [Next]_vars => RoomInv'
<1>. SUFFICES ASSUME RoomInv, [Next]_vars PROVE RoomInv'
  OBVIOUS
<1>1. TypeOK /\ TypeOK'
  BY TypeStep DEF RoomInv
<1>2. Rank(run.status) <= Rank(run'.status)
  <2>1. /\ run.status \in RunStatuses /\ run'.status \in RunStatuses
    BY <1>1 DEF TypeOK
  <2>. QED BY <1>1, <2>1, WorsenStep, RankType
<1>3. SummariesCommitted'
  <2>. SUFFICES ASSUME NEW q \in Procs, At(q, "publish")'
                PROVE  Rank(req'[q].summary) <= Rank(run'.status)
    BY DEF SummariesCommitted
  <2>1. req'[q].summary \in RunStatuses
    BY <1>1, HandlerLocals, SweeperLocals DEF At, TypeOK, Procs
  <2>2. /\ Rank(req'[q].summary) \in Nat /\ Rank(run.status) \in Nat
        /\ Rank(run'.status) \in Nat
    BY <1>1, <2>1, RankType DEF TypeOK
  <2>3. CASE req'[q] = req[q]
    <3>1. Rank(req[q].summary) <= Rank(run.status)
      BY <2>3 DEF RoomInv, SummariesCommitted, At
    <3>. QED BY <1>2, <2>2, <2>3, <3>1
  <2>4. CASE req'[q].summary = run'.status
    BY <2>2, <2>4
  <2>. QED BY <1>1, <2>3, <2>4, PublishesWhatItWrote
<1>4. RoomNeverAhead'
  <2>1. /\ Rank(room) \in Nat /\ Rank(run.status) \in Nat
        /\ Rank(run'.status) \in Nat
    BY <1>1, RankType DEF TypeOK
  <2>2. \/ room' = room
        \/ \E p \in Procs : At(p, "publish") /\ room' = req[p].summary
    <3>1. CASE Tick \/ UNCHANGED vars
      BY <3>1 DEF Tick, vars
    <3>2. ASSUME NEW p \in Handlers, Handler(p)
          PROVE  room' = room \/ broadcastRunUpdate(p)
      BY <3>2 DEF Handler, OpenProbe, OpenInsert, OpenOverQuota, OpenLostRace,
         OpenRecover, reopenRunForWrites, AppendGuard, AppendOverCap,
         AppendCommit, CompleteGuard, CompleteCommit, completeShardedRun
    <3>3. ASSUME NEW p \in Sweepers, Sweep(p)
          PROVE  room' = room \/ broadcastRunUpdate(p)
      BY <3>3 DEF Sweep, sweepStaleRuns, SweepReadShards, SweepFlip,
         SweepMiss, SweepRecount, SweepRewrite
    <3>4. ASSUME NEW p \in Procs, Crash(p) PROVE room' = room
      BY <3>4 DEF Crash
    <3>5. ASSUME NEW p \in Procs, broadcastRunUpdate(p)
          PROVE  \/ room' = room
                 \/ At(p, "publish") /\ room' = req[p].summary
      BY <3>5 DEF broadcastRunUpdate
    <3>. QED BY <3>1, <3>2, <3>3, <3>4, <3>5 DEF Next, Procs
  <2>3. Rank(room') <= Rank(run.status)
    BY <2>2 DEF RoomInv, RoomNeverAhead, SummariesCommitted
  <2>4. Rank(room') \in Nat
    BY <1>1, RankType DEF TypeOK
  <2>. QED BY <1>2, <2>1, <2>3, <2>4 DEF RoomNeverAhead
<1>. QED BY <1>1, <1>3, <1>4 DEF RoomInv

\* Broadcasts follow commits: whatever the interleaving and however late a
\* broadcast arrives, the room never shows a run ahead of its row.
THEOREM RoomFollowsCommits == Spec => []RoomNeverAhead
<1>1. Init => RoomInv
  <2>. SUFFICES ASSUME Init PROVE RoomInv
    OBVIOUS
  <2>1. SummariesCommitted
    BY DEF Init, SummariesCommitted, At, Idle
  <2>2. RoomNeverAhead
    BY DEF Init, RoomNeverAhead, Rank
  <2>. QED BY <2>1, <2>2, TypeInit DEF RoomInv
<1>2. RoomInv => RoomNeverAhead
  BY DEF RoomInv
<1>. QED BY <1>1, <1>2, RoomStep, PTL DEF Spec

-----------------------------------------------------------------------------
(* The counters *)

\* No step but the watchdog's unlocked rewrite makes exact counters inexact.
LEMMA CounterStep ==
    /\ TypeOK /\ [Next]_vars
    /\ CountersMatchRows
    /\ ~(\E p \in Sweepers : SweepRewrite(p))
    => CountersMatchRows'
<1>. SUFFICES ASSUME TypeOK, [Next]_vars, CountersMatchRows,
                     ~(\E p \in Sweepers : SweepRewrite(p))
              PROVE  CountersMatchRows'
  OBVIOUS
<1>. USE DEF At
<1>1. ASSUME NEW p \in Handlers, OpenInsert(p)
      PROVE  CountersMatchRows'
  <2>1. req[p].plan \in Plans
    BY <1>1, HandlerLocals DEF OpenInsert, TypeOK
  <2>2. Recount(rows') = run'.counters
    BY <1>1, <2>1, PrefillIsExact DEF OpenInsert
  <2>. QED BY <2>2 DEF CountersMatchRows
<1>2. ASSUME NEW p \in Handlers, AppendCommit(p)
      PROVE  CountersMatchRows'
  <2>. DEFINE results == req[p].results
              delta == computeAggregateDelta(results, rows)
  <2>1. DOMAIN results \in SUBSET Tests
    BY <1>2, HandlerLocals DEF AppendCommit, TypeOK
  <2>2. /\ run'.status = run.status
        /\ run'.counters = [c \in Counters |-> run.counters[c] + delta[c]]
        /\ rows' = Upsert(rows, results)
    BY <1>2 DEF AppendCommit, TypeOK
  <2>3. \A c \in Counters : Recount(Upsert(rows, results))[c]
                              = Recount(rows)[c] + delta[c]
    BY <2>1, DeltaIsExact, ZenonT(30)
  <2>4. Recount(rows') = [c \in Counters |-> Recount(rows)[c] + delta[c]]
    <3>1. Recount(rows') = [c \in Counters |-> Recount(rows')[c]]
      BY DEF Recount
    <3>. HIDE DEF delta
    <3>. QED BY <2>2, <2>3, <3>1
  <2>. QED BY <2>2, <2>4 DEF CountersMatchRows
<1>3. ASSUME NEW p \in Handlers, CompleteCommit(p) \/ completeShardedRun(p)
      PROVE  CountersMatchRows'
  <2>1. rows' = rows
    BY <1>3 DEF CompleteCommit, completeShardedRun
  <2>2. run'.counters = Recount(rows)
    BY <1>3 DEF CompleteCommit, completeShardedRun, TypeOK
  <2>. QED BY <2>1, <2>2 DEF CountersMatchRows
<1>4. ASSUME NEW p \in Handlers, reopenRunForWrites(p)
      PROVE  CountersMatchRows'
  <2>1. /\ rows' = rows /\ run'.status = run.status
        /\ run'.counters = run.counters
    BY <1>4 DEF reopenRunForWrites, TypeOK
  <2>. QED BY <2>1 DEF CountersMatchRows
<1>5. ASSUME NEW p \in Sweepers, SweepFlip(p)
      PROVE  CountersMatchRows'
  <2>1. rows' = rows /\ run'.counters = Recount(rows)
    BY <1>5 DEF SweepFlip, TypeOK
  <2>. QED BY <2>1 DEF CountersMatchRows
<1>6. CASE UNCHANGED run
  <2>1. \/ UNCHANGED rows
        \/ \E p \in Handlers : OpenInsert(p) \/ AppendCommit(p)
    BY RowWriters
  <2>. QED BY <1>1, <1>2, <1>6, <2>1 DEF CountersMatchRows
<1>. QED
  BY <1>1, <1>2, <1>3, <1>4, <1>5, <1>6, RunWriters

\* The incremental counters of /results and the recomputed ones of
\* /complete stay equal to the rows under every interleaving of handlers;
\* the watchdog's recount without the lock is the only way they can drift.
THEOREM OnlySweepRewriteDrifts == Spec => OnlyUnlockedRecountDrifts
<1>1. TypeOK /\ [Next]_vars
      => [CountersMatchRows /\ ~(\E p \in Sweepers : SweepRewrite(p))
            => CountersMatchRows']_vars
  BY CounterStep
<1>. QED
  BY <1>1, TypeCorrect, PTL DEF Spec, OnlyUnlockedRecountDrifts

-----------------------------------------------------------------------------
(* The pipeline implements the ledger *)

\* A request that is about to write the run has seen it, and a run is never
\* deleted by the pipeline.
WritersHaveRun ==
    \A p \in Procs :
        req[p].pc \in {"append", "complete", "completeShard"}
            => run.status # Absent

LedgerInv == TypeOK /\ WritersHaveRun

\* The control points whose process is about to write the run on the
\* strength of something it read before.
Writers == {"insert", "append", "complete", "completeShard", "flip"}

\* The reads that lead a process there.
Reads(q) ==
    \/ /\ q \in Handlers
       /\ \/ \E plan \in Plans, s \in ShardInputs : OpenProbe(q, plan, s)
          \/ \E batch \in Batches : AppendGuard(q, batch)
          \/ \E v \in CompleteStatuses, s \in ShardInputs :
                CompleteGuard(q, v, s)
    \/ q \in Sweepers /\ SweepReadShards(q)

\* Only a read leads to the control points of a writer.
LEMMA NextRequest ==
    ASSUME TypeOK, [Next]_vars, NEW q \in Procs
    PROVE  \/ req'[q] = req[q]
           \/ req'[q].pc \notin Writers
           \/ Reads(q)
<1>. USE DEF At
<1>. DEFINE Calm == \/ req'[q] = req[q]
                    \/ req'[q].pc \notin Writers
<1>1. ASSUME Tick \/ UNCHANGED vars PROVE Calm
  BY <1>1 DEF Tick, vars
<1>2. ASSUME NEW p \in Procs, NEW r, Goto(p, r),
             r.pc \notin Writers
      PROVE  Calm
  BY <1>2 DEF Goto, TypeOK
<1>3. ASSUME NEW p \in Procs, p # q, NEW r, Goto(p, r)
      PROVE  Calm
  BY <1>3 DEF Goto, TypeOK
<1>4. ASSUME NEW p \in Procs, NEW t, NEW s,
             ResolveExisting(p, t, s)
      PROVE  Calm
  BY <1>2, <1>4 DEF ResolveExisting, Idle, Writers
<1>5. ASSUME NEW p \in Handlers, p # q, NEW plan, NEW s, OpenProbe(p, plan, s)
      PROVE  Calm
  <2>1. CASE Goto(p, Idle)
    BY <1>3, <1>5, <2>1 DEF Procs
  <2>2. ASSUME NEW r, Goto(p, r) PROVE Calm
    BY <1>3, <1>5, <2>2 DEF Procs
  <2>. QED BY <1>4, <1>5, <2>1, <2>2 DEF OpenProbe, Procs
<1>6. ASSUME NEW p \in Handlers, OpenRecover(p)
      PROVE  Calm
  BY <1>4, <1>6 DEF OpenRecover, Procs
<1>7. ASSUME NEW p \in Handlers, OpenLostRace(p)
      PROVE  Calm
  <2>1. [req[p] EXCEPT !.pc = "recover"].pc = "recover"
    BY <1>7, HandlerLocals DEF OpenLostRace, TypeOK
  <2>. QED BY <1>2, <1>7, <2>1 DEF OpenLostRace, Procs, Writers
<1>8. ASSUME NEW p \in Handlers,
             \/ OpenInsert(p) \/ OpenOverQuota(p) \/ reopenRunForWrites(p)
             \/ AppendOverCap(p) \/ AppendCommit(p) \/ CompleteCommit(p)
             \/ broadcastRunUpdate(p)
      PROVE  Calm
  BY <1>2, <1>8 DEF OpenInsert, OpenOverQuota, reopenRunForWrites,
     AppendOverCap, AppendCommit, CompleteCommit, broadcastRunUpdate,
     Publishing, Idle, Procs, Writers
<1>9. ASSUME NEW p \in Handlers, completeShardedRun(p)
      PROVE  Calm
  BY <1>2, <1>9 DEF completeShardedRun, Publishing, Procs, Writers
<1>10. ASSUME NEW p \in Sweepers, Sweep(p)
       PROVE  Calm \/ Reads(q)
  <2>1. CASE SweepReadShards(p)
    <3>1. CASE p = q
      BY <2>1, <3>1 DEF Reads
    <3>2. CASE p # q
      BY <1>3, <2>1, <3>2 DEF SweepReadShards, Procs
    <3>. QED BY <3>1, <3>2
  <2>2. CASE sweepStaleRuns(p) \/ SweepFlip(p) \/ SweepMiss(p)
             \/ SweepRecount(p) \/ SweepRewrite(p) \/ broadcastRunUpdate(p)
    BY <1>2, <2>2 DEF sweepStaleRuns, SweepFlip, SweepMiss, SweepRecount,
       SweepRewrite, broadcastRunUpdate, Publishing, Idle, Procs, Writers
  <2>. QED BY <1>10, <2>1, <2>2 DEF Sweep
<1>11. ASSUME NEW p \in Procs, Crash(p)
       PROVE  Calm
  BY <1>2, <1>11 DEF Crash, Idle, Writers
<1>12. ASSUME NEW p \in Handlers, p # q, NEW batch, AppendGuard(p, batch)
       PROVE  Calm
  <2>1. CASE Goto(p, Idle)
    BY <1>3, <1>12, <2>1 DEF Procs
  <2>2. ASSUME NEW f, Goto(p, [pc |-> "append", at |-> now, results |-> f])
        PROVE  Calm
    BY <1>3, <1>12, <2>2 DEF Procs
  <2>. QED BY <1>12, <2>1, <2>2 DEF AppendGuard
<1>13. ASSUME NEW p \in Handlers, p # q, NEW v, NEW s, CompleteGuard(p, v, s)
       PROVE  Calm
  BY <1>3, <1>13 DEF CompleteGuard, Procs
<1>. HIDE DEF Calm
<1>14. ASSUME NEW p \in Handlers, Handler(p), p # q
       PROVE  Calm
  BY <1>5, <1>6, <1>7, <1>8, <1>9, <1>12, <1>13, <1>14 DEF Handler
<1>15. ASSUME q \in Handlers, Handler(q)
       PROVE  Calm \/ Reads(q)
  BY <1>6, <1>7, <1>8, <1>9, <1>15 DEF Handler, Reads
<1>16. Calm \/ Reads(q)
  BY <1>1, <1>10, <1>11, <1>14, <1>15 DEF Next
<1>. QED BY <1>16 DEF Calm

\* What a process knew when it went to write: what its read established,
\* and that the read wrote nothing.
LEMMA Admission ==
    ASSUME TypeOK, [Next]_vars, NEW q \in Procs,
           req'[q] # req[q], req'[q].pc \in Writers
    PROVE  /\ UNCHANGED <<now, run, rows, shardRows>>
           /\ req'[q].pc = "insert" =>
                 /\ q \in Handlers
                 /\ RowCap > 0 => ~(Len(req'[q].plan) > RowCap)
           /\ req'[q].pc \in {"append", "complete", "completeShard"} =>
                 /\ q \in Handlers
                 /\ run.status # Absent
                 /\ ~runClosedForWrites(run, now)
           /\ req'[q].pc \in {"complete", "completeShard"} =>
                 \E s \in ShardInputs :
                    /\ req'[q].shard = s
                    /\ req'[q].expected = IF run.expectedShards # 0
                                          THEN run.expectedShards ELSE s.total
                    /\ ~invalidShard(req'[q].expected, s)
                    /\ IF req'[q].expected > 1
                       THEN req'[q].pc = "completeShard"
                       ELSE req'[q].pc = "complete"
           /\ req'[q].pc = "flip" =>
                 /\ q \in Sweepers
                 /\ req'[q].status \in
                       worstShardStatus(StatusesOf(shardRows) \cup {"interrupted"})
<1>. USE DEF Writers
<1>0. Reads(q)
  BY NextRequest
<1>1. ASSUME NEW r, Goto(q, r) PROVE req'[q] = r
  BY <1>1 DEF Goto, TypeOK
<1>2. ASSUME NEW t, NEW s, ResolveExisting(q, t, s)
      PROVE  FALSE
  BY <1>1, <1>2 DEF ResolveExisting, Idle
<1>3. ~Goto(q, Idle)
  BY <1>1 DEF Idle
<1>4. ASSUME q \in Handlers, NEW plan \in Plans, NEW s \in ShardInputs,
             OpenProbe(q, plan, s)
      PROVE  /\ UNCHANGED <<now, run, rows, shardRows>>
             /\ req'[q].pc = "insert"
             /\ RowCap > 0 => ~(Len(req'[q].plan) > RowCap)
  <2>1. /\ ~(RowCap > 0 /\ Len(plan) > RowCap)
        /\ Goto(q, [pc |-> "insert", at |-> now, plan |-> plan, shard |-> s])
    BY <1>2, <1>3, <1>4 DEF OpenProbe
  <2>2. req'[q] = [pc |-> "insert", at |-> now, plan |-> plan, shard |-> s]
    BY <1>1, <2>1
  <2>. QED BY <1>4, <2>1, <2>2 DEF OpenProbe
<1>5. ASSUME q \in Handlers, NEW batch \in Batches, AppendGuard(q, batch)
      PROVE  /\ UNCHANGED <<now, run, rows, shardRows>>
             /\ req'[q].pc = "append"
             /\ run.status # Absent
             /\ ~runClosedForWrites(run, now)
  <2>1. PICK f \in dedupeResultsByTestId(batch) :
           Goto(q, [pc |-> "append", at |-> now, results |-> f])
    BY <1>3, <1>5 DEF AppendGuard
  <2>2. req'[q] = [pc |-> "append", at |-> now, results |-> f]
    BY <1>1, <2>1
  <2>. QED BY <1>3, <1>5, <2>2 DEF AppendGuard
<1>6. ASSUME q \in Handlers, NEW v \in CompleteStatuses, NEW s \in ShardInputs,
             CompleteGuard(q, v, s)
      PROVE  /\ UNCHANGED <<now, run, rows, shardRows>>
             /\ run.status # Absent
             /\ ~runClosedForWrites(run, now)
             /\ req'[q].shard = s
             /\ req'[q].expected = IF run.expectedShards # 0
                                   THEN run.expectedShards ELSE s.total
             /\ ~invalidShard(req'[q].expected, s)
             /\ req'[q].pc = IF req'[q].expected > 1 THEN "completeShard"
                             ELSE "complete"
  <2>. DEFINE expected == IF run.expectedShards # 0 THEN run.expectedShards
                          ELSE s.total
              target == [pc |-> IF expected > 1 THEN "completeShard"
                                ELSE "complete",
                         at |-> now, status |-> v,
                         shard |-> s, expected |-> expected]
  <2>1. /\ run.status # Absent
        /\ ~runClosedForWrites(run, now)
        /\ ~invalidShard(expected, s)
        /\ Goto(q, target)
    BY <1>3, <1>6 DEF CompleteGuard
  <2>2. req'[q] = target
    <3>. HIDE DEF target
    <3>. QED BY <1>1, <2>1
  <2>3. /\ target.expected = expected /\ target.shard = s
        /\ target.pc = IF expected > 1 THEN "completeShard" ELSE "complete"
    OBVIOUS
  <2>4. UNCHANGED <<now, run, rows, shardRows>>
    BY <1>6 DEF CompleteGuard
  <2>. HIDE DEF target
  <2>. QED BY <2>1, <2>2, <2>3, <2>4
<1>7. ASSUME q \in Sweepers, SweepReadShards(q)
      PROVE  /\ UNCHANGED <<now, run, rows, shardRows>>
             /\ req'[q].pc = "flip"
             /\ req'[q].status \in
                   worstShardStatus(StatusesOf(shardRows) \cup {"interrupted"})
  <2>1. PICK s \in worstShardStatus(StatusesOf(shardRows) \cup {"interrupted"}) :
           Goto(q, [pc |-> "flip", at |-> req[q].at, status |-> s])
    BY <1>7 DEF SweepReadShards
  <2>2. req'[q] = [pc |-> "flip", at |-> req[q].at, status |-> s]
    BY <1>1, <2>1
  <2>. QED BY <1>7, <2>2 DEF SweepReadShards
<1>8. CASE q \in Handlers /\ \E plan \in Plans, s \in ShardInputs :
              OpenProbe(q, plan, s)
  BY <1>4, <1>8
<1>9. CASE q \in Handlers /\ \E batch \in Batches : AppendGuard(q, batch)
  BY <1>5, <1>9
<1>10. CASE q \in Handlers /\ \E v \in CompleteStatuses, s \in ShardInputs :
               CompleteGuard(q, v, s)
  <2>1. PICK v \in CompleteStatuses, s \in ShardInputs : CompleteGuard(q, v, s)
    BY <1>10
  <2>2. req'[q].pc \in {"complete", "completeShard"}
    BY <1>6, <1>10, <2>1
  <2>. QED BY <1>6, <1>10, <2>1, <2>2
<1>11. CASE q \in Sweepers /\ SweepReadShards(q)
  BY <1>7, <1>11
<1>. QED BY <1>0, <1>8, <1>9, <1>10, <1>11 DEF Reads

LEMMA WritersStep == LedgerInv /\ [Next]_vars => WritersHaveRun'
<1>. SUFFICES ASSUME LedgerInv, [Next]_vars,
                     NEW q \in Procs,
                     req'[q].pc \in {"append", "complete", "completeShard"}
              PROVE  run'.status # Absent
  BY DEF WritersHaveRun
<1>1. TypeOK
  BY DEF LedgerInv
<1>2. run.status # Absent => run'.status # Absent
  <2>1. run'.status = run.status \/ Rank(run.status) < Rank(run'.status)
    BY <1>1, WorsenStep
  <2>2. Rank(run.status) \in Nat
    BY <1>1, RankType DEF TypeOK
  <2>3. Rank(Absent) = 0
    BY DEF Rank, Absent
  <2>. QED BY <2>1, <2>2, <2>3
<1>3. CASE req'[q] = req[q]
  BY <1>2, <1>3 DEF LedgerInv, WritersHaveRun
<1>4. CASE req'[q] # req[q]
  <2>1. run.status # Absent
    BY <1>1, <1>4, Admission DEF Writers
  <2>. QED BY <1>2, <2>1
<1>. QED BY <1>3, <1>4

LEMMA LedgerInvariant == Spec => []LedgerInv
<1>1. Init => LedgerInv
  BY TypeInit DEF LedgerInv, WritersHaveRun, Init, Idle
<1>2. LedgerInv /\ [Next]_vars => LedgerInv'
  BY TypeStep, WritersStep DEF LedgerInv
<1>. QED BY <1>1, <1>2, PTL DEF Spec

\* Only the insert opens a run.
LEMMA OnlyInsertOpens ==
    ASSUME LedgerInv, [Next]_vars, run.status = Absent,
           \A p \in Handlers : ~OpenInsert(p)
    PROVE  run'.status = Absent
<1>. USE DEF At
<1>1. ASSUME NEW p \in Handlers
      PROVE  ~(AppendCommit(p) \/ CompleteCommit(p) \/ completeShardedRun(p))
  BY DEF LedgerInv, WritersHaveRun, AppendCommit, CompleteCommit,
     completeShardedRun, Procs
<1>2. ASSUME NEW p \in Handlers, reopenRunForWrites(p)
      PROVE  run'.status = Absent
  BY <1>2 DEF reopenRunForWrites, Absent
<1>3. ASSUME NEW p \in Sweepers, SweepFlip(p) \/ SweepRewrite(p)
      PROVE  run'.status = Absent
  BY <1>3 DEF SweepFlip, SweepRewrite, LedgerInv, TypeOK, Absent
<1>. QED BY <1>1, <1>2, <1>3, RunWriters

\* Each step of the pipeline is one operation of the ledger, or none.
LEMMA LedgerStep == LedgerInv /\ [Next]_vars => [Ledger!Next]_(Ledger!lvars)
<1>. SUFFICES ASSUME LedgerInv, [Next]_vars
              PROVE  Ledger!Next \/ UNCHANGED Ledger!lvars
  OBVIOUS
<1>. USE DEF Ledger!Next, Ledger!lvars, At
<1>1. TypeOK /\ TypeOK'
  BY TypeStep DEF LedgerInv
<1>2. ASSUME NEW p \in Handlers, OpenInsert(p)
      PROVE  Ledger!Open
  BY <1>2 DEF OpenInsert, buildRunInsertValues, buildQueuePrefillStatements,
     Ledger!Open, Absent, NoRow
<1>3. ASSUME NEW p \in Handlers, AppendCommit(p)
      PROVE  Ledger!Record
  <2>1. run.status # Absent /\ run'.status = run.status
    BY <1>1, <1>3 DEF AppendCommit, LedgerInv, WritersHaveRun, TypeOK, Procs
  <2>2. \A t \in DOMAIN req[p].results : req[p].results[t] \in WireStatuses
    BY <1>1, <1>3, HandlerLocals DEF AppendCommit, TypeOK
  <2>3. \A t \in Tests : rows'[t] = rows[t] \/ rows'[t] \in WireStatuses
    BY <1>3, <2>2 DEF AppendCommit, Upsert
  <2>4. rows' \in [Tests -> WireStatuses \cup {"queued", "none"}]
    BY <1>1 DEF TypeOK, RowStatuses, NoRow
  <2>. QED BY <2>1, <2>3, <2>4 DEF Ledger!Record, Absent
<1>4. CASE UNCHANGED rows /\ \A p \in Handlers : ~OpenInsert(p)
  <2>1. run.status \in RunStatuses /\ run'.status \in RunStatuses
    BY <1>1 DEF TypeOK
  <2>2. CASE run'.status = run.status
    BY <1>4, <2>2
  <2>3. CASE Rank(run.status) < Rank(run'.status) /\ run.status = "running"
    <3>1. run'.status \in TERMINAL_RUN_STATUSES
      BY <2>1, <2>3 DEF Rank, RunStatuses, Absent
    <3>. QED BY <1>4, <2>3, <3>1 DEF Ledger!Finish
  <2>4. CASE /\ Rank(run.status) < Rank(run'.status)
             /\ run.status \in TERMINAL_RUN_STATUSES
    <3>1. /\ run'.status \in TERMINAL_RUN_STATUSES
          /\ runStatusSeverity(run.status) < runStatusSeverity(run'.status)
      BY <2>1, <2>4 DEF Rank, RunStatuses, TERMINAL_RUN_STATUSES, Absent,
         runStatusSeverity
    <3>. QED BY <1>4, <2>4, <3>1 DEF Ledger!Worsen
  <2>5. run.status = Absent => run'.status = Absent
    BY <1>4, OnlyInsertOpens
  <2>. QED BY <1>1, <2>1, <2>2, <2>3, <2>4, <2>5, WorsenStep DEF RunStatuses
<1>. QED BY <1>2, <1>3, <1>4, RowWriters

\* Whatever the interleaving of requests, retries, crashes and sweeps, a
\* reader of the database sees the atomic ledger: opened once, results never
\* taken back, one verdict that can only get strictly worse.
THEOREM PipelineIsALedger == Spec => Ledger!Safety
<1>1. Init => Ledger!Init
  BY DEF Init, Ledger!Init, Ledger!Untouched, Absent, NoRow
<1>. QED
  BY <1>1, LedgerInvariant, LedgerStep, PTL DEF Spec, Ledger!Safety


-----------------------------------------------------------------------------
(* Without the watchdog's unlocked rewrite *)

\* What the watchdog's recount after a missed flip may destroy, stated of
\* behaviours in which none is written: all those without a sweeper, and
\* those whose sweeps never lose the race for the run.
NoUnlockedRewrite == [][\A p \in Sweepers : ~SweepRewrite(p)]_vars

\* As long as no unlocked recount is written, the counters of an open run
\* equal a recount of its rows after every step of every interleaving.
THEOREM CountersAreExact == Spec /\ NoUnlockedRewrite => []CountersMatchRows
<1>1. Init => CountersMatchRows
  BY DEF Init, CountersMatchRows
<1>2. /\ TypeOK /\ CountersMatchRows
      /\ [Next]_vars /\ [\A p \in Sweepers : ~SweepRewrite(p)]_vars
      => CountersMatchRows'
  <2>1. UNCHANGED vars /\ CountersMatchRows => CountersMatchRows'
    BY DEF vars, CountersMatchRows
  <2>. QED BY <2>1, CounterStep
<1>. QED BY <1>1, <1>2, TypeCorrect, PTL DEF Spec, NoUnlockedRewrite

\* A plan that was admitted is no longer than the cap.
PlansFit ==
    \A p \in Handlers :
        At(p, "insert") /\ RowCap > 0 => ~(Len(req[p].plan) > RowCap)

CapInv == LedgerInv /\ CountersMatchRows /\ PlansFit /\ RowCapHolds

\* The total a recount returns is the number of rows.
LEMMA TotalIsRows ==
    ASSUME NEW table
    PROVE  Recount(table)["totalTests"]
             = Cardinality({t \in Tests : table[t] # NoRow})
<1>1. \A t \in Tests : Counted(table[t], "totalTests") <=> table[t] # NoRow
  BY DEF Counted
<1>. QED BY <1>1 DEF Recount, Counters

\* On exact counters the projection /results compares with the cap is the
\* number of rows there will be.
LEMMA ProjectionIsExact ==
    ASSUME NEW D \in SUBSET Tests, NEW results \in [D -> WireStatuses],
           run.counters = Recount(rows)
    PROVE  projectedCount(results)
             = Cardinality({t \in Tests : Upsert(rows, results)[t] # NoRow})
<1>. DEFINE delta == computeAggregateDelta(results, rows)
<1>1. /\ "totalTests" \in Counters /\ DOMAIN results = D
  BY DEF Counters
<1>2. Recount(Upsert(rows, results))["totalTests"]
        = Recount(rows)["totalTests"] + delta["totalTests"]
  BY <1>1, DeltaIsExact
<1>3. delta["totalTests"]
        = Cardinality(D) - Cardinality({t \in D : rows[t] # NoRow})
  <2>1. {t \in D : Counted(results[t], "totalTests")} = D
    BY DEF Counted, WireStatuses, NoRow
  <2>2. {t \in D : Counted(rows[t], "totalTests")} = {t \in D : rows[t] # NoRow}
    BY DEF Counted
  <2>. QED BY <1>1, <2>1, <2>2 DEF computeAggregateDelta
<1>4. /\ Recount(rows)["totalTests"] \in Nat
      /\ Cardinality(D) \in Nat
      /\ Cardinality({t \in D : rows[t] # NoRow}) \in Nat
  <2>1. Recount(rows)["totalTests"] \in Nat
    BY <1>1, RecountType
  <2>2. IsFiniteSet(D)
    BY TestsFinite, FS_Subset
  <2>. QED BY <2>1, <2>2, FS_Subset, FS_CardinalityType
<1>5. projectedCount(results)
        = Recount(rows)["totalTests"] + Cardinality(D)
            - Cardinality({t \in D : rows[t] # NoRow})
  BY <1>1 DEF projectedCount
<1>. HIDE DEF delta
<1>. QED BY <1>2, <1>3, <1>4, <1>5, TotalIsRows

LEMMA PlansFitStep == LedgerInv /\ PlansFit /\ [Next]_vars => PlansFit'
<1>. SUFFICES ASSUME LedgerInv, PlansFit, [Next]_vars, NEW q \in Handlers,
                     req'[q].pc = "insert", RowCap > 0
              PROVE  ~(Len(req'[q].plan) > RowCap)
  BY DEF PlansFit, At
<1>1. CASE req'[q] = req[q]
  BY <1>1 DEF PlansFit, At
<1>2. CASE req'[q] # req[q]
  BY <1>2, Admission DEF LedgerInv, Procs, Writers
<1>. QED BY <1>1, <1>2

LEMMA CapStep ==
    CapInv /\ [Next]_vars => RowCapHolds'
<1>. SUFFICES ASSUME CapInv, [Next]_vars, RowCap > 0
              PROVE  Cardinality({t \in Tests : rows'[t] # NoRow}) <= RowCap
  BY DEF RowCapHolds
<1>1. TypeOK /\ WritersHaveRun /\ RowCap \in Nat
  BY BoundsType DEF CapInv, LedgerInv
<1>2. CASE UNCHANGED rows
  BY <1>2 DEF CapInv, RowCapHolds
<1>3. ASSUME NEW p \in Handlers, OpenInsert(p)
      PROVE  Cardinality({t \in Tests : rows'[t] # NoRow}) <= RowCap
  <2>1. req[p].plan \in Plans /\ ~(Len(req[p].plan) > RowCap)
    BY <1>1, <1>3, HandlerLocals DEF OpenInsert, TypeOK, CapInv, PlansFit, At
  <2>2. Len(req[p].plan) \in Nat
    BY <2>1, PlansType
  <2>3. Recount(rows')["totalTests"] = Len(req[p].plan)
    <3>1. Recount(rows')
            = buildRunInsertValues(req[p].plan, req[p].shard, req[p].at).counters
      BY <1>3, <2>1, PrefillIsExact DEF OpenInsert
    <3>. QED BY <3>1 DEF buildRunInsertValues, Counters
  <2>. QED BY <1>1, <2>1, <2>2, <2>3, TotalIsRows
<1>4. ASSUME NEW p \in Handlers, AppendCommit(p)
      PROVE  Cardinality({t \in Tests : rows'[t] # NoRow}) <= RowCap
  <2>. DEFINE results == req[p].results
              D == DOMAIN results
  <2>1. D \in SUBSET Tests /\ results \in [D -> WireStatuses]
    BY <1>1, <1>4, HandlerLocals DEF AppendCommit, At, TypeOK
  <2>2. run.counters = Recount(rows)
    BY <1>1, <1>4 DEF AppendCommit, At, WritersHaveRun, Procs, CapInv,
       CountersMatchRows
  <2>3. rows' = Upsert(rows, results) /\ ~(projectedCount(results) > RowCap)
    BY <1>4 DEF AppendCommit, OverRowCap
  <2>4. projectedCount(results)
          = Cardinality({t \in Tests : rows'[t] # NoRow})
    <3>. HIDE DEF results
    <3>. QED BY <2>1, <2>2, <2>3, ProjectionIsExact
  <2>5. Cardinality({t \in Tests : rows'[t] # NoRow}) \in Nat
    BY TestsFinite, FS_Subset, FS_CardinalityType
  <2>. HIDE DEF results
  <2>. QED BY <1>1, <2>3, <2>4, <2>5
<1>. QED BY <1>2, <1>3, <1>4, RowWriters

\* The operator's ceiling on a run's result rows holds however many flushes
\* race: the projection is made under the lock and on exact counters.
THEOREM RowCapIsKept == Spec /\ NoUnlockedRewrite => []RowCapHolds
<1>1. Init => PlansFit /\ RowCapHolds
  <2>. SUFFICES ASSUME Init PROVE PlansFit /\ RowCapHolds
    OBVIOUS
  <2>1. PlansFit
    BY DEF Init, PlansFit, At, Idle, Procs
  <2>2. {t \in Tests : rows[t] # NoRow} = {}
    BY DEF Init
  <2>. QED BY <2>1, <2>2, FS_EmptySet, BoundsType DEF RowCapHolds
<1>2. LedgerInv /\ CountersMatchRows /\ PlansFit /\ RowCapHolds /\ [Next]_vars
      => PlansFit' /\ RowCapHolds'
  BY PlansFitStep, CapStep DEF CapInv
<1>. QED BY <1>1, <1>2, LedgerInvariant, CountersAreExact, PTL DEF Spec


-----------------------------------------------------------------------------
(* A closed run is frozen *)

\* A run that was never opened has neither a completion time nor a shard's
\* report: it cannot be closed.
UnopenedIsBlank ==
    run.status = Absent => run.completedAt = 0 /\ Reported(shardRows) = {}

\* Only a shard's completion writes its report.
LEMMA ShardWriters ==
    ASSUME [Next]_vars
    PROVE  UNCHANGED shardRows \/ \E p \in Handlers : completeShardedRun(p)
<1>1. CASE Tick \/ UNCHANGED vars
  BY <1>1 DEF Tick, vars
<1>2. ASSUME NEW p \in Handlers, Handler(p)
      PROVE  UNCHANGED shardRows \/ completeShardedRun(p)
  BY <1>2 DEF Handler, OpenProbe, OpenInsert, OpenOverQuota, OpenLostRace,
     OpenRecover, reopenRunForWrites, AppendGuard, AppendOverCap,
     AppendCommit, CompleteGuard, CompleteCommit, broadcastRunUpdate
<1>3. ASSUME NEW p \in Sweepers, Sweep(p) PROVE UNCHANGED shardRows
  BY <1>3 DEF Sweep, sweepStaleRuns, SweepReadShards, SweepFlip, SweepMiss,
     SweepRecount, SweepRewrite, broadcastRunUpdate
<1>4. ASSUME NEW p \in Procs, Crash(p) PROVE UNCHANGED shardRows
  BY <1>4 DEF Crash
<1>. QED BY <1>1, <1>2, <1>3, <1>4 DEF Next

LEMMA BlankStep == LedgerInv /\ UnopenedIsBlank /\ [Next]_vars => UnopenedIsBlank'
<1>. SUFFICES ASSUME LedgerInv, UnopenedIsBlank, [Next]_vars,
                     run'.status = Absent
              PROVE  run'.completedAt = 0 /\ Reported(shardRows') = {}
  BY DEF UnopenedIsBlank, Reported
<1>. USE DEF At
<1>1. TypeOK /\ run.status \in RunStatuses
  BY DEF LedgerInv, TypeOK
<1>2. run.status = Absent
  <2>1. run'.status = run.status \/ Rank(run.status) < Rank(run'.status)
    BY <1>1, WorsenStep
  <2>2. Rank(run.status) \in Nat
    BY <1>1, RankType
  <2>3. Rank(Absent) = 0
    BY DEF Rank, Absent
  <2>. QED BY <2>1, <2>2, <2>3
<1>3. run.completedAt = 0 /\ Reported(shardRows) = {}
  BY <1>2 DEF UnopenedIsBlank
<1>4. ASSUME NEW p \in Handlers
      PROVE  ~(AppendCommit(p) \/ CompleteCommit(p) \/ completeShardedRun(p))
  BY <1>2 DEF LedgerInv, WritersHaveRun, AppendCommit, CompleteCommit,
     completeShardedRun, Procs
<1>5. UNCHANGED shardRows
  BY <1>4, ShardWriters
<1>6. ASSUME NEW p \in Handlers PROVE ~OpenInsert(p)
  BY DEF OpenInsert, buildRunInsertValues, Absent
<1>7. ASSUME NEW p \in Handlers, reopenRunForWrites(p)
      PROVE  run'.completedAt = run.completedAt
  BY <1>2, <1>7 DEF reopenRunForWrites, Absent
<1>8. ASSUME NEW p \in Sweepers, SweepFlip(p) \/ SweepRewrite(p)
      PROVE  run'.completedAt = run.completedAt
  BY <1>1, <1>2, <1>8 DEF SweepFlip, SweepRewrite, TypeOK, Absent
<1>9. run'.completedAt = run.completedAt
  BY <1>4, <1>6, <1>7, <1>8, RunWriters
<1>. QED BY <1>3, <1>5, <1>9 DEF Reported

LEMMA BlankInvariant == Spec => []UnopenedIsBlank
<1>1. Init => UnopenedIsBlank
  BY DEF Init, UnopenedIsBlank, Reported
<1>. QED BY <1>1, BlankStep, LedgerInvariant, PTL DEF Spec

LEMMA FrozenStep ==
    ASSUME LedgerInv, UnopenedIsBlank, [Next]_vars,
           runClosedForWrites(run, now), NoWriter
    PROVE  /\ NoWriter'
           /\ \/ UNCHANGED <<run, rows, shardRows>>
              \/ \E p \in Sweepers : SweepRewrite(p)
<1>. USE DEF At
<1>1. TypeOK
  BY DEF LedgerInv
<1>2. run.status # "running" /\ run.status # Absent
  BY DEF runClosedForWrites, UnopenedIsBlank
<1>3. NoWriter'
  <2>. SUFFICES ASSUME NEW q \in Handlers,
                       req'[q].pc \in {"append", "complete", "completeShard"}
                PROVE  FALSE
    BY DEF NoWriter
  <2>1. req'[q] # req[q]
    BY DEF NoWriter
  <2>. QED BY <1>1, <2>1, Admission DEF Procs, Writers
<1>4. ASSUME NEW p \in Handlers
      PROVE  ~(OpenInsert(p) \/ AppendCommit(p) \/ CompleteCommit(p)
                 \/ completeShardedRun(p))
  BY <1>2 DEF NoWriter, OpenInsert, AppendCommit, CompleteCommit,
     completeShardedRun
<1>5. ASSUME NEW p \in Handlers, reopenRunForWrites(p)
      PROVE  UNCHANGED run
  BY <1>2, <1>5 DEF reopenRunForWrites
<1>6. ASSUME NEW p \in Sweepers PROVE ~SweepFlip(p)
  BY <1>2 DEF SweepFlip
<1>7. UNCHANGED rows /\ UNCHANGED shardRows
  BY <1>4, RowWriters, ShardWriters
<1>8. UNCHANGED run \/ \E p \in Sweepers : SweepRewrite(p)
  BY <1>4, <1>5, <1>6, RunWriters
<1>. QED BY <1>3, <1>7, <1>8

\* The write grace is a wall: once it has passed and the requests admitted
\* before it have ended, no request ever writes the run again.
THEOREM ClosedRunsAreFrozen == Spec => ClosedRunIsFrozen
<1>1. LedgerInv /\ UnopenedIsBlank /\ [Next]_vars
      => [runClosedForWrites(run, now) /\ NoWriter =>
            /\ NoWriter'
            /\ \/ UNCHANGED <<run, rows, shardRows>>
               \/ \E p \in Sweepers : SweepRewrite(p)]_vars
  BY FrozenStep
<1>. QED
  BY <1>1, LedgerInvariant, BlankInvariant, PTL DEF Spec, ClosedRunIsFrozen


-----------------------------------------------------------------------------
(* Every shard counts *)

\* Merging a terminal status gives a terminal status no better than either.
LEMMA MergeDominates ==
    ASSUME NEW current \in RunStatuses, NEW incoming \in TERMINAL_RUN_STATUSES
    PROVE  LET merged == mergeRunStatus(current, incoming)
           IN  /\ merged \in TERMINAL_RUN_STATUSES
               /\ runStatusSeverity(current) <= runStatusSeverity(merged)
               /\ runStatusSeverity(incoming) <= runStatusSeverity(merged)
BY DEF mergeRunStatus, runStatusSeverity, RunStatuses, TERMINAL_RUN_STATUSES,
   Absent

LEMMA SeverityType == \A s : runStatusSeverity(s) \in Nat
BY DEF runStatusSeverity

\* The reports there are after one more: no report is taken back, at most
\* one is new.
LEMMA ReportsGrow ==
    ASSUME TypeOK, NEW s \in ShardInputs, NEW v \in TERMINAL_RUN_STATUSES,
           NEW t \in Times
    PROVE  /\ Reported(shardRows) \subseteq Reported(recordShard(s, v, t))
           /\ Reported(recordShard(s, v, t))
                \subseteq Reported(shardRows) \cup {s.index}
<1>1. CASE s = NoShard
  BY <1>1 DEF recordShard
<1>2. CASE s # NoShard
  <2>1. s.index \in ShardIds /\ DOMAIN shardRows = ShardIds
    BY <1>2, ShardType DEF TypeOK
  <2>2. \A i \in ShardIds :
           recordShard(s, v, t)[i] = IF i = s.index
                                     THEN [status |-> v, completedAt |-> t]
                                     ELSE shardRows[i]
    BY <1>2, <2>1 DEF recordShard
  <2>3. v # NoRow
    BY DEF TERMINAL_RUN_STATUSES, NoRow
  <2>. QED BY <2>2, <2>3 DEF Reported
<1>. QED BY <1>1, <1>2

\* What a shard's completion does to the run: nothing but activity while a
\* shard is missing; with the last report, a terminal status no better than
\* any shard's and the number of shards that were awaited.
LEMMA ShardedCommit ==
    ASSUME TypeOK, NEW p \in Handlers, completeShardedRun(p)
    PROVE  LET n == req[p].expected
               all == Cardinality(Reported(shardRows')) >= n
           IN  /\ n \in Nat
               /\ Reported(shardRows) \subseteq Reported(shardRows')
               /\ Reported(shardRows')
                    \subseteq Reported(shardRows) \cup {req[p].shard.index}
               /\ all => /\ run'.expectedShards = n
                         /\ run'.status \in TERMINAL_RUN_STATUSES
                         /\ \A s \in StatusesOf(shardRows') :
                               runStatusSeverity(s)
                                 <= runStatusSeverity(run'.status)
               /\ ~all => /\ run'.expectedShards = run.expectedShards
                          /\ run'.status = run.status
<1>. DEFINE r == req[p]
            reports == recordShard(r.shard, r.status, r.at)
            all == Cardinality(Reported(reports)) >= r.expected
<1>1. /\ r.at \in Times /\ r.status \in TERMINAL_RUN_STATUSES
      /\ r.shard \in ShardInputs /\ r.expected \in Nat
  BY HandlerLocals, StatusesType DEF completeShardedRun, TypeOK, At
<1>2. reports \in [ShardIds -> [status : TERMINAL_RUN_STATUSES \cup {NoRow},
                               completedAt : Times]]
  BY <1>1, ReportsType DEF TypeOK
<1>3. shardRows' = reports
  BY DEF completeShardedRun
<1>4. /\ Reported(shardRows) \subseteq Reported(reports)
      /\ Reported(reports) \subseteq Reported(shardRows) \cup {r.shard.index}
  BY <1>1, ReportsGrow
<1>5. /\ run'.status \in ShardVerdicts(reports, r.expected)
      /\ run'.expectedShards = IF all THEN r.expected ELSE run.expectedShards
  <2>. HIDE DEF reports
  <2>. QED BY DEF completeShardedRun, reports, TypeOK
<1>. HIDE DEF reports
<1>6. CASE all
  <2>1. PICK s \in worstShardStatus(StatusesOf(reports)) :
           run'.status = mergeRunStatus(run.status, s)
    BY <1>5, <1>6 DEF ShardVerdicts
  <2>2. StatusesOf(reports) \subseteq TERMINAL_RUN_STATUSES
    BY <1>2 DEF StatusesOf, Reported
  <2>3. /\ s \in TERMINAL_RUN_STATUSES
        /\ \A u \in StatusesOf(reports) :
              runStatusSeverity(u) <= runStatusSeverity(s)
    BY <2>1, <2>2 DEF worstShardStatus
  <2>4. run.status \in RunStatuses
    BY DEF TypeOK
  <2>5. /\ run'.status \in TERMINAL_RUN_STATUSES
        /\ runStatusSeverity(s) <= runStatusSeverity(run'.status)
    BY <2>1, <2>3, <2>4, MergeDominates
  <2>6. \A u \in StatusesOf(reports) :
           runStatusSeverity(u) <= runStatusSeverity(run'.status)
    BY <2>3, <2>5, SeverityType
  <2>. QED BY <1>1, <1>3, <1>4, <1>5, <1>6, <2>5, <2>6
<1>7. CASE ~all
  <2>1. run'.status = run.status
    BY <1>5, <1>7 DEF ShardVerdicts
  <2>. QED BY <1>1, <1>3, <1>4, <1>5, <1>7, <2>1
<1>. QED BY <1>6, <1>7

\* Every step, seen by the shards: what it does to the run's status, to the
\* number of shards it awaits and to their reports.
LEMMA ShardMoves ==
    ASSUME TypeOK, [Next]_vars
    PROVE  \/ /\ run'.status = run.status
              /\ run'.expectedShards = run.expectedShards
              /\ shardRows' = shardRows
           \/ \E p \in Handlers :
                 /\ OpenInsert(p)
                 /\ run.status = Absent /\ run'.status = "running"
                 /\ req[p].shard \in ShardInputs
                 /\ run'.expectedShards = req[p].shard.total
                 /\ shardRows' = shardRows
           \/ \E p \in Handlers :
                 /\ run.status = "running" /\ run'.status = "running"
                 /\ req[p].shard \in ShardInputs
                 /\ run.expectedShards = 0
                 /\ run'.expectedShards = req[p].shard.total
                 /\ shardRows' = shardRows
           \/ \E p \in Handlers :
                 /\ At(p, "complete")
                 /\ req[p].status \in TERMINAL_RUN_STATUSES
                 /\ run'.status = mergeRunStatus(run.status, req[p].status)
                 /\ run'.expectedShards = run.expectedShards
                 /\ shardRows' = shardRows
           \/ \E p \in Handlers : completeShardedRun(p)
           \/ \E p \in Sweepers :
                 /\ At(p, "flip")
                 /\ req[p].status \in TERMINAL_RUN_STATUSES
                 /\ run.status = "running" /\ run'.status = req[p].status
                 /\ run'.expectedShards = run.expectedShards
                 /\ shardRows' = shardRows
<1>. USE DEF At
<1>1. ASSUME NEW p \in Handlers, OpenInsert(p)
      PROVE  /\ run.status = Absent /\ run'.status = "running"
             /\ req[p].shard \in ShardInputs
             /\ run'.expectedShards = req[p].shard.total
             /\ shardRows' = shardRows
  BY <1>1, HandlerLocals DEF OpenInsert, buildRunInsertValues, TypeOK
<1>2. ASSUME NEW p \in Handlers, reopenRunForWrites(p)
      PROVE  \/ /\ run'.status = run.status
                /\ run'.expectedShards = run.expectedShards
                /\ shardRows' = shardRows
             \/ /\ run.status = "running" /\ run'.status = "running"
                /\ req[p].shard \in ShardInputs
                /\ run.expectedShards = 0
                /\ run'.expectedShards = req[p].shard.total
                /\ shardRows' = shardRows
  <2>1. req[p].shard \in ShardInputs
    BY <1>2, HandlerLocals DEF reopenRunForWrites, TypeOK
  <2>. QED BY <1>2, <2>1 DEF reopenRunForWrites, TypeOK
<1>3. ASSUME NEW p \in Handlers, AppendCommit(p)
      PROVE  /\ run'.status = run.status
             /\ run'.expectedShards = run.expectedShards
             /\ shardRows' = shardRows
  BY <1>3 DEF AppendCommit, TypeOK
<1>4. ASSUME NEW p \in Handlers, CompleteCommit(p)
      PROVE  /\ At(p, "complete")
             /\ req[p].status \in TERMINAL_RUN_STATUSES
             /\ run'.status = mergeRunStatus(run.status, req[p].status)
             /\ run'.expectedShards = run.expectedShards
             /\ shardRows' = shardRows
  <2>1. req[p].status \in TERMINAL_RUN_STATUSES
    BY <1>4, HandlerLocals, StatusesType DEF CompleteCommit, TypeOK
  <2>. QED BY <1>4, <2>1 DEF CompleteCommit, TypeOK
<1>5. ASSUME NEW p \in Sweepers, SweepFlip(p)
      PROVE  /\ At(p, "flip")
             /\ req[p].status \in TERMINAL_RUN_STATUSES
             /\ run.status = "running" /\ run'.status = req[p].status
             /\ run'.expectedShards = run.expectedShards
             /\ shardRows' = shardRows
  <2>1. req[p].status \in TERMINAL_RUN_STATUSES
    BY <1>5, SweeperLocals DEF SweepFlip, TypeOK
  <2>. QED BY <1>5, <2>1 DEF SweepFlip, TypeOK
<1>6. ASSUME NEW p \in Sweepers, SweepRewrite(p)
      PROVE  /\ run'.status = run.status
             /\ run'.expectedShards = run.expectedShards
             /\ shardRows' = shardRows
  BY <1>6 DEF SweepRewrite, TypeOK
<1>7. CASE UNCHANGED run
  <2>1. UNCHANGED shardRows \/ \E p \in Handlers : completeShardedRun(p)
    BY ShardWriters
  <2>. QED BY <1>7, <2>1
<1>8. \/ UNCHANGED run
      \/ \E p \in Handlers : \/ OpenInsert(p) \/ reopenRunForWrites(p)
                             \/ AppendCommit(p) \/ CompleteCommit(p)
                             \/ completeShardedRun(p)
      \/ \E p \in Sweepers : SweepFlip(p) \/ SweepRewrite(p)
  BY RunWriters
<1>. QED BY <1>1, <1>2, <1>3, <1>4, <1>5, <1>6, <1>7, <1>8


\* The clients of a run agree on how many shards it has: every request
\* names a shard, or those that do name one total.  (A suite's shards are
\* configured with one total; a client without a shard may be among them.)
SameSuite ==
    \/ NoShard \notin ShardInputs
    \/ \A s, u \in ShardInputs \ {NoShard} : s.total = u.total

FiniteReports == IsFiniteSet(Reported(shardRows))

\* Where every client names a shard, a run that is open awaits some.
OpenRunsAwait ==
    NoShard \notin ShardInputs /\ run.status # Absent
        => run.expectedShards # 0

\* The total a completion waits for is the run's, or what the run's will be.
Awaits(r, n) ==
    \/ n = r.expectedShards
    \/ /\ r.expectedShards = 0
       /\ {s.total : s \in ShardInputs \ {NoShard}} = {n}

CompletionsAgree ==
    \A p \in Handlers :
        At(p, "completeShard") => /\ req[p].expected > 1
                                  /\ Awaits(run, req[p].expected)

\* While a run does not know how many shards it awaits, some are missing.
UncountedRunsLackShards ==
    run.status = "running" /\ run.expectedShards = 0 =>
        \A s \in ShardInputs :
            s.total > 1 => ~(Cardinality(Reported(shardRows)) >= s.total)

ShardInv ==
    /\ LedgerInv
    /\ UnopenedIsBlank
    /\ FiniteReports
    /\ OpenRunsAwait
    /\ CompletionsAgree
    /\ UncountedRunsLackShards

LEMMA FiniteStep == TypeOK /\ FiniteReports /\ [Next]_vars => FiniteReports'
<1>. SUFFICES ASSUME TypeOK, FiniteReports, [Next]_vars PROVE FiniteReports'
  OBVIOUS
<1>1. CASE UNCHANGED shardRows
  BY <1>1 DEF FiniteReports, Reported
<1>2. ASSUME NEW p \in Handlers, completeShardedRun(p)
      PROVE  FiniteReports'
  <2>1. Reported(shardRows')
          \subseteq Reported(shardRows) \cup {req[p].shard.index}
    BY <1>2, ShardedCommit
  <2>2. IsFiniteSet(Reported(shardRows) \cup {req[p].shard.index})
    BY FS_AddElement DEF FiniteReports
  <2>3. IsFiniteSet(Reported(shardRows'))
    BY <2>1, <2>2, FS_Subset
  <2>. QED BY <2>3 DEF FiniteReports, Reported
<1>. QED BY <1>1, <1>2, ShardWriters

\* A total is a natural number, and 0 only of a client without a shard.
LEMMA TotalType ==
    ASSUME NEW s \in ShardInputs
    PROVE  /\ s.total \in Nat
           /\ s # NoShard <=> s.total # 0
BY ShardsType DEF NoShard

LEMMA AwaitStep ==
    LedgerInv /\ OpenRunsAwait /\ CompletionsAgree /\ [Next]_vars
        => OpenRunsAwait'
<1>. SUFFICES ASSUME LedgerInv, OpenRunsAwait, CompletionsAgree, [Next]_vars,
                     NoShard \notin ShardInputs, run'.status # Absent
              PROVE  run'.expectedShards # 0
  BY DEF OpenRunsAwait
<1>1. TypeOK
  BY DEF LedgerInv
<1>2. \A s \in ShardInputs : s.total # 0
  BY TotalType
<1>3. CASE run'.expectedShards = run.expectedShards /\ run.status # Absent
  BY <1>3 DEF OpenRunsAwait
<1>4. ASSUME NEW p \in Handlers, completeShardedRun(p)
      PROVE  run'.expectedShards # 0
  <2>1. run.status # Absent /\ req[p].expected > 1
    BY <1>4 DEF LedgerInv, WritersHaveRun, CompletionsAgree,
       completeShardedRun, At, Procs
  <2>2. \/ run'.expectedShards = req[p].expected
        \/ run'.expectedShards = run.expectedShards
    BY <1>1, <1>4, ShardedCommit
  <2>. QED BY <2>1, <2>2 DEF OpenRunsAwait
<1>5. ASSUME NEW p \in Handlers, At(p, "complete")
      PROVE  run.status # Absent
  BY <1>5 DEF LedgerInv, WritersHaveRun, At, Procs
<1>6. "running" # Absent
  BY DEF Absent
<1>. QED BY <1>1, <1>2, <1>3, <1>4, <1>5, <1>6, ShardMoves

LEMMA AgreeStep ==
    ASSUME SameSuite
    PROVE  ShardInv /\ [Next]_vars => CompletionsAgree'
<1>. SUFFICES ASSUME ShardInv, [Next]_vars,
                     NEW q \in Handlers, req'[q].pc = "completeShard"
              PROVE  req'[q].expected > 1 /\ Awaits(run', req'[q].expected)
  BY DEF CompletionsAgree, At
<1>1. TypeOK /\ WritersHaveRun
  BY DEF ShardInv, LedgerInv
<1>2. run.expectedShards \in Nat
  BY <1>1 DEF TypeOK
<1>3. CASE req'[q] # req[q]
  <2>1. PICK s \in ShardInputs :
           /\ req'[q].expected = IF run.expectedShards # 0
                                 THEN run.expectedShards ELSE s.total
           /\ req'[q].expected > 1
    BY <1>1, <1>3, Admission DEF Writers, Procs
  <2>2. UNCHANGED run /\ run.status # Absent
    BY <1>1, <1>3, Admission DEF Writers, Procs
  <2>3. CASE run.expectedShards # 0
    <3>1. req'[q].expected = run'.expectedShards
      BY <2>1, <2>2, <2>3
    <3>. QED BY <2>1, <3>1 DEF Awaits
  <2>4. CASE run.expectedShards = 0
    <3>1. NoShard \in ShardInputs
      BY <2>2, <2>4 DEF ShardInv, OpenRunsAwait
    <3>2. s # NoShard /\ req'[q].expected = s.total
      BY <2>1, <2>4, TotalType DEF NoShard
    <3>3. \A u \in ShardInputs \ {NoShard} : u.total = s.total
      BY <3>1, <3>2 DEF SameSuite
    <3>4. {u.total : u \in ShardInputs \ {NoShard}} = {s.total}
      BY <3>2, <3>3
    <3>. QED BY <2>1, <2>2, <2>4, <3>2, <3>4 DEF Awaits
  <2>. QED BY <2>3, <2>4
<1>4. CASE req'[q] = req[q]
  <2>0. PICK n : n = req[q].expected
    OBVIOUS
  <2>1. /\ n > 1 /\ Awaits(run, n)
        /\ run.status # Absent
    BY <1>1, <1>4, <2>0 DEF ShardInv, CompletionsAgree, At, WritersHaveRun, Procs
  <2>2. ASSUME run'.expectedShards = run.expectedShards
        PROVE  Awaits(run', n)
    BY <2>1, <2>2 DEF Awaits
  <2>3. ASSUME NEW p \in Handlers, req[p].shard \in ShardInputs,
               run.expectedShards = 0,
               run'.expectedShards = req[p].shard.total
        PROVE  Awaits(run', n)
    <3>1. CASE req[p].shard = NoShard
      BY <2>1, <2>3, <3>1 DEF Awaits, NoShard
    <3>2. CASE req[p].shard # NoShard
      <4>1. run'.expectedShards = n
        BY <2>1, <2>3, <3>2 DEF Awaits
      <4>. QED BY <4>1 DEF Awaits
    <3>. QED BY <3>1, <3>2
  <2>4. ASSUME NEW p \in Handlers, completeShardedRun(p),
               run'.expectedShards = req[p].expected
        PROVE  Awaits(run', n)
    <3>1. Awaits(run, req[p].expected) /\ req[p].expected > 1
      BY <2>4 DEF ShardInv, CompletionsAgree, completeShardedRun
    <3>2. CASE run.expectedShards # 0
      BY <2>1, <2>4, <3>1, <3>2 DEF Awaits
    <3>3. CASE run.expectedShards = 0
      <4>1. n = run'.expectedShards
        BY <2>1, <2>4, <3>1, <3>3 DEF Awaits
      <4>. QED BY <4>1 DEF Awaits
    <3>. QED BY <3>2, <3>3
  <2>5. ASSUME NEW p \in Handlers, completeShardedRun(p)
        PROVE  Awaits(run', n)
    <3>1. \/ run'.expectedShards = req[p].expected
          \/ run'.expectedShards = run.expectedShards
      BY <1>1, <2>5, ShardedCommit
    <3>. QED BY <2>2, <2>4, <2>5, <3>1
  <2>6. Awaits(run', n)
    <3>1. \/ run'.expectedShards = run.expectedShards
          \/ \E p \in Handlers : OpenInsert(p) /\ run.status = Absent
          \/ \E p \in Handlers :
                /\ req[p].shard \in ShardInputs
                /\ run.expectedShards = 0
                /\ run'.expectedShards = req[p].shard.total
          \/ \E p \in Handlers : completeShardedRun(p)
      BY <1>1, ShardMoves
    <3>. QED BY <2>1, <2>2, <2>3, <2>5, <3>1
  <2>. QED BY <1>4, <2>0, <2>1, <2>6
<1>. QED BY <1>3, <1>4


\* The number of reports never falls, and is a natural number.
LEMMA ReportCount ==
    ASSUME TypeOK, FiniteReports, [Next]_vars
    PROVE  /\ Cardinality(Reported(shardRows)) \in Nat
           /\ Cardinality(Reported(shardRows')) \in Nat
           /\ Cardinality(Reported(shardRows)) <= Cardinality(Reported(shardRows'))
<1>1. FiniteReports'
  BY FiniteStep
<1>2. IsFiniteSet(Reported(shardRows')) /\ IsFiniteSet(Reported(shardRows))
  BY <1>1 DEF FiniteReports, Reported
<1>3. Reported(shardRows) \subseteq Reported(shardRows')
  <2>1. CASE UNCHANGED shardRows
    BY <2>1 DEF Reported
  <2>2. ASSUME NEW p \in Handlers, completeShardedRun(p)
        PROVE  Reported(shardRows) \subseteq Reported(shardRows')
    BY <2>2, ShardedCommit
  <2>. QED BY <2>1, <2>2, ShardWriters
<1>. QED BY <1>2, <1>3, FS_CardinalityType, FS_Subset

LEMMA UncountedStep ==
    ShardInv /\ [Next]_vars => UncountedRunsLackShards'
<1>. DEFINE old == Cardinality(Reported(shardRows))
            new == Cardinality(Reported(shardRows'))
<1>. SUFFICES ASSUME ShardInv, [Next]_vars,
                     run'.status = "running", run'.expectedShards = 0,
                     NEW s \in ShardInputs, s.total > 1
              PROVE  ~(new >= s.total)
  BY DEF UncountedRunsLackShards, Reported
<1>1. TypeOK /\ FiniteReports
  BY DEF ShardInv, LedgerInv
<1>2. old \in Nat /\ new \in Nat /\ s.total \in Nat
  BY <1>1, ReportCount, TotalType
<1>3. ASSUME run.status = "running", run.expectedShards = 0,
             shardRows' = shardRows
      PROVE  ~(new >= s.total)
  BY <1>3 DEF ShardInv, UncountedRunsLackShards
<1>4. ASSUME run.status = Absent, shardRows' = shardRows
      PROVE  ~(new >= s.total)
  <2>1. Reported(shardRows) = {}
    BY <1>4 DEF ShardInv, UnopenedIsBlank
  <2>2. new = 0
    BY <1>4, <2>1, FS_EmptySet
  <2>. HIDE DEF new
  <2>. QED BY <1>2, <2>2
<1>5. ASSUME NEW p \in Handlers, completeShardedRun(p)
      PROVE  ~(new >= s.total)
  <2>1. req[p].expected > 1 /\ Awaits(run, req[p].expected)
    BY <1>5 DEF ShardInv, CompletionsAgree, completeShardedRun
  <2>2. req[p].expected \in Nat
    BY <1>1, <1>5, ShardedCommit
  <2>3. ~(new >= req[p].expected)
    <3>1. new >= req[p].expected => run'.expectedShards = req[p].expected
      BY <1>1, <1>5, ShardedCommit
    <3>. HIDE DEF new
    <3>. QED BY <2>1, <3>1
  <2>4. run.expectedShards = 0
    BY <1>1, <1>5, <2>3, ShardedCommit
  <2>5. s # NoShard
    BY DEF NoShard
  <2>6. s.total = req[p].expected
    BY <2>1, <2>4, <2>5 DEF Awaits
  <2>. QED BY <2>3, <2>6
<1>6. ASSUME NEW v \in TERMINAL_RUN_STATUSES,
             run'.status = mergeRunStatus(run.status, v)
      PROVE  FALSE
  <2>1. run'.status \in TERMINAL_RUN_STATUSES
    BY <1>1, <1>6, MergeDominates DEF TypeOK
  <2>. QED BY <2>1 DEF TERMINAL_RUN_STATUSES
<1>7. ASSUME NEW v \in TERMINAL_RUN_STATUSES, run'.status = v PROVE FALSE
  BY <1>7 DEF TERMINAL_RUN_STATUSES
<1>. HIDE DEF old, new
<1>. QED BY <1>1, <1>3, <1>4, <1>5, <1>6, <1>7, ShardMoves

LEMMA ShardInvariant == SameSuite => (Spec => []ShardInv)
<1>. SUFFICES ASSUME SameSuite PROVE Spec => []ShardInv
  OBVIOUS
<1>1. Init => ShardInv
  <2>. SUFFICES ASSUME Init PROVE ShardInv
    OBVIOUS
  <2>1. Reported(shardRows) = {}
    BY DEF Init, Reported
  <2>2. LedgerInv
    BY TypeInit DEF LedgerInv, WritersHaveRun, Init, Idle
  <2>3. UnopenedIsBlank /\ OpenRunsAwait
    BY <2>1 DEF Init, UnopenedIsBlank, OpenRunsAwait
  <2>4. FiniteReports
    BY <2>1, FS_EmptySet DEF FiniteReports
  <2>5. CompletionsAgree
    BY DEF Init, CompletionsAgree, At, Idle, Procs
  <2>6. UncountedRunsLackShards
    BY DEF Init, UncountedRunsLackShards, Absent
  <2>. QED BY <2>2, <2>3, <2>4, <2>5, <2>6 DEF ShardInv
<1>2. ShardInv /\ [Next]_vars => ShardInv'
  <2>. SUFFICES ASSUME ShardInv, [Next]_vars PROVE ShardInv'
    OBVIOUS
  <2>1. LedgerInv'
    BY TypeStep, WritersStep DEF ShardInv, LedgerInv
  <2>2. UnopenedIsBlank'
    BY BlankStep DEF ShardInv
  <2>3. FiniteReports'
    BY FiniteStep DEF ShardInv, LedgerInv
  <2>4. OpenRunsAwait'
    BY AwaitStep DEF ShardInv
  <2>5. CompletionsAgree'
    BY AgreeStep
  <2>6. UncountedRunsLackShards'
    BY UncountedStep
  <2>. QED BY <2>1, <2>2, <2>3, <2>4, <2>5, <2>6 DEF ShardInv
<1>. QED BY <1>1, <1>2, PTL DEF Spec

LEMMA EveryShardStep == ShardInv /\ EveryShardCounts /\ [Next]_vars => EveryShardCounts'
<1>. DEFINE old == Cardinality(Reported(shardRows))
            new == Cardinality(Reported(shardRows'))
            Worst(reports, v) ==
                /\ v \in TERMINAL_RUN_STATUSES
                /\ \A s \in StatusesOf(reports) :
                      runStatusSeverity(s) <= runStatusSeverity(v)
<1>. SUFFICES ASSUME ShardInv, EveryShardCounts, [Next]_vars,
                     run'.expectedShards > 1, new >= run'.expectedShards
              PROVE  Worst(shardRows', run'.status)
  BY DEF EveryShardCounts, Reported, StatusesOf
<1>1. TypeOK /\ FiniteReports /\ TypeOK'
  BY TypeStep DEF ShardInv, LedgerInv
<1>2. /\ old \in Nat /\ new \in Nat
      /\ run.expectedShards \in Nat /\ run'.expectedShards \in Nat
  BY <1>1, ReportCount DEF TypeOK
<1>3. run.expectedShards > 1 /\ old >= run.expectedShards
      => Worst(shardRows, run.status)
  BY DEF EveryShardCounts
<1>4. ~Worst(shardRows, "running")
  BY DEF TERMINAL_RUN_STATUSES
<1>. HIDE DEF Worst
<1>5. ASSUME run'.status = run.status, run'.expectedShards = run.expectedShards,
             shardRows' = shardRows
      PROVE  Worst(shardRows', run'.status)
  BY <1>3, <1>5
<1>6. ASSUME run.status = Absent, shardRows' = shardRows
      PROVE  FALSE
  <2>1. Reported(shardRows) = {}
    BY <1>6 DEF ShardInv, UnopenedIsBlank
  <2>2. new = 0
    BY <1>6, <2>1, FS_EmptySet
  <2>. HIDE DEF new
  <2>. QED BY <1>2, <2>2
<1>7. ASSUME NEW p \in Handlers, run.status = "running",
             req[p].shard \in ShardInputs, run.expectedShards = 0,
             run'.expectedShards = req[p].shard.total,
             shardRows' = shardRows
      PROVE  FALSE
  BY <1>7 DEF ShardInv, UncountedRunsLackShards
<1>8. ASSUME NEW v \in TERMINAL_RUN_STATUSES,
             run'.status = mergeRunStatus(run.status, v),
             run'.expectedShards = run.expectedShards,
             shardRows' = shardRows
      PROVE  Worst(shardRows', run'.status)
  <2>1. Worst(shardRows, run.status)
    BY <1>3, <1>8
  <2>2. /\ run'.status \in TERMINAL_RUN_STATUSES
        /\ runStatusSeverity(run.status) <= runStatusSeverity(run'.status)
    BY <1>1, <1>8, MergeDominates DEF TypeOK
  <2>3. \A s \in StatusesOf(shardRows) :
           runStatusSeverity(s) <= runStatusSeverity(run'.status)
    BY <2>1, <2>2, SeverityType DEF Worst
  <2>. QED BY <1>8, <2>2, <2>3 DEF Worst
<1>9. ASSUME NEW p \in Handlers, completeShardedRun(p)
      PROVE  Worst(shardRows', run'.status)
  <2>. DEFINE n == req[p].expected
  <2>1. n > 1 /\ Awaits(run, n)
    BY <1>9 DEF ShardInv, CompletionsAgree, completeShardedRun
  <2>2. CASE new >= n
    BY <1>1, <1>9, <2>2, ShardedCommit DEF Worst
  <2>3. CASE ~(new >= n)
    <3>1. run'.expectedShards = run.expectedShards
      BY <1>1, <1>9, <2>3, ShardedCommit
    <3>2. n = run.expectedShards
      <4>. HIDE DEF n
      <4>. QED BY <1>2, <2>1, <3>1 DEF Awaits
    <3>. QED BY <2>3, <3>1, <3>2
  <2>. QED BY <2>2, <2>3
<1>10. ASSUME run.status = "running", run'.expectedShards = run.expectedShards,
              shardRows' = shardRows
       PROVE  FALSE
  BY <1>3, <1>4, <1>10
<1>. HIDE DEF old, new
<1>. QED BY <1>1, <1>5, <1>6, <1>7, <1>8, <1>9, <1>10, ShardMoves

\* No shard's failure is lost: with the last expected report the run is
\* finished and at least as bad as every shard, whatever the watchdog, the
\* duplicates and the reopens did in between, if the run's clients agree on
\* the number of shards.
THEOREM NoShardIsLost == SameSuite => (Spec => []EveryShardCounts)
<1>. SUFFICES ASSUME SameSuite PROVE Spec => []EveryShardCounts
  OBVIOUS
<1>1. Init => EveryShardCounts
  BY DEF Init, EveryShardCounts
<1>2. Spec => []ShardInv
  BY ShardInvariant
<1>. QED BY <1>1, <1>2, EveryShardStep, PTL DEF Spec


\* What the watchdog is about to write is interrupted or worse; and where
\* every client names a shard, a completion that waits for no other shard
\* is of a run that awaits at most one.
VerdictsInFlight ==
    /\ \A p \in Sweepers :
          At(p, "flip") => runStatusSeverity(req[p].status)
                             >= runStatusSeverity("interrupted")
    /\ \A p \in Handlers :
          At(p, "complete") => ~(run.expectedShards > 1)

LEMMA VerdictsStep ==
    ASSUME NoShard \notin ShardInputs
    PROVE  ShardInv /\ VerdictsInFlight /\ [Next]_vars => VerdictsInFlight'
<1>. SUFFICES ASSUME ShardInv, VerdictsInFlight, [Next]_vars
              PROVE  VerdictsInFlight'
  OBVIOUS
<1>1. TypeOK /\ WritersHaveRun
  BY DEF ShardInv, LedgerInv
<1>2. ASSUME NEW q \in Sweepers, req'[q].pc = "flip"
      PROVE  runStatusSeverity(req'[q].status)
               >= runStatusSeverity("interrupted")
  <2>1. CASE req'[q] = req[q]
    BY <1>2, <2>1 DEF VerdictsInFlight, At
  <2>2. CASE req'[q] # req[q]
    <3>1. req'[q].status \in
             worstShardStatus(StatusesOf(shardRows) \cup {"interrupted"})
      BY <1>1, <1>2, <2>2, Admission DEF Writers, Procs
    <3>2. runStatusSeverity("interrupted") <= runStatusSeverity(req'[q].status)
      BY <3>1 DEF worstShardStatus
    <3>. QED BY <3>2, SeverityType
  <2>. QED BY <2>1, <2>2
<1>3. ASSUME NEW q \in Handlers, req'[q].pc = "complete"
      PROVE  ~(run'.expectedShards > 1)
  <2>1. CASE req'[q] # req[q]
    <3>1. PICK s \in ShardInputs :
             /\ req'[q].expected = IF run.expectedShards # 0
                                   THEN run.expectedShards ELSE s.total
             /\ IF req'[q].expected > 1
                THEN req'[q].pc = "completeShard"
                ELSE req'[q].pc = "complete"
      BY <1>1, <1>3, <2>1, Admission DEF Writers, Procs
    <3>2. UNCHANGED run /\ run.status # Absent
      BY <1>1, <1>3, <2>1, Admission DEF Writers, Procs
    <3>3. run.expectedShards # 0
      BY <3>2 DEF ShardInv, OpenRunsAwait
    <3>. QED BY <1>3, <3>1, <3>2, <3>3
  <2>2. CASE req'[q] = req[q]
    <3>1. run.status # Absent /\ ~(run.expectedShards > 1)
      BY <1>1, <1>3, <2>2 DEF VerdictsInFlight, WritersHaveRun, At, Procs
    <3>2. run.expectedShards # 0
      BY <3>1 DEF ShardInv, OpenRunsAwait
    <3>3. ASSUME NEW p \in Handlers, completeShardedRun(p)
          PROVE  run'.expectedShards = run.expectedShards
      <4>1. Awaits(run, req[p].expected)
        BY <3>3 DEF ShardInv, CompletionsAgree, completeShardedRun
      <4>2. req[p].expected = run.expectedShards
        BY <3>2, <4>1 DEF Awaits
      <4>. QED BY <1>1, <3>3, <4>2, ShardedCommit
    <3>4. run'.expectedShards = run.expectedShards
      BY <1>1, <3>1, <3>2, <3>3, ShardMoves
    <3>. QED BY <3>1, <3>4
  <2>. QED BY <2>1, <2>2
<1>. QED BY <1>2, <1>3 DEF VerdictsInFlight, At

LEMMA NoPassStep ==
    ASSUME NoShard \notin ShardInputs
    PROVE  /\ ShardInv /\ VerdictsInFlight /\ NoPassWithoutEveryShard
           /\ [Next]_vars
           => NoPassWithoutEveryShard'
<1>. DEFINE old == Cardinality(Reported(shardRows))
            new == Cardinality(Reported(shardRows'))
            Bad(v) == runStatusSeverity(v) >= runStatusSeverity("interrupted")
<1>. SUFFICES ASSUME ShardInv, VerdictsInFlight, NoPassWithoutEveryShard,
                     [Next]_vars,
                     run'.expectedShards > 1,
                     run'.status \in TERMINAL_RUN_STATUSES,
                     new < run'.expectedShards
              PROVE  Bad(run'.status)
  BY DEF NoPassWithoutEveryShard, Reported
<1>1. TypeOK /\ FiniteReports /\ TypeOK' /\ WritersHaveRun
  BY TypeStep DEF ShardInv, LedgerInv
<1>2. /\ old \in Nat /\ new \in Nat /\ old <= new
      /\ run.expectedShards \in Nat /\ run'.expectedShards \in Nat
  BY <1>1, ReportCount DEF TypeOK
<1>3. /\ run.expectedShards > 1 /\ run.status \in TERMINAL_RUN_STATUSES
      /\ old < run.expectedShards
      => Bad(run.status)
  BY DEF NoPassWithoutEveryShard
<1>4. ASSUME NEW p \in Sweepers, At(p, "flip"), run'.status = req[p].status
      PROVE  Bad(run'.status)
  BY <1>4 DEF VerdictsInFlight
<1>. HIDE DEF Bad
<1>5. ASSUME run'.status = run.status, run'.expectedShards = run.expectedShards
      PROVE  Bad(run'.status)
  <2>. HIDE DEF old, new
  <2>. QED BY <1>2, <1>3, <1>5
<1>6. run'.status # "running"
  BY DEF TERMINAL_RUN_STATUSES
<1>7. ASSUME NEW p \in Handlers, At(p, "complete"),
             run'.expectedShards = run.expectedShards
      PROVE  FALSE
  BY <1>7 DEF VerdictsInFlight
<1>8. ASSUME NEW p \in Handlers, completeShardedRun(p)
      PROVE  Bad(run'.status)
  <2>. DEFINE n == req[p].expected
  <2>1. run.status # Absent /\ Awaits(run, n)
    BY <1>1, <1>8 DEF ShardInv, CompletionsAgree, completeShardedRun,
       WritersHaveRun, At, Procs
  <2>2. run.expectedShards # 0
    BY <2>1 DEF ShardInv, OpenRunsAwait
  <2>3. n = run.expectedShards
    <3>. HIDE DEF n
    <3>. QED BY <2>1, <2>2 DEF Awaits
  <2>4. CASE new >= n
    <3>1. run'.expectedShards = n
      BY <1>1, <1>8, <2>4, ShardedCommit
    <3>. HIDE DEF new, n
    <3>. QED BY <1>2, <2>4, <3>1
  <2>5. CASE ~(new >= n)
    <3>1. run'.status = run.status /\ run'.expectedShards = run.expectedShards
      BY <1>1, <1>8, <2>5, ShardedCommit
    <3>. QED BY <1>5, <3>1
  <2>. QED BY <2>4, <2>5
<1>. HIDE DEF old, new
<1>. QED BY <1>1, <1>4, <1>5, <1>6, <1>7, <1>8, ShardMoves

\* Where every client names its shard, a run is never shown as passed while
\* a shard is missing: finished early, by the watchdog, it is interrupted
\* or worse.
THEOREM NoEarlyPass ==
    NoShard \notin ShardInputs => (Spec => []NoPassWithoutEveryShard)
<1>. SUFFICES ASSUME NoShard \notin ShardInputs
              PROVE  Spec => []NoPassWithoutEveryShard
  OBVIOUS
<1>1. Init => VerdictsInFlight /\ NoPassWithoutEveryShard
  <2>. SUFFICES ASSUME Init PROVE VerdictsInFlight /\ NoPassWithoutEveryShard
    OBVIOUS
  <2>1. VerdictsInFlight
    BY DEF Init, VerdictsInFlight, At, Idle, Procs
  <2>2. NoPassWithoutEveryShard
    BY DEF Init, NoPassWithoutEveryShard
  <2>. QED BY <2>1, <2>2
<1>2. Spec => []ShardInv
  BY ShardInvariant DEF SameSuite
<1>. QED BY <1>1, <1>2, VerdictsStep, NoPassStep, PTL DEF Spec
=============================================================================
