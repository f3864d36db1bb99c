---------------------------- MODULE ArtifactStore ----------------------------
(***************************************************************************)
(* The artifacts of ONE run: registration of rows by identity, the team's  *)
(* metered bytes and their quota, uploads through the worker, the nightly  *)
(* re-base of the meter and the retention sweep.                           *)
(*                                                                         *)
(* Registrations are concurrent requests; each await is a step, each       *)
(* transaction one step, and what a request has read is in its record.  An *)
(* artifact's key in R2 holds its id, so an object is known by identity    *)
(* and id.  Retention windows are days and the run takes no write half an  *)
(* hour after its last one, so nothing expires while a request or a PUT is *)
(* in progress.                                                            *)
(***************************************************************************)
EXTENDS Integers, FiniteSets, Sequences, FiniteSetsExt

CONSTANTS
    Requests,   \* registration requests, each run once
    Idents,     \* artifact identities (test, type, name, attempt, role)
    Tests,      \* test results of the run
    TestOf,     \* the test result an identity belongs to
    Payloads,   \* what a request may register: sequences of [ident, size]
    Limit,      \* artifactBytes of the team's tier
    LastMonth,  \* bound: calendar months are 1 .. LastMonth
    SweepLimit, \* rows a retention pass takes at a time
    Expiring,   \* bound: identities and tests that may pass their window
    MaxObjects, \* bound: objects in R2 and on their way there
    MaxCrashes, \* bound: sweeps cut off between two steps
    MaxRebases  \* bound: runs of the nightly re-base

NoRow == [id |-> <<>>, size |-> 0, month |-> 0]
Months == 1 .. LastMonth
MaxRebaseTries == 5

ASSUME StorePayloads ==
    \A s \in Payloads : s # <<>> /\ s \in Seq([ident : Idents, size : Nat])
ASSUME StoreTestOf == TestOf \in [Idents -> Tests]
ASSUME StoreBounds ==
    /\ {Limit, MaxCrashes, MaxRebases, MaxObjects} \subseteq Nat
    /\ Expiring \subseteq Idents \cup Tests /\ IsFiniteSet(Idents)
    /\ {LastMonth, SweepLimit} \subseteq Nat \ {0}

VARIABLES
    month,      \* the calendar month, the key of the meter's row
    run,        \* "open", "closed" for writes, or "gone" with its project
    tests,      \* testResults rows still there
    rows,       \* artifacts rows, unique by identity
    meter,      \* usageCounters.artifactBytes, per month
    reg,        \* per registration: control point and local variables
    handed,     \* artifacts whose upload URL was answered
    puts,       \* uploads being streamed
    bucket,     \* objects in R2
    expired,    \* identities and tests past their retention window
    sweep,      \* the retention invocation
    rebase,     \* the re-base transaction
    crashes     \* history

storeVars == <<month, run, tests, rows, meter, reg, handed, puts, bucket,
               expired, sweep, rebase, crashes>>
regVars == <<month, run, tests, handed, puts, bucket, expired, sweep, crashes>>

Key(i, id) == [ident |-> i, id |-> id]
HasRow(i) == rows[i] # NoRow
Known(i) == Key(i, rows[i].id)
NewReg == [pc |-> "new", month |-> 0, attempt |-> 0, payload |-> <<>>,
           known |-> [i \in Idents |-> NoRow]]
Answered == [NewReg EXCEPT !.pc = "answered"]
NoSweep == [pc |-> "idle", tests |-> {}, keys |-> {}]
NoRebase == [pc |-> "idle", month |-> 0, total |-> 0, tries |-> 0,
             conflict |-> FALSE, skewed |-> FALSE, left |-> MaxRebases]

StoreInit ==
    /\ month = 1
    /\ run = "open"
    /\ tests = Tests
    /\ rows = [i \in Idents |-> NoRow]
    /\ meter = [m \in Months |-> 0]
    /\ reg = [r \in Requests |-> NewReg]
    /\ handed = {} /\ puts = {} /\ bucket = {} /\ expired = {}
    /\ sweep = NoSweep
    /\ rebase = NoRebase
    /\ crashes = 0

-----------------------------------------------------------------------------
(* What a registration writes, as planned from the rows it has read *)

Positions(s, i) == {k \in DOMAIN s : s[k].ident = i}
Requested(s) == {s[k].ident : k \in DOMAIN s}
FirstSize(s, i) == s[Min(Positions(s, i))].size
LastSize(s, i) == s[Max(Positions(s, i))].size

\* A duplicate of a fresh identity reuses the row planned for the first one,
\* size included; duplicates of a stored identity end at the last size.
RowsToInsert(r) == {i \in Requested(r.payload) : r.known[i] = NoRow}
RowsToUpdate(r) ==
    {i \in Requested(r.payload) \ RowsToInsert(r) :
        \E k \in Positions(r.payload, i) :
            r.payload[k].size # r.known[i].size}
\* Mutant: a refreshed row is metered like a fresh one.
WholeSize(r, i) == LastSize(r.payload, i)
UpdateBytes(r, i) == LastSize(r.payload, i) - r.known[i].size
NetNewBytes(r) ==
    SumFunction([i \in RowsToInsert(r) |-> FirstSize(r.payload, i)])
    + SumFunction([i \in RowsToUpdate(r) |-> UpdateBytes(r, i)])

MintedId(p, r) == <<p, r.attempt>>
PlannedId(p, r, i) == IF i \in RowsToInsert(r) THEN MintedId(p, r)
                      ELSE r.known[i].id

-----------------------------------------------------------------------------
(* registerArtifacts *)

AtReg(p, label) == reg[p].pc = label
SetReg(p, r) == reg' = [reg EXCEPT ![p] = r]

\* The run is looked up, and refused once closed.
registerBegin(p, s) ==
    /\ AtReg(p, "new")
    /\ SetReg(p, IF run = "open"
                 THEN [NewReg EXCEPT !.pc = "tests", !.month = month,
                                     !.payload = s]
                 ELSE Answered)
    /\ UNCHANGED <<regVars, rows, meter, rebase>>

registerTests(p) ==
    /\ AtReg(p, "tests")
    /\ SetReg(p, IF \A i \in Requested(reg[p].payload) : TestOf[i] \in tests
                 THEN [reg[p] EXCEPT !.pc = "read"] ELSE Answered)
    /\ UNCHANGED <<regVars, rows, meter, rebase>>

\* fetchExistingArtifactRows and the plan; nothing to write goes to the URLs.
registerRead(p) ==
    /\ AtReg(p, "read")
    /\ LET r == [reg[p] EXCEPT
                   !.known = [i \in Idents |->
                                IF i \in Requested(reg[p].payload)
                                THEN rows[i] ELSE NoRow]]
       IN  SetReg(p, [r EXCEPT !.pc =
                        IF RowsToInsert(r) \cup RowsToUpdate(r) = {}
                        THEN "urls"
                        ELSE IF NetNewBytes(r) > 0 THEN "quota" ELSE "commit"])
    /\ UNCHANGED <<regVars, rows, meter, rebase>>

registerQuota(p) ==
    /\ AtReg(p, "quota")
    /\ SetReg(p, IF meter[reg[p].month] + NetNewBytes(reg[p]) > Limit
                 THEN Answered ELSE [reg[p] EXCEPT !.pc = "commit"])
    /\ UNCHANGED <<regVars, rows, meter, rebase>>

\* Mutant: the check made before the transaction is enough.
AlwaysApplies(m, bytes) == TRUE
\* usageGuardedBumpStatement
BumpApplies(m, bytes) == bytes <= Limit /\ meter[m] + bytes <= Limit

\* The row's size is set whoever wrote it last; a row that is gone is not
\* updated.
Written(p, r) ==
    [i \in Idents |->
        IF i \in RowsToInsert(r)
        THEN [id |-> MintedId(p, r), size |-> FirstSize(r.payload, i),
              month |-> r.month]
        ELSE IF i \in RowsToUpdate(r) /\ rows[i].id = r.known[i].id
        THEN [rows[i] EXCEPT !.size = LastSize(r.payload, i)]
        ELSE rows[i]]

\* A re-base that has its snapshot conflicts with a bump; a refresh of a row
\* from another month, or of one that is not as it was read, moves a total by
\* what is not bumped.
Rebasing(p, r) ==
    LET bytes == NetNewBytes(r) IN
    [rebase EXCEPT
        !.conflict = @ \/ (rebase.month = r.month
                           /\ (bytes # 0 \/ RowsToInsert(r) # {})),
        !.skewed = @ \/ \E i \in RowsToUpdate(r) :
                           rows[i].month # r.month \/ rows[i] # r.known[i]]

Blocked(r) == /\ NetNewBytes(r) > 0
              /\ ~BumpApplies(r.month, NetNewBytes(r))

registerCommit(p) ==
    LET r == reg[p] IN
    /\ AtReg(p, "commit")
    /\ \A i \in RowsToInsert(r) : ~HasRow(i) /\ TestOf[i] \in tests
    /\ ~Blocked(r)
    /\ rows' = Written(p, r)
    /\ meter' = [meter EXCEPT ![r.month] = @ + NetNewBytes(r)]
    /\ rebase' = Rebasing(p, r)
    /\ SetReg(p, [r EXCEPT !.pc = "urls"])
    /\ UNCHANGED regVars

\* Mutant: a conflicting insert does nothing and the plan is answered.
AnswersPlan(r, taken) == IF taken THEN [r EXCEPT !.pc = "urls"] ELSE Answered

\* One retry from the read of the existing rows.
AfterRollback(r, taken) ==
    IF taken /\ r.attempt = 0
    THEN [r EXCEPT !.pc = "read", !.attempt = 1] ELSE Answered

\* The whole transaction is rolled back: an identity is taken, a parent row is
\* gone, or the guarded bump did not apply.
registerRollback(p) ==
    LET r == reg[p]
        taken == \E i \in RowsToInsert(r) : HasRow(i)
        orphan == \E i \in RowsToInsert(r) : TestOf[i] \notin tests
    IN
    /\ AtReg(p, "commit")
    /\ taken \/ orphan \/ Blocked(r)
    /\ SetReg(p, AfterRollback(r, taken))
    /\ UNCHANGED <<regVars, rows, meter, rebase>>

\* Relative worker URLs need no look at the project.
registerAnswer(p) ==
    LET r == reg[p] IN
    /\ AtReg(p, "urls")
    /\ handed' = handed \cup
           {Key(i, PlannedId(p, r, i)) : i \in Requested(r.payload)}
    /\ SetReg(p, Answered)
    /\ UNCHANGED <<month, run, tests, rows, meter, puts, bucket, expired,
                   sweep, rebase, crashes>>

-----------------------------------------------------------------------------
(* storeArtifactUpload: the row and the open run are read, then R2 is written *)

uploadBegin(k) ==
    /\ k \in handed \ (puts \cup bucket)
    /\ Cardinality(puts \cup bucket) < MaxObjects
    /\ run = "open"
    /\ HasRow(k.ident) /\ Known(k.ident) = k
    /\ puts' = puts \cup {k}
    /\ UNCHANGED <<month, run, tests, rows, meter, reg, handed, bucket,
                   expired, sweep, rebase, crashes>>

uploadPut(k) ==
    /\ k \in puts
    /\ puts' = puts \ {k}
    /\ bucket' \in {bucket, bucket \cup {k}}
    /\ UNCHANGED <<month, run, tests, rows, meter, reg, handed, expired,
                   sweep, rebase, crashes>>

-----------------------------------------------------------------------------
(* Time, and the owner *)

\* The re-base runs at three in the morning, never across a month's end.
newMonth ==
    /\ month + 1 \in Months
    /\ run = "open" /\ rebase.pc = "idle"
    /\ month' = month + 1
    /\ UNCHANGED <<run, tests, rows, meter, reg, handed, puts, bucket, expired,
                   sweep, rebase, crashes>>

runCloses ==
    /\ run = "open"
    /\ run' = "closed"
    /\ UNCHANGED <<month, tests, rows, meter, reg, handed, puts, bucket,
                   expired, sweep, rebase, crashes>>

Quiet == puts = {} /\ \A p \in Requests : reg[p].pc \in {"new", "answered"}

\* A row, or a test result, passes its window, days after the run closed.
expire(x) ==
    /\ run = "closed" /\ Quiet
    /\ x \notin expired
    /\ expired' = expired \cup {x}
    /\ UNCHANGED <<month, run, tests, rows, meter, reg, handed, puts, bucket,
                   sweep, rebase, crashes>>

\* The project's rows cascade; its objects are ProjectCleanup's.
deleteProject ==
    /\ run # "gone"
    /\ run' = "gone"
    /\ tests' = {}
    /\ rows' = [i \in Idents |-> NoRow]
    /\ rebase' = [rebase EXCEPT !.skewed = TRUE]
    /\ UNCHANGED <<month, meter, reg, handed, puts, bucket, expired, sweep,
                   crashes>>

-----------------------------------------------------------------------------
(* reconcileUsage: one repeatable-read transaction per try *)

BytesIn(m) == SumFunction([i \in {j \in Idents : rows[j].month = m} |->
                             rows[i].size])

rebaseSnapshot ==
    /\ \/ rebase.pc = "idle" /\ rebase.left > 0
       \/ rebase.pc = "again"
    /\ rebase' = [pc |-> "write",
                  month |-> IF rebase.pc = "idle" THEN month ELSE rebase.month,
                  total |-> BytesIn(IF rebase.pc = "idle" THEN month
                                    ELSE rebase.month),
                  tries |-> rebase.tries + 1,
                  conflict |-> FALSE, skewed |-> FALSE,
                  left |-> IF rebase.pc = "idle" THEN rebase.left - 1
                           ELSE rebase.left]
    /\ UNCHANGED <<regVars, rows, meter, reg>>

rebaseWrite ==
    /\ rebase.pc = "write"
    /\ ~rebase.conflict
    /\ meter' = [meter EXCEPT ![rebase.month] = rebase.total]
    /\ rebase' = [NoRebase EXCEPT !.left = rebase.left]
    /\ UNCHANGED <<regVars, rows, reg>>

\* 40001: the counter was written after the snapshot.
rebaseConflict ==
    /\ rebase.pc = "write"
    /\ rebase.conflict
    /\ rebase' = IF rebase.tries < MaxRebaseTries
                 THEN [rebase EXCEPT !.pc = "again"]
                 ELSE [NoRebase EXCEPT !.left = rebase.left]
    /\ UNCHANGED <<regVars, rows, meter, reg>>

-----------------------------------------------------------------------------
(* sweepRetention: artifacts, then test results, a bounded slice of each *)

AtSweep(label) == sweep.pc = label
sweepFrame == <<month, run, meter, reg, handed, puts, expired, crashes>>

Slice(S) == IF Cardinality(S) <= SweepLimit THEN {S} ELSE kSubset(SweepLimit, S)

\* Mutant: an artifact whose bytes are gone is taken for swept.
ExpiredWithBytes == {i \in Idents \cap expired : HasRow(i) /\ Known(i) \in bucket}
ExpiredRows == {i \in Idents \cap expired : HasRow(i)}

\* Sweeps before anything has expired find nothing and are left out.
sweepArtifacts ==
    /\ AtSweep("idle")
    /\ expired # {}
    /\ \E I \in Slice(ExpiredRows) :
           sweep' = IF I = {} THEN [NoSweep EXCEPT !.pc = "tests"]
                    ELSE [NoSweep EXCEPT !.pc = "objects",
                                         !.keys = {Known(i) : i \in I}]
    /\ UNCHANGED <<sweepFrame, tests, rows, bucket, rebase>>

sweepObjects ==
    /\ AtSweep("objects")
    /\ bucket' = bucket \ sweep.keys
    /\ sweep' = [sweep EXCEPT !.pc = "rows"]
    /\ UNCHANGED <<sweepFrame, tests, rows, rebase>>

RowsGone(keys) ==
    [i \in Idents |-> IF HasRow(i) /\ Known(i) \in keys THEN NoRow ELSE rows[i]]

sweepRows ==
    /\ AtSweep("rows")
    /\ rows' = RowsGone(sweep.keys)
    /\ rebase' = [rebase EXCEPT !.skewed = TRUE]
    /\ sweep' = [NoSweep EXCEPT !.pc = "tests"]
    /\ UNCHANGED <<sweepFrame, tests, bucket>>

sweepTests ==
    /\ AtSweep("tests")
    /\ \E T \in Slice(tests \cap expired) :
           sweep' = IF T = {} THEN NoSweep
                    ELSE [NoSweep EXCEPT !.pc = "testObjects", !.tests = T]
    /\ UNCHANGED <<sweepFrame, tests, rows, bucket, rebase>>

\* Mutant: the cascade is left to take the artifacts.
NoKeys(T) == {}
KeysOfTests(T) ==
    {Known(i) : i \in {j \in Idents : HasRow(j) /\ TestOf[j] \in T}}

\* The artifacts the cascade will take are read, then their objects deleted.
sweepReadTests ==
    /\ AtSweep("testObjects")
    /\ sweep' = [sweep EXCEPT !.pc = "testRows",
                              !.keys = KeysOfTests(sweep.tests)]
    /\ UNCHANGED <<sweepFrame, tests, rows, bucket, rebase>>

sweepTestObjects ==
    /\ AtSweep("testRows")
    /\ bucket' = bucket \ sweep.keys
    /\ sweep' = [sweep EXCEPT !.pc = "testDelete"]
    /\ UNCHANGED <<sweepFrame, tests, rows, rebase>>

sweepTestRows ==
    /\ AtSweep("testDelete")
    /\ tests' = tests \ sweep.tests
    /\ rows' = [i \in Idents |->
                  IF TestOf[i] \in sweep.tests THEN NoRow ELSE rows[i]]
    /\ rebase' = [rebase EXCEPT !.skewed = TRUE]
    /\ sweep' = NoSweep
    /\ UNCHANGED <<sweepFrame, bucket>>

\* A throw or the platform ends the invocation; the next cron starts over.
sweepDies ==
    /\ crashes < MaxCrashes
    /\ sweep.pc # "idle"
    /\ sweep' = NoSweep
    /\ crashes' = crashes + 1
    /\ UNCHANGED <<month, run, tests, rows, meter, reg, handed, puts, bucket,
                   expired, rebase>>

-----------------------------------------------------------------------------
retention ==
    \/ sweepArtifacts \/ sweepObjects \/ sweepRows
    \/ sweepTests \/ sweepReadTests \/ sweepTestObjects \/ sweepTestRows

registration(p) ==
    \/ \E s \in Payloads : registerBegin(p, s)
    \/ registerTests(p) \/ registerRead(p) \/ registerQuota(p)
    \/ registerCommit(p) \/ registerRollback(p) \/ registerAnswer(p)

StoreNext ==
    \/ \E p \in Requests : registration(p)
    \/ \E k \in handed : uploadBegin(k) \/ uploadPut(k)
    \/ newMonth \/ runCloses \/ deleteProject
    \/ \E x \in Expiring : expire(x)
    \/ rebaseSnapshot \/ rebaseWrite \/ rebaseConflict
    \/ retention \/ sweepDies

\* The six-hourly cron always comes again.
StoreSpec == StoreInit /\ [][StoreNext]_storeVars /\ WF_storeVars(retention)

-----------------------------------------------------------------------------
(* Properties *)

RowType == [id : Requests \X {0, 1}, size : Nat, month : Months] \cup {NoRow}
StoreTypeOK ==
    /\ month \in Months
    /\ run \in {"open", "closed", "gone"}
    /\ tests \subseteq Tests
    /\ rows \in [Idents -> RowType]
    /\ meter \in [Months -> Int]
    /\ \A p \in Requests :
           /\ reg[p].pc \in {"new", "tests", "read", "quota", "commit", "urls",
                             "answered"}
           /\ reg[p].attempt \in {0, 1}
           /\ reg[p].known \in [Idents -> RowType]
    /\ handed \cup puts \cup bucket \cup sweep.keys \subseteq
           [ident : Idents, id : Requests \X {0, 1}]
    /\ expired \subseteq Idents \cup Tests
    /\ rebase.pc \in {"idle", "write", "again"}
    /\ rebase.tries \in 0 .. MaxRebaseTries

\* Racing registrations of one identity agree: every URL that is answered is
\* of the row that holds the identity, whoever inserted it, unless the project
\* has gone meanwhile.
AnswersTheLiveRow ==
    [][\A k \in handed' \ handed :
          \/ run = "gone"
          \/ HasRow(k.ident) /\ Known(k.ident) = k]_storeVars

\* While the project is there no object is without its row, and no upload is
\* on its way to become one, wherever a sweep was cut off.
NoStrandedBytes ==
    run # "gone" =>
        \A k \in bucket \cup puts : HasRow(k.ident) /\ Known(k.ident) = k

\* The distance between the meter and the rows it counts moves only when rows
\* are deleted, when a row is refreshed from a size it no longer has or in
\* another month than its own, or by a re-base, which makes it zero unless
\* one of these came after its snapshot.
Gap(m) == meter[m] - BytesIn(m)
RowsVanish == \E i \in Idents : HasRow(i) /\ rows'[i] = NoRow
Refreshes(p, i) == /\ AtReg(p, "commit") /\ reg'[p].pc = "urls"
                   /\ i \in RowsToUpdate(reg[p])
StaleRefresh == \E p \in Requests, i \in Idents :
                   Refreshes(p, i) /\ rows[i] # reg[p].known[i]
LateRefresh == \E p \in Requests, i \in Idents :
                   Refreshes(p, i) /\ rows[i].month # reg[p].month
Rebases(m) == rebase.pc = "write" /\ rebase'.pc = "idle" /\ rebase.month = m

MeterFollowsRows ==
    [][\A m \in Months :
          \/ Gap(m)' = Gap(m)
          \/ RowsVanish \/ StaleRefresh \/ LateRefresh
          \/ Rebases(m) /\ (rebase.skewed \/ Gap(m)' = 0)]_storeVars

\* However many registrations passed the same quota check, the meter is never
\* bumped past the tier's limit.
NoBumpOvershoots ==
    [][\A m \in Months :
          meter'[m] <= Limit \/ meter'[m] <= meter[m] \/ Rebases(m)]_storeVars

\* What is past its window is gone in the end, bytes and rows.
ExpiredIsSwept ==
    /\ \A i \in Idents :
           i \in expired ~> \/ run = "gone"
                            \/ ~HasRow(i) /\ \A k \in bucket : k.ident # i
    /\ \A t \in Tests : t \in expired ~> t \notin tests

\* usage.ts: "Counts FRESH rows only (a new run, newly-inserted artifacts) so
\* an idempotent re-stream/re-registration doesn't double-count."
NoDoubleCount ==
    [][\A m \in Months :
          Gap(m)' <= Gap(m) \/ RowsVanish \/ LateRefresh \/ Rebases(m)]_storeVars

\* usage.ts: "counters are non-negative".
MeterNeverNegative == \A m \in Months : meter[m] >= 0
=============================================================================
