---------------------------- MODULE ReporterStream ----------------------------
(***************************************************************************)
(* The Playwright reporter, ONE process: the attempts it buffers until a   *)
(* test is done, the batcher that streams results one batch at a time, the *)
(* artifact uploads that overlap with it under one semaphore, and the end  *)
(* of the suite, with its budget, or a signal.                             *)
(*                                                                         *)
(* Playwright runs a serial group again from its first test, so one of its *)
(* tests that was done may report again, and is then handed over again.    *)
(* What is handed over is an entry <<t, n>>: the attempts of test t that   *)
(* were buffered, of which n is the last.                                  *)
(*                                                                         *)
(* JavaScript runs one callback at a time: a step is what runs between two *)
(* awaits.  The dashboard may serve a request and lose its reply, refuse   *)
(* it, or reject the key.  Every request has a time-out of its own, so it  *)
(* settles.                                                                *)
(***************************************************************************)
EXTENDS Integers, FiniteSets, Sequences, SequencesExt

CONSTANTS
    Tests,         \* tests of the suite
    Serial,        \* those that others of their serial group follow
    Retries,       \* per test: the retries it is configured with
    BatchSize,     \* results per batch
    Artifacts,     \* files
    ArtifactsOf,   \* per test: the files collected for it, in order
    Oversized,     \* files over the dashboard's limit
    Concurrency,   \* ARTIFACT_UPLOAD_CONCURRENCY
    MaxRetries,    \* DEFAULT_MAX_RETRIES
    CompleteRetries \* maxRetries of completeRun

ASSUME StreamArtifacts ==
    /\ Oversized \subseteq Artifacts
    /\ ArtifactsOf \in [Tests -> Seq(Artifacts)]
ASSUME StreamBounds ==
    /\ Retries \in [Tests -> Nat]
    /\ {MaxRetries, CompleteRetries} \subseteq Nat
    /\ {BatchSize, Concurrency} \subseteq Nat \ {0}
    /\ IsFiniteSet(Tests)

VARIABLES
    attempts,   \* attempts of each test that have ended
    ended,      \* history: <<t, n>> if attempt n of t was reported as its last
    pending,    \* tests buffered by the accumulator
    enqueuing,  \* entries whose enqueueDone is in progress
    batcher,    \* its queue, its timer, the batches of its chain, and the
                \* requests made for the first of them
    open,       \* the openRun promise: "pending", "open" or "failed"
    disabled,   \* streamingDisabled
    tally,      \* streamed and streamFailed
    uploads,    \* artifact tasks in progress
    slots,      \* the semaphore, and the PUTs that hold or await a slot
    end,        \* onEnd
    signal,     \* the signal that was handled, shuttingDown
    alive       \* the process

streamVars == <<attempts, ended, pending, enqueuing, batcher, open, disabled,
                tally, uploads, slots, end, signal, alive>>
suiteVars == <<attempts, ended, pending, enqueuing>>
artifactVars == <<uploads, slots>>
statusVars == <<open, disabled, signal, alive>>

-----------------------------------------------------------------------------
NoTasks == [enqueues |-> {}, uploads |-> {}]

StreamInit ==
    /\ attempts = [t \in Tests |-> 0]
    /\ ended = {} /\ pending = {} /\ enqueuing = {}
    /\ batcher = [queue |-> <<>>, timer |-> FALSE, chain |-> <<>>, tries |-> 0]
    /\ open = "pending" /\ disabled = FALSE
    /\ tally = [streamed |-> 0, failed |-> 0]
    /\ uploads = {}
    /\ slots = [active |-> 0, holding |-> {}, waiting |-> <<>>]
    /\ end = [pc |-> "none", late |-> FALSE, awaited |-> NoTasks, left |-> 0,
              abandoned |-> FALSE, tries |-> 0]
    /\ signal = "none"
    /\ alive = TRUE

-----------------------------------------------------------------------------
(* Playwright, TestAccumulator *)

LastEntry(t) == <<t, attempts[t]>>
NextEntry(t) == <<t, attempts[t] + 1>>

\* An attempt passed, was skipped or was interrupted, or it was the last one
\* configured.  The accumulator takes what Playwright reports: a serial group
\* that fails later runs again, and so does its test that was done.
onTestEnd(t, done) ==
    /\ end.pc = "none"
    /\ attempts[t] > 0 /\ t \notin pending => t \in Serial
    /\ attempts[t] <= Retries[t]
    /\ attempts[t] = Retries[t] => done
    /\ attempts' = [attempts EXCEPT ![t] = @ + 1]
    /\ IF done
       THEN /\ pending' = pending \ {t}
            /\ enqueuing' = enqueuing \cup {NextEntry(t)}
            /\ ended' = ended \cup {NextEntry(t)}
       ELSE /\ pending' = pending \cup {t}
            /\ UNCHANGED <<enqueuing, ended>>
    /\ UNCHANGED <<batcher, statusVars, tally, artifactVars, end>>

-----------------------------------------------------------------------------
(* Batcher *)

Triggered(b) ==
    [b EXCEPT !.timer = FALSE, !.queue = <<>>,
              !.chain = IF b.queue = <<>> THEN @ ELSE Append(@, b.queue)]

\* Mutant: a flush in progress is left to take what is queued.
TimerUnlessFlushing(b) == b.timer \/ b.chain = <<>>
TimerSet(b) == TRUE

Enqueued(b, e) ==
    LET q == [b EXCEPT !.queue = Append(@, e)]
    IN  IF Len(q.queue) >= BatchSize THEN Triggered(q)
        ELSE [q EXCEPT !.timer = TimerSet(b)]

\* The quarantine list and the attachments are there, or the task throws.
enqueueDone(e) ==
    /\ e \in enqueuing
    /\ enqueuing' = enqueuing \ {e}
    /\ \/ batcher' = Enqueued(batcher, e) /\ UNCHANGED tally
       \/ tally' = [tally EXCEPT !.failed = @ + 1] /\ UNCHANGED batcher
    /\ UNCHANGED <<attempts, ended, pending, statusVars, artifactVars, end>>

flushTimer ==
    /\ batcher.timer
    /\ batcher' = Triggered(batcher)
    /\ UNCHANGED <<suiteVars, statusVars, tally, artifactVars, end>>

openSettles ==
    /\ open = "pending"
    /\ open' \in {"open", "failed"}
    /\ UNCHANGED <<suiteVars, batcher, disabled, signal, alive, tally,
                   artifactVars, end>>

-----------------------------------------------------------------------------
(* The flush callback, on the first batch of the chain once openRun settled *)

Batch == Head(batcher.chain)
Flushing == batcher.chain # <<>> /\ open # "pending"
Posting == Flushing /\ open = "open" /\ ~disabled

\* The batch's promise is resolved; a drain may be counting.
BatchSettled ==
    /\ batcher' = [batcher EXCEPT !.chain = Tail(@), !.tries = 0]
    /\ end' = [end EXCEPT !.left = IF @ > 0 THEN @ - 1 ELSE 0]

\* Mutant: what an invalid key cost is not counted.
CountedUnlessAuth(why) ==
    IF why = "auth" THEN tally
    ELSE [tally EXCEPT !.failed = @ + Len(Batch)]
Dropped(why) == [tally EXCEPT !.failed = @ + Len(Batch)]

flushDropped ==
    /\ Flushing /\ ~Posting
    /\ BatchSettled
    /\ tally' = Dropped("local")
    /\ UNCHANGED <<suiteVars, statusVars, artifactVars>>

\* correlateUploads: the files of the results that came back in the mapping.
correlateUploads(batch, mapped) ==
    FlattenSeq([k \in DOMAIN batch |-> IF batch[k] \in mapped
                                       THEN ArtifactsOf[batch[k][1]] ELSE <<>>])

\* fireArtifactUploads; a reply that cannot be read maps nothing.
resultsAccepted ==
    /\ Posting
    /\ tally' = [tally EXCEPT !.streamed = @ + Len(Batch)]
    /\ \E mapped \in {ToSet(Batch), {}} :
           LET files == correlateUploads(Batch, mapped) IN
           uploads' = IF files = <<>> THEN uploads
                      ELSE uploads \cup {[id |-> Batch[1], pc |-> "register",
                                          rows |-> files, files |-> files]}
    /\ BatchSettled
    /\ UNCHANGED <<suiteVars, statusVars, slots>>

\* A time-out, a network error or a retryable status.
resultsLost ==
    /\ Posting
    /\ IF batcher.tries < MaxRetries
       THEN /\ batcher' = [batcher EXCEPT !.tries = @ + 1]
            /\ UNCHANGED <<tally, end>>
       ELSE BatchSettled /\ tally' = Dropped("lost")
    /\ UNCHANGED <<suiteVars, statusVars, artifactVars>>

\* A status that is not retried; an AuthError ends the streaming.
resultsRejected(why) ==
    /\ Posting
    /\ disabled' = (disabled \/ why = "auth")
    /\ tally' = Dropped(why)
    /\ BatchSettled
    /\ UNCHANGED <<suiteVars, open, signal, alive, artifactVars>>

-----------------------------------------------------------------------------
(* ArtifactUploader, Semaphore *)

\* uploads.map: the PUT of each row is told from the others by its position.
Put(u, i) == [task |-> u.id, pos |-> i, row |-> u.rows[i], file |-> u.files[i]]
Puts(u) == [i \in DOMAIN u.rows |-> Put(u, i)]

Acquired(s, put) ==
    IF s.active < Concurrency
    THEN [s EXCEPT !.active = @ + 1, !.holding = @ \cup {put}]
    ELSE [s EXCEPT !.waiting = Append(@, put)]

\* Mutant: the slot is counted free and handed on.
ReleasedAndHanded(s, put) ==
    [active |-> s.active - 1,
     holding |-> (s.holding \ {put})
                 \cup (IF s.waiting = <<>> THEN {} ELSE {Head(s.waiting)}),
     waiting |-> IF s.waiting = <<>> THEN <<>> ELSE Tail(s.waiting)]
Released(s, put) ==
    IF s.waiting = <<>>
    THEN [s EXCEPT !.active = @ - 1, !.holding = @ \ {put}]
    ELSE [s EXCEPT !.holding = (@ \ {put}) \cup {Head(s.waiting)},
                   !.waiting = Tail(@)]

registered(u) ==
    /\ u.pc \in {"register", "again"}
    /\ ToSet(u.rows) \cap Oversized = {}
    /\ uploads' = (uploads \ {u}) \cup {[u EXCEPT !.pc = "put"]}
    /\ slots' = FoldLeft(Acquired, slots, Puts(u))
    /\ UNCHANGED <<suiteVars, batcher, statusVars, tally, end>>

\* The positions of the rows within the limit, pushed in order.
Kept(u) == FoldLeftDomain(LAMBDA kept, i : IF u.rows[i] \in Oversized THEN kept
                                           ELSE Append(kept, i),
                          <<>>, u.rows)
At(s, positions) == [k \in DOMAIN positions |-> s[positions[k]]]
\* Mutant: only the registrations are filtered.
AllFiles(u) == SubSeq(u.files, 1, Len(Kept(u)))
KeptFiles(u) == At(u.files, Kept(u))

\* 413: once more, without what is too large.
registerTooLarge(u) ==
    /\ u.pc = "register"
    /\ ToSet(u.rows) \cap Oversized # {}
    /\ uploads' = (uploads \ {u}) \cup
           IF Kept(u) = <<>> THEN {}
           ELSE {[u EXCEPT !.pc = "again", !.rows = At(u.rows, Kept(u)),
                           !.files = KeptFiles(u)]}
    /\ UNCHANGED <<suiteVars, batcher, statusVars, tally, slots, end>>

registerFails(u) ==
    /\ u.pc \in {"register", "again"}
    /\ uploads' = uploads \ {u}
    /\ UNCHANGED <<suiteVars, batcher, statusVars, tally, slots, end>>

\* A PUT is over, well or not; the task ends with its last.
putEnds(put) ==
    LET s == Released(slots, put) IN
    /\ put \in slots.holding
    /\ slots' = s
    /\ uploads' = {u \in uploads :
                      u.id # put.task
                      \/ \E p \in s.holding \cup ToSet(s.waiting) :
                             p.task = u.id}
    /\ UNCHANGED <<suiteVars, batcher, statusVars, tally, end>>

-----------------------------------------------------------------------------
(* onEnd *)

EndAt(label) == end.pc = label
UploadIds == {u.id : u \in uploads}

\* Mutant: only the uploads are awaited.
UploadTasks(enq) == [enqueues |-> {}, uploads |-> UploadIds]
\* Promise.all of the tasks there are now.
ArtifactTasks(enq) == [enqueues |-> enq, uploads |-> UploadIds]
Settled(tasks) == /\ tasks.enqueues \cap enqueuing = {}
                  /\ tasks.uploads \cap UploadIds = {}

\* A handler of a signal ends the run instead; what is pending is drained.
onEnd ==
    /\ EndAt("none")
    /\ IF signal # "none"
       THEN end' = [end EXCEPT !.pc = "done"] /\ UNCHANGED suiteVars
       ELSE LET enq == enqueuing \cup {LastEntry(t) : t \in pending} IN
            /\ enqueuing' = enq
            /\ pending' = {}
            /\ end' = [end EXCEPT !.pc = "enqueues",
                                  !.awaited = ArtifactTasks(enq)]
            /\ UNCHANGED <<attempts, ended>>
    /\ UNCHANGED <<batcher, statusVars, tally, artifactVars>>

\* drainDeadline: what is left of the budget is kept for the last request.
budgetPasses ==
    /\ end.pc \in {"enqueues", "drain", "uploads"}
    /\ ~end.late
    /\ end' = [end EXCEPT !.late = TRUE]
    /\ UNCHANGED <<suiteVars, batcher, statusVars, tally, artifactVars>>

\* The deadline and what was awaited are of no use from here on.
Open == [end EXCEPT !.pc = "open", !.late = FALSE, !.awaited = NoTasks,
                    !.left = 0]
Abandon == [Open EXCEPT !.abandoned = TRUE]

\* The drain is started even when the budget is gone.
startDrain ==
    LET b == Triggered(batcher) IN
    /\ EndAt("enqueues")
    /\ Settled(end.awaited) \/ end.late
    /\ batcher' = b
    /\ end' = IF Settled(end.awaited)
              THEN [end EXCEPT !.pc = "drain", !.awaited = NoTasks,
                               !.left = Len(b.chain)]
              ELSE Abandon
    /\ UNCHANGED <<suiteVars, statusVars, tally, artifactVars>>

awaitDrain ==
    /\ EndAt("drain")
    /\ end.left = 0 \/ end.late
    /\ end' = IF end.left = 0
              THEN [end EXCEPT !.pc = "uploads",
                               !.awaited = ArtifactTasks(enqueuing)]
              ELSE Abandon
    /\ UNCHANGED <<suiteVars, batcher, statusVars, tally, artifactVars>>

awaitUploads ==
    /\ EndAt("uploads")
    /\ Settled(end.awaited) \/ end.late
    /\ end' = IF Settled(end.awaited) THEN Open ELSE Abandon
    /\ UNCHANGED <<suiteVars, batcher, statusVars, tally, artifactVars>>

awaitOpen ==
    /\ EndAt("open")
    /\ open # "pending"
    /\ end' = [end EXCEPT !.pc = IF open = "open" THEN "complete" ELSE "done"]
    /\ UNCHANGED <<suiteVars, batcher, statusVars, tally, artifactVars>>

\* One request of completeRun: answered, or lost; the wait for it ends with
\* the budget, and a status that is not retried ends it too.
completeRun ==
    /\ EndAt("complete")
    /\ end' \in {[end EXCEPT !.pc = "done"]} \cup
                (IF end.tries < CompleteRetries
                 THEN {[end EXCEPT !.tries = @ + 1]} ELSE {})
    /\ UNCHANGED <<suiteVars, batcher, statusVars, tally, artifactVars>>

-----------------------------------------------------------------------------
(* Signals *)

\* shuttingDown is set, and one request is made if the run is open.
signalled(kind) ==
    /\ signal = "none"
    /\ signal' = kind
    /\ UNCHANGED <<suiteVars, batcher, open, disabled, alive, tally,
                   artifactVars, end>>

\* SIGTERM is raised again once that is over; SIGINT is left to Playwright.
signalHandled ==
    /\ signal = "SIGTERM"
    /\ alive' = FALSE
    /\ UNCHANGED <<suiteVars, batcher, open, disabled, signal, tally,
                   artifactVars, end>>

-----------------------------------------------------------------------------
reporter ==
    \/ \E e \in enqueuing : enqueueDone(e)
    \/ flushTimer \/ openSettles
    \/ flushDropped \/ resultsAccepted \/ resultsLost
    \/ \E why \in {"auth", "refused"} : resultsRejected(why)
    \/ \E u \in uploads :
          registered(u) \/ registerTooLarge(u) \/ registerFails(u)
    \/ \E put \in slots.holding : putEnds(put)
    \/ startDrain \/ awaitDrain \/ awaitUploads \/ awaitOpen \/ completeRun
    \/ budgetPasses

StreamNext ==
    /\ alive
    /\ \/ reporter
       \/ \E t \in Tests, done \in BOOLEAN : onTestEnd(t, done)
       \/ onEnd
       \/ \E kind \in {"SIGTERM", "SIGINT"} : signalled(kind)
       \/ signalHandled

\* Promises, timers and requests settle; the suite need not end.
StreamSpec ==
    StreamInit /\ [][StreamNext]_streamVars /\ WF_streamVars(alive /\ reporter)

-----------------------------------------------------------------------------
(* Properties *)

Chained == UNION {ToSet(batcher.chain[k]) : k \in DOMAIN batcher.chain}
Unsettled == enqueuing \cup ToSet(batcher.queue) \cup Chained

\* What Playwright made entries of: each test's attempts up to one that ended
\* it, and those after it.
Reported == ended \cup {LastEntry(t) : t \in {u \in Tests : attempts[u] > 0}}

\* Every entry is buffered, on its way or counted, once, as streamed or as
\* dropped, and so is every attempt in it: the summary line adds up.
SummaryAddsUp ==
    tally.streamed + tally.failed + Cardinality(pending)
        + Cardinality(Unsettled)
    = Cardinality(Reported)

\* Unless its budget ran out, the suite's /complete comes after everything:
\* no result, batch or upload is still on its way when it is sent.
CompleteComesLast ==
    EndAt("complete") /\ ~end.abandoned =>
        pending = {} /\ Unsettled \cup UploadIds = {}

\* The cap on PUTs is global across overlapping batches, and no file waits
\* while a slot is free.
PutsCapped ==
    /\ Cardinality(slots.holding) <= Concurrency
    /\ slots.waiting # <<>> => Cardinality(slots.holding) = Concurrency

\* A file is never put to the URL of another's row, whatever was dropped
\* between the two registrations.
FilesToOwnRows ==
    \A p \in slots.holding \cup ToSet(slots.waiting) : p.row = p.file

OnTheWay == {e[1] : e \in Unsettled \cup UploadIds}

\* The results of a test that is done are streamed or dropped, the uploads
\* they start end, and onEnd returns, as long as the process lives.
EverythingSettles ==
    /\ \A t \in Tests : t \in OnTheWay ~> t \notin OnTheWay \/ ~alive
    /\ end.pc # "none" ~> EndAt("done") \/ ~alive

\* accumulator.ts: "A test attempt is "done" -- no further retries will
\* arrive -- when it passed, was skipped, was interrupted, or it was the final
\* configured retry".
DoneIsFinal ==
    [][\A t \in Tests : LastEntry(t) \in ended =>
           attempts'[t] = attempts[t]]_streamVars

\* index.ts, of the entries that were counted: "streamed
\* ${this.streamed}/${total} test(s)".
SummaryCountsTests ==
    tally.streamed + tally.failed
        <= Cardinality({t \in Tests : attempts[t] > 0})
=============================================================================
