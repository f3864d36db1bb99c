------------------------- MODULE ArtifactStoreProofs -------------------------
(***************************************************************************)
(* Proofs about ArtifactStore, for any number of requests, artifacts and   *)
(* tests: no object without its row, every answered URL of the live row,   *)
(* and a meter that follows the rows it counts.                            *)
(***************************************************************************)
EXTENDS ArtifactStore, SetLemmas

-----------------------------------------------------------------------------
(* Rows, payloads and what a registration adds *)

Keys == [ident : Idents, id : Requests \X {0, 1}]
RegRecord ==
    [pc : {"new", "tests", "read", "quota", "commit", "urls", "answered"},
     month : Months \cup {0}, attempt : {0, 1},
     payload : Payloads \cup {<<>>}, known : [Idents -> RowType]]

LEMMA StoreConstants ==
    /\ IsFiniteSet(Idents)
    /\ Limit \in Nat /\ MaxCrashes \in Nat /\ MaxRebases \in Nat
    /\ LastMonth \in Nat \ {0} /\ SweepLimit \in Nat \ {0}
    /\ TestOf \in [Idents -> Tests]
    /\ Expiring \subseteq Idents \cup Tests
BY StoreBounds, StoreTestOf

LEMMA RowFacts ==
    ASSUME NEW x \in RowType
    PROVE  /\ x.size \in Nat
           /\ x # NoRow => x.id \in Requests \X {0, 1} /\ x.month \in Months
           /\ x = NoRow => x.id = <<>> /\ x.size = 0 /\ x.month = 0
           /\ x.month = 0 => x = NoRow
           /\ x.id = <<>> => x = NoRow
           /\ x.id \in Requests \X {0, 1} => x # NoRow
<1>1. 0 \notin Months
  BY DEF Months
<1>2. <<>> \notin Requests \X {0, 1}
  OBVIOUS
<1>3. NoRow.id = <<>> /\ NoRow.size = 0 /\ NoRow.month = 0
  BY DEF NoRow
<1>4. CASE x = NoRow
  BY <1>2, <1>3, <1>4
<1>5. CASE x \in [id : Requests \X {0, 1}, size : Nat, month : Months]
  BY <1>1, <1>2, <1>3, <1>5
<1>. QED BY <1>4, <1>5 DEF RowType

LEMMA SizeFacts ==
    ASSUME NEW s \in Payloads, NEW i \in Requested(s)
    PROVE  i \in Idents /\ FirstSize(s, i) \in Nat /\ LastSize(s, i) \in Nat
<1>1. s \in Seq([ident : Idents, size : Nat])
  BY StorePayloads
<1>2. PICK P : P = Positions(s, i)
  OBVIOUS
<1>3. DOMAIN s = 1 .. Len(s) /\ Len(s) \in Nat
  BY <1>1
<1>4. P \subseteq 1 .. Len(s) /\ P # {} /\ P \subseteq Nat
  BY <1>2, <1>3 DEF Positions, Requested
<1>5. IsFiniteSet(P)
  <2>1. IsFiniteSet(1 .. Len(s))
    BY <1>3, FS_Interval
  <2>. QED BY <1>4, <2>1, FS_Subset
<1>6. Min(P) \in P
  BY <1>4, MinIn
<1>7. Max(P) \in P
  <2>1. PICK m \in P : \A y \in P : y <= m
    BY <1>4, <1>5, GreatestExists
  <2>. QED BY <1>4, <2>1, MaxIs
<1>8. \A k \in P : s[k] \in [ident : Idents, size : Nat] /\ s[k].ident = i
  <2>1. \A k \in P : s[k].ident = i
    BY <1>2 DEF Positions
  <2>2. \A k \in 1 .. Len(s) : s[k] \in [ident : Idents, size : Nat]
    <3>1. PICK X : X = [ident : Idents, size : Nat]
      OBVIOUS
    <3>2. s \in Seq(X)
      BY <1>1, <3>1
    <3>3. \A k \in 1 .. Len(s) : s[k] \in X
      BY <3>2
    <3>. QED BY <3>1, <3>3
  <2>. QED BY <1>4, <2>1, <2>2
<1>9. i \in Idents
  BY <1>4, <1>8
<1>. QED BY <1>2, <1>6, <1>7, <1>8, <1>9 DEF FirstSize, LastSize

LEMMA PlanFacts ==
    ASSUME NEW r \in RegRecord, r.payload \in Payloads
    PROVE  /\ RowsToInsert(r) \subseteq Idents /\ RowsToUpdate(r) \subseteq Idents
           /\ RowsToInsert(r) \cap RowsToUpdate(r) = {}
           /\ \A i \in RowsToInsert(r) : /\ FirstSize(r.payload, i) \in Nat
                                         /\ r.known[i] = NoRow
           /\ \A i \in RowsToUpdate(r) : /\ LastSize(r.payload, i) \in Nat
                                         /\ UpdateBytes(r, i) \in Int
                                         /\ r.known[i] # NoRow
<1>1. \A i \in Requested(r.payload) : /\ i \in Idents
                                      /\ FirstSize(r.payload, i) \in Nat
                                      /\ LastSize(r.payload, i) \in Nat
  BY SizeFacts
<1>2. \A i \in Idents : r.known[i] \in RowType
  BY DEF RegRecord
<1>3. \A i \in Idents : r.known[i].size \in Nat
  BY <1>2, RowFacts
<1>. QED BY <1>1, <1>3 DEF RowsToInsert, RowsToUpdate, UpdateBytes

\* What a registration adds to each identity, and what each counts for.
Inserted(r) == [i \in Idents |-> IF i \in RowsToInsert(r)
                                 THEN FirstSize(r.payload, i) ELSE 0]
Updated(r) == [i \in Idents |-> IF i \in RowsToUpdate(r)
                                THEN UpdateBytes(r, i) ELSE 0]
Added(r) == [i \in Idents |-> Inserted(r)[i] + Updated(r)[i]]
Weights(rs, m) == [i \in Idents |-> IF rs[i].month = m THEN rs[i].size ELSE 0]
BytesOf(rs, m) == SumFunction([i \in {j \in Idents : rs[j].month = m} |->
                                rs[i].size])

\* A sum over part of the identities is one over all that counts nothing for
\* the others.
LEMMA SumOverAll ==
    ASSUME NEW S \in SUBSET Idents, NEW f, DOMAIN f = S, NEW g,
           \A i \in S : f[i] \in Int,
           \A i \in Idents : g[i] = IF i \in S THEN f[i] ELSE 0
    PROVE  SumFunction(f) = Sum(g, Idents) /\ Sum(g, Idents) \in Int
<1>1. IsFiniteSet(Idents) /\ IsFiniteSet(S)
  BY StoreConstants, FS_Subset
<1>2. SumFunction(f) = Sum(f, S)
  BY SumIs
<1>3. Sum(f, S) = Sum(g, S)
  BY <1>1, SumSame
<1>4. /\ \A i \in Idents : g[i] \in Int
      /\ \A i \in Idents \ S : g[i] = 0
  OBVIOUS
<1>5. Sum(g, Idents) = Sum(g, S)
  BY <1>1, <1>4, SumOfPart
<1>. QED BY <1>1, <1>2, <1>3, <1>4, <1>5, SumInt

LEMMA NetNewSum ==
    ASSUME NEW r \in RegRecord, r.payload \in Payloads
    PROVE  NetNewBytes(r) = Sum(Added(r), Idents) /\ NetNewBytes(r) \in Int
<1>. DEFINE f == [i \in RowsToInsert(r) |-> FirstSize(r.payload, i)]
            h == [i \in RowsToUpdate(r) |-> UpdateBytes(r, i)]
<1>1. /\ SumFunction(f) = Sum(Inserted(r), Idents)
      /\ Sum(Inserted(r), Idents) \in Int
  <2>1. DOMAIN f = RowsToInsert(r) /\ RowsToInsert(r) \in SUBSET Idents
    BY PlanFacts
  <2>2. \A i \in RowsToInsert(r) : f[i] \in Int
    BY PlanFacts
  <2>3. \A i \in Idents : Inserted(r)[i] = IF i \in RowsToInsert(r)
                                           THEN f[i] ELSE 0
    BY DEF Inserted
  <2>. HIDE DEF f
  <2>. QED BY <2>1, <2>2, <2>3, SumOverAll
<1>2. /\ SumFunction(h) = Sum(Updated(r), Idents)
      /\ Sum(Updated(r), Idents) \in Int
  <2>1. DOMAIN h = RowsToUpdate(r) /\ RowsToUpdate(r) \in SUBSET Idents
    BY PlanFacts
  <2>2. \A i \in RowsToUpdate(r) : h[i] \in Int
    BY PlanFacts
  <2>3. \A i \in Idents : Updated(r)[i] = IF i \in RowsToUpdate(r)
                                          THEN h[i] ELSE 0
    BY DEF Updated
  <2>. HIDE DEF h
  <2>. QED BY <2>1, <2>2, <2>3, SumOverAll
<1>3. \A i \in Idents : /\ Inserted(r)[i] \in Int /\ Updated(r)[i] \in Int
                        /\ Added(r)[i] = Inserted(r)[i] + Updated(r)[i]
  BY PlanFacts DEF Inserted, Updated, Added
<1>4. Sum(Added(r), Idents) = Sum(Inserted(r), Idents) + Sum(Updated(r), Idents)
  BY <1>3, StoreConstants, SumPlus
<1>5. NetNewBytes(r) = SumFunction(f) + SumFunction(h)
  BY DEF NetNewBytes
<1>. HIDE DEF f, h
<1>. QED BY <1>1, <1>2, <1>4, <1>5

LEMMA BytesSum ==
    ASSUME NEW rs \in [Idents -> RowType], NEW m
    PROVE  /\ BytesOf(rs, m) = Sum(Weights(rs, m), Idents)
           /\ BytesOf(rs, m) \in Int
           /\ \A i \in Idents : Weights(rs, m)[i] \in Int
<1>. DEFINE S == {j \in Idents : rs[j].month = m}
            f == [i \in S |-> rs[i].size]
<1>1. \A i \in Idents : rs[i].size \in Nat
  BY RowFacts
<1>2. /\ S \in SUBSET Idents /\ DOMAIN f = S
      /\ \A i \in S : f[i] \in Int
      /\ \A i \in Idents : Weights(rs, m)[i] = IF i \in S THEN f[i] ELSE 0
      /\ \A i \in Idents : Weights(rs, m)[i] \in Int
  BY <1>1 DEF Weights
<1>3. BytesOf(rs, m) = SumFunction(f)
  BY DEF BytesOf
<1>. HIDE DEF S, f
<1>. QED BY <1>2, <1>3, SumOverAll


-----------------------------------------------------------------------------
(* The inductive invariant *)

SweepRecord ==
    [pc : {"idle", "objects", "rows", "tests", "testObjects", "testRows",
           "testDelete"},
     tests : SUBSET Tests, keys : SUBSET Keys]
RebaseRecord ==
    [pc : {"idle", "write", "again"}, month : Months \cup {0}, total : Int,
     tries : 0 .. MaxRebaseTries, conflict : BOOLEAN, skewed : BOOLEAN,
     left : Int]

StoreTypes ==
    /\ month \in Months
    /\ run \in {"open", "closed", "gone"}
    /\ tests \subseteq Tests
    /\ rows \in [Idents -> RowType]
    /\ meter \in [Months -> Int]
    /\ reg \in [Requests -> RegRecord]
    /\ handed \subseteq Keys /\ puts \subseteq Keys /\ bucket \subseteq Keys
    /\ expired \subseteq Idents \cup Tests
    /\ sweep \in SweepRecord
    /\ rebase \in RebaseRecord

\* What the control points say of the local variables.
Progress == {"tests", "read", "quota", "commit", "urls"}
RegsInStep ==
    \A p \in Requests : reg[p].pc \in Progress =>
        reg[p].month \in Months /\ reg[p].payload \in Payloads
RebaseInStep ==
    /\ rebase.pc = "idle" => rebase.tries = 0
    /\ rebase.pc = "again" => rebase.tries < MaxRebaseTries
    /\ rebase.pc # "idle" => rebase.month \in Months

\* Nothing expires while a request or a PUT is in progress, and none begins
\* after that.
QuietOnceExpired ==
    /\ expired # {} => run # "open" /\ Quiet
    /\ sweep.pc # "idle" => expired # {}

\* What a registration has read or written keeps its id.
PlanHolds(p, r, rs) ==
    r.pc \in {"quota", "commit", "urls"} =>
        \A i \in Requested(r.payload) :
            /\ r.known[i] # NoRow => rs[i].id = r.known[i].id
            /\ r.pc = "urls" /\ r.known[i] = NoRow
                   => rs[i].id = MintedId(p, r)
PlansHold == run # "gone" => \A p \in Requests : PlanHolds(p, reg[p], rows)

\* Between reading keys and deleting rows, a sweep has deleted the objects.
SweepsFollow ==
    /\ AtSweep("rows") => sweep.keys \cap bucket = {}
    /\ AtSweep("testRows") => KeysOfTests(sweep.tests) \subseteq sweep.keys
    /\ AtSweep("testDelete") => KeysOfTests(sweep.tests) \cap bucket = {}

\* A snapshot nothing came after is the sum of the rows.
SnapshotHolds ==
    rebase.pc = "write" /\ ~rebase.conflict /\ ~rebase.skewed =>
        rebase.total = BytesIn(rebase.month)

StoreInv ==
    /\ StoreTypes
    /\ RegsInStep
    /\ RebaseInStep
    /\ QuietOnceExpired
    /\ PlansHold
    /\ SweepsFollow
    /\ NoStrandedBytes
    /\ SnapshotHolds


LEMMA NewRegType == NewReg \in RegRecord /\ Answered \in RegRecord
<1>1. NoRow \in RowType
  BY DEF RowType
<1>2. NewReg \in RegRecord
  BY <1>1 DEF NewReg, RegRecord
<1>. QED BY <1>2 DEF Answered, RegRecord

LEMMA StoreInitInv == StoreInit => StoreInv
<1>. SUFFICES ASSUME StoreInit PROVE StoreInv
  OBVIOUS
<1>. USE DEF StoreInit
<1>1. StoreTypes
  <2>1. 1 \in Months
    BY StoreConstants DEF Months
  <2>2. NoRow \in RowType
    BY DEF RowType
  <2>3. sweep \in SweepRecord
    BY DEF NoSweep, SweepRecord
  <2>4. rebase \in RebaseRecord
    BY StoreConstants DEF NoRebase, RebaseRecord, MaxRebaseTries
  <2>. QED BY <2>1, <2>2, <2>3, <2>4, NewRegType DEF StoreTypes
<1>2. \A p \in Requests : reg[p].pc = "new"
  BY DEF NewReg
<1>3. RegsInStep /\ PlansHold
  BY <1>2 DEF RegsInStep, Progress, PlansHold, PlanHolds
<1>4. RebaseInStep /\ SnapshotHolds
  BY DEF RebaseInStep, SnapshotHolds, NoRebase
<1>5. QuietOnceExpired /\ SweepsFollow /\ NoStrandedBytes
  BY DEF QuietOnceExpired, SweepsFollow, NoSweep, AtSweep, NoStrandedBytes
<1>. QED BY <1>1, <1>3, <1>4, <1>5 DEF StoreInv

-----------------------------------------------------------------------------
(* Steps of a registration that write no rows *)

RegMove(p, r) ==
    /\ r \in RegRecord
    /\ SetReg(p, r)
    /\ UNCHANGED <<month, run, tests, rows, meter, puts, bucket, expired,
                   sweep, rebase, crashes>>
    /\ handed' \subseteq Keys
    /\ r.pc \in Progress => r.month \in Months /\ r.payload \in Payloads
    /\ reg[p].pc \notin Progress => run = "open" \/ r.pc \notin Progress
    /\ run # "gone" => PlanHolds(p, r, rows)

LEMMA QuietPcs == Quiet => \A p \in Requests : reg[p].pc \notin Progress
BY DEF Quiet, Progress

LEMMA RegMoved ==
    ASSUME StoreTypes, NEW p \in Requests, NEW r, SetReg(p, r)
    PROVE  /\ reg'[p] = r
           /\ \A q \in Requests : q # p => reg'[q] = reg[q]
BY DEF StoreTypes, SetReg

LEMMA RegStep ==
    ASSUME StoreInv, NEW p \in Requests, NEW r, RegMove(p, r)
    PROVE  StoreInv'
<1>1. /\ reg'[p] = r
      /\ \A q \in Requests : q # p => reg'[q] = reg[q]
      /\ UNCHANGED <<month, run, tests, rows, meter, puts, bucket, expired,
                     sweep, rebase, crashes>>
  BY RegMoved DEF StoreInv, RegMove
<1>2. StoreTypes'
  <2>1. reg' \in [Requests -> RegRecord]
    BY DEF StoreInv, StoreTypes, RegMove, SetReg
  <2>. QED BY <1>1, <2>1 DEF StoreInv, StoreTypes, RegMove
<1>3. RegsInStep'
  BY <1>1 DEF StoreInv, RegsInStep, RegMove
<1>4. RebaseInStep' /\ SweepsFollow' /\ NoStrandedBytes'
  BY <1>1 DEF StoreInv, RebaseInStep, SweepsFollow, AtSweep, KeysOfTests,
              HasRow, Known, Key, NoStrandedBytes
<1>5. QuietOnceExpired'
  <2>1. ASSUME expired # {} PROVE Quiet'
    <3>1. Quiet /\ run # "open"
      BY <2>1 DEF StoreInv, QuietOnceExpired
    <3>2. r.pc \notin Progress
      BY <3>1, QuietPcs DEF RegMove
    <3>3. r.pc \in {"new", "answered"}
      BY <3>2 DEF RegMove, RegRecord, Progress
    <3>. QED BY <1>1, <3>1, <3>3 DEF Quiet
  <2>. QED BY <1>1, <2>1 DEF StoreInv, QuietOnceExpired
<1>6. PlansHold'
  <2>1. ASSUME run # "gone", NEW q \in Requests
        PROVE  PlanHolds(q, reg'[q], rows)
    BY <1>1, <2>1 DEF StoreInv, PlansHold, RegMove
  <2>2. ASSUME run # "gone", NEW q \in Requests
        PROVE  PlanHolds(q, reg[q], rows)'
    BY <1>1, <2>1, <2>2 DEF PlanHolds, Requested, MintedId
  <2>. QED BY <1>1, <2>2 DEF PlansHold
<1>7. SnapshotHolds'
  BY <1>1 DEF StoreInv, SnapshotHolds, BytesIn
<1>. QED BY <1>2, <1>3, <1>4, <1>5, <1>6, <1>7 DEF StoreInv

LEMMA RegSteps ==
    ASSUME StoreInv, NEW p \in Requests,
           \/ \E s \in Payloads : registerBegin(p, s)
           \/ registerTests(p) \/ registerRead(p) \/ registerQuota(p)
           \/ registerRollback(p) \/ registerAnswer(p)
    PROVE  StoreInv'
<1>. USE DEF AtReg
<1>0. /\ reg[p] \in RegRecord /\ month \in Months /\ handed \subseteq Keys
      /\ rows \in [Idents -> RowType]
      /\ run # "gone" => PlanHolds(p, reg[p], rows)
      /\ reg[p].pc \in Progress =>
             reg[p].month \in Months /\ reg[p].payload \in Payloads
  BY DEF StoreInv, StoreTypes, PlansHold, RegsInStep
<1>1. Answered.pc = "answered" /\ NewReg.pc = "new"
  BY DEF Answered, NewReg
<1>a. NoRow \in RowType
  BY DEF RowType
<1>2. ASSUME SetReg(p, Answered), UNCHANGED <<regVars, rows, meter, rebase>>
      PROVE  StoreInv'
  <2>1. RegMove(p, Answered)
    BY <1>0, <1>1, <1>2, NewRegType DEF RegMove, regVars, Progress, PlanHolds
  <2>. QED BY <2>1, RegStep
<1>3. ASSUME NEW s \in Payloads, registerBegin(p, s) PROVE StoreInv'
  <2>1. CASE run # "open"
    BY <1>2, <1>3, <2>1 DEF registerBegin
  <2>2. CASE run = "open"
    <3>. DEFINE r == [NewReg EXCEPT !.pc = "tests", !.month = month,
                                    !.payload = s]
    <3>1. /\ r \in RegRecord /\ r.pc = "tests" /\ r.month \in Months
          /\ r.payload \in Payloads
      BY <1>0, NewRegType DEF RegRecord, NewReg
    <3>2. SetReg(p, r) /\ UNCHANGED <<regVars, rows, meter, rebase>>
      BY <1>3, <2>2 DEF registerBegin
    <3>. HIDE DEF r
    <3>3. RegMove(p, r)
      BY <1>0, <2>2, <3>1, <3>2 DEF RegMove, regVars, PlanHolds
    <3>. QED BY <3>3, RegStep
  <2>. QED BY <2>1, <2>2
<1>4. CASE registerTests(p)
  <2>. DEFINE r == [reg[p] EXCEPT !.pc = "read"]
  <2>1. CASE SetReg(p, Answered)
    BY <1>2, <1>4, <2>1 DEF registerTests
  <2>2. CASE SetReg(p, r)
    <3>1. /\ r \in RegRecord /\ r.pc = "read" /\ r.month = reg[p].month
          /\ r.payload = reg[p].payload
      BY <1>0 DEF RegRecord
    <3>2. reg[p].pc = "tests" /\ UNCHANGED <<regVars, rows, meter, rebase>>
      BY <1>4 DEF registerTests
    <3>. HIDE DEF r
    <3>3. RegMove(p, r)
      BY <1>0, <2>2, <3>1, <3>2 DEF RegMove, regVars, PlanHolds, Progress
    <3>. QED BY <3>3, RegStep
  <2>. QED BY <1>4, <2>1, <2>2 DEF registerTests
<1>5. CASE registerRead(p)
  <2>. DEFINE k == [i \in Idents |-> IF i \in Requested(reg[p].payload)
                                     THEN rows[i] ELSE NoRow]
              t == [reg[p] EXCEPT !.known = k]
              label == IF RowsToInsert(t) \cup RowsToUpdate(t) = {} THEN "urls"
                       ELSE IF NetNewBytes(t) > 0 THEN "quota" ELSE "commit"
              r == [t EXCEPT !.pc = label]
  <2>1. k \in [Idents -> RowType]
    BY <1>0, <1>a
  <2>2. reg[p].pc = "read" /\ reg[p].pc \in Progress
    BY <1>5 DEF registerRead, Progress
  <2>3. /\ r \in RegRecord /\ r.pc = label /\ r.month = reg[p].month
        /\ r.payload = reg[p].payload /\ r.known = k
        /\ t.payload = reg[p].payload /\ t.known = k
    <3>1. label \in {"urls", "quota", "commit"}
      OBVIOUS
    <3>. HIDE DEF label, k
    <3>. QED BY <1>0, <2>1, <3>1 DEF RegRecord
  <2>4. SetReg(p, r) /\ UNCHANGED <<regVars, rows, meter, rebase>>
    BY <1>5 DEF registerRead
  <2>5. \A i \in Requested(r.payload) : i \in Idents /\ r.known[i] = rows[i]
    BY <1>0, <2>2, <2>3, SizeFacts
  <2>6. label = "urls" => \A i \in Requested(r.payload) : r.known[i] # NoRow
    <3>1. label = "urls" => RowsToInsert(t) = {}
      OBVIOUS
    <3>. HIDE DEF label, k
    <3>. QED BY <2>3, <3>1 DEF RowsToInsert
  <2>. HIDE DEF r, label
  <2>7. RegMove(p, r)
    BY <1>0, <2>2, <2>3, <2>4, <2>5, <2>6
       DEF RegMove, regVars, PlanHolds
  <2>. QED BY <2>7, RegStep
<1>6. CASE registerQuota(p)
  <2>. DEFINE r == [reg[p] EXCEPT !.pc = "commit"]
  <2>1. CASE SetReg(p, Answered)
    BY <1>2, <1>6, <2>1 DEF registerQuota
  <2>2. CASE SetReg(p, r)
    <3>1. /\ r \in RegRecord /\ r.pc = "commit" /\ r.month = reg[p].month
          /\ r.payload = reg[p].payload /\ r.known = reg[p].known
      BY <1>0 DEF RegRecord
    <3>2. reg[p].pc = "quota" /\ UNCHANGED <<regVars, rows, meter, rebase>>
      BY <1>6 DEF registerQuota
    <3>. HIDE DEF r
    <3>3. RegMove(p, r)
      BY <1>0, <2>2, <3>1, <3>2 DEF RegMove, regVars, PlanHolds, Progress
    <3>. QED BY <3>3, RegStep
  <2>. QED BY <1>6, <2>1, <2>2 DEF registerQuota
<1>7. CASE registerRollback(p)
  <2>. DEFINE r == [reg[p] EXCEPT !.pc = "read", !.attempt = 1]
  <2>1. CASE SetReg(p, Answered)
    BY <1>2, <1>7, <2>1 DEF registerRollback
  <2>2. CASE SetReg(p, r)
    <3>1. /\ r \in RegRecord /\ r.pc = "read" /\ r.month = reg[p].month
          /\ r.payload = reg[p].payload
      BY <1>0 DEF RegRecord
    <3>2. reg[p].pc = "commit" /\ UNCHANGED <<regVars, rows, meter, rebase>>
      BY <1>7 DEF registerRollback
    <3>. HIDE DEF r
    <3>3. RegMove(p, r)
      BY <1>0, <2>2, <3>1, <3>2 DEF RegMove, regVars, PlanHolds, Progress
    <3>. QED BY <3>3, RegStep
  <2>. QED BY <1>7, <2>1, <2>2 DEF registerRollback, AfterRollback
<1>8. CASE registerAnswer(p)
  <2>1. reg[p].pc = "urls" /\ reg[p].payload \in Payloads
    BY <1>0, <1>8 DEF registerAnswer, Progress
  <2>2. ASSUME NEW i \in Requested(reg[p].payload)
        PROVE  Key(i, PlannedId(p, reg[p], i)) \in Keys
    <3>1. i \in Idents
      BY <2>1, <2>2, SizeFacts
    <3>2. PlannedId(p, reg[p], i) \in Requests \X {0, 1}
      <4>1. CASE i \in RowsToInsert(reg[p])
        BY <1>0, <4>1 DEF PlannedId, MintedId, RegRecord
      <4>2. CASE i \notin RowsToInsert(reg[p])
        <5>1. reg[p].known[i] \in RowType /\ reg[p].known[i] # NoRow
          BY <1>0, <2>2, <3>1, <4>2 DEF RegRecord, RowsToInsert
        <5>. QED BY <4>2, <5>1, RowFacts DEF PlannedId
      <4>. QED BY <4>1, <4>2
    <3>. QED BY <3>1, <3>2 DEF Key, Keys
  <2>3. handed' \subseteq Keys
    BY <1>0, <1>8, <2>2 DEF registerAnswer
  <2>4. RegMove(p, Answered)
    BY <1>1, <1>8, <2>1, <2>3, NewRegType
       DEF registerAnswer, RegMove, Progress, PlanHolds
  <2>. QED BY <2>4, RegStep
<1>. QED BY <1>3, <1>4, <1>5, <1>6, <1>7, <1>8


-----------------------------------------------------------------------------
(* The transaction *)

\* What a commit does to the row of one identity.
LEMMA WrittenFacts ==
    ASSUME NEW p \in Requests, NEW r \in RegRecord, r.payload \in Payloads,
           r.month \in Months, rows \in [Idents -> RowType]
    PROVE  /\ Written(p, r) \in [Idents -> RowType]
           /\ \A i \in RowsToInsert(r) :
                 /\ Written(p, r)[i].id = MintedId(p, r)
                 /\ Written(p, r)[i].size = FirstSize(r.payload, i)
                 /\ Written(p, r)[i].month = r.month
           /\ \A i \in Idents \ RowsToInsert(r) :
                 /\ Written(p, r)[i].id = rows[i].id
                 /\ Written(p, r)[i].month = rows[i].month
                 /\ IF i \in RowsToUpdate(r) /\ rows[i].id = r.known[i].id
                    THEN Written(p, r)[i].size = LastSize(r.payload, i)
                    ELSE Written(p, r)[i] = rows[i]
<1>. DEFINE w == Written(p, r)
<1>1. ASSUME NEW i \in RowsToInsert(r)
      PROVE  /\ i \in Idents /\ w[i] \in RowType
             /\ w[i].id = MintedId(p, r)
             /\ w[i].size = FirstSize(r.payload, i) /\ w[i].month = r.month
  <2>. DEFINE e == [id |-> MintedId(p, r), size |-> FirstSize(r.payload, i),
                    month |-> r.month]
  <2>1. i \in Idents /\ FirstSize(r.payload, i) \in Nat
    BY PlanFacts
  <2>2. MintedId(p, r) \in Requests \X {0, 1}
    BY DEF MintedId, RegRecord
  <2>3. w[i] = e
    BY <2>1 DEF Written
  <2>4. e \in RowType /\ e.id = MintedId(p, r)
        /\ e.size = FirstSize(r.payload, i) /\ e.month = r.month
    BY <2>1, <2>2 DEF RowType
  <2>. HIDE DEF w, e
  <2>. QED BY <2>1, <2>3, <2>4
<1>2. ASSUME NEW i \in Idents \ RowsToInsert(r)
      PROVE  /\ w[i] \in RowType
             /\ w[i].id = rows[i].id /\ w[i].month = rows[i].month
             /\ IF i \in RowsToUpdate(r) /\ rows[i].id = r.known[i].id
                THEN w[i].size = LastSize(r.payload, i) ELSE w[i] = rows[i]
  <2>1. rows[i] \in RowType
    OBVIOUS
  <2>2. CASE i \in RowsToUpdate(r) /\ rows[i].id = r.known[i].id
    <3>. DEFINE e == [rows[i] EXCEPT !.size = LastSize(r.payload, i)]
    <3>1. LastSize(r.payload, i) \in Nat /\ r.known[i] # NoRow
      BY <2>2, PlanFacts
    <3>2. r.known[i] \in RowType
      BY DEF RegRecord
    <3>3. rows[i] # NoRow
      BY <2>1, <2>2, <3>1, <3>2, RowFacts
    <3>4. rows[i] \in [id : Requests \X {0, 1}, size : Nat, month : Months]
      BY <2>1, <3>3 DEF RowType
    <3>5. /\ e \in RowType /\ e.id = rows[i].id /\ e.month = rows[i].month
          /\ e.size = LastSize(r.payload, i)
      BY <3>1, <3>4 DEF RowType
    <3>6. w[i] = e
      BY <2>2 DEF Written
    <3>. HIDE DEF w, e
    <3>. QED BY <2>2, <3>5, <3>6
  <2>3. CASE ~(i \in RowsToUpdate(r) /\ rows[i].id = r.known[i].id)
    <3>1. w[i] = rows[i]
      BY <2>3 DEF Written
    <3>. HIDE DEF w
    <3>. QED BY <2>1, <2>3, <3>1
  <2>. QED BY <2>2, <2>3
<1>3. w \in [Idents -> RowType]
  <2>1. \A i \in Idents : w[i] \in RowType
    <3>. HIDE DEF w
    <3>. QED BY <1>1, <1>2
  <2>2. w = [i \in Idents |-> w[i]]
    BY DEF Written
  <2>. HIDE DEF w
  <2>. QED BY <2>1, <2>2
<1>. HIDE DEF w
<1>4. \A i \in RowsToInsert(r) : /\ w[i].id = MintedId(p, r)
                                 /\ w[i].size = FirstSize(r.payload, i)
                                 /\ w[i].month = r.month
  BY <1>1
<1>5. \A i \in Idents \ RowsToInsert(r) :
         /\ w[i].id = rows[i].id /\ w[i].month = rows[i].month
         /\ IF i \in RowsToUpdate(r) /\ rows[i].id = r.known[i].id
            THEN w[i].size = LastSize(r.payload, i) ELSE w[i] = rows[i]
  BY <1>2
<1>. QED BY <1>3, <1>4, <1>5 DEF w

\* What a registration read is what it refreshes, in its own month.
AsRead(r) == \A i \in RowsToUpdate(r) :
                rows[i] = r.known[i] /\ rows[i].month = r.month

\* Then the bytes of its month move by what it adds, and no other month's.
LEMMA CommitBytes ==
    ASSUME NEW p \in Requests, NEW r \in RegRecord, r.payload \in Payloads,
           r.month \in Months, rows \in [Idents -> RowType],
           \A i \in RowsToInsert(r) : rows[i] = NoRow,
           AsRead(r), NEW m \in Months
    PROVE  BytesOf(Written(p, r), m)
           = BytesOf(rows, m) + (IF m = r.month THEN NetNewBytes(r) ELSE 0)
<1>1. PICK w : w = Written(p, r)
  OBVIOUS
<1>2. /\ w \in [Idents -> RowType]
      /\ \A i \in RowsToInsert(r) : /\ w[i].size = FirstSize(r.payload, i)
                                    /\ w[i].month = r.month
      /\ \A i \in Idents \ RowsToInsert(r) :
            /\ w[i].month = rows[i].month
            /\ IF i \in RowsToUpdate(r) /\ rows[i].id = r.known[i].id
               THEN w[i].size = LastSize(r.payload, i) ELSE w[i] = rows[i]
  BY <1>1, WrittenFacts
<1>3. /\ BytesOf(w, m) = Sum(Weights(w, m), Idents)
      /\ BytesOf(rows, m) = Sum(Weights(rows, m), Idents)
      /\ BytesOf(rows, m) \in Int
      /\ \A i \in Idents : Weights(rows, m)[i] \in Int
  BY <1>2, BytesSum
<1>4. \A i \in Idents : Added(r)[i] \in Int
  BY PlanFacts DEF Added, Inserted, Updated
<1>5. ASSUME NEW i \in Idents
      PROVE  Weights(w, m)[i] = Weights(rows, m)[i]
                                + (IF m = r.month THEN Added(r)[i] ELSE 0)
  <2>1. /\ Weights(w, m)[i] = IF w[i].month = m THEN w[i].size ELSE 0
        /\ Weights(rows, m)[i] = IF rows[i].month = m THEN rows[i].size ELSE 0
    BY DEF Weights
  <2>2. rows[i].size \in Nat /\ r.known[i].size \in Nat
    <3>1. rows[i] \in RowType /\ r.known[i] \in RowType
      BY DEF RegRecord
    <3>. QED BY <3>1, RowFacts
  <2>3. CASE i \in RowsToInsert(r)
    <3>1. /\ FirstSize(r.payload, i) \in Nat /\ i \notin RowsToUpdate(r)
      BY <2>3, PlanFacts
    <3>2. Added(r)[i] = FirstSize(r.payload, i)
      BY <2>3, <3>1 DEF Added, Inserted, Updated
    <3>3. rows[i].size = 0
      BY <2>3 DEF NoRow
    <3>. QED BY <1>2, <2>1, <2>3, <3>1, <3>2, <3>3
  <2>4. CASE i \in RowsToUpdate(r)
    <3>1. /\ LastSize(r.payload, i) \in Nat /\ i \notin RowsToInsert(r)
      BY <2>4, PlanFacts
    <3>2. Added(r)[i] = LastSize(r.payload, i) - r.known[i].size
      BY <2>2, <2>4, <3>1 DEF Added, Inserted, Updated, UpdateBytes
    <3>3. rows[i] = r.known[i] /\ rows[i].month = r.month
      BY <2>4 DEF AsRead
    <3>4. w[i].size = LastSize(r.payload, i) /\ w[i].month = r.month
      BY <1>2, <2>4, <3>1, <3>3
    <3>. QED BY <2>1, <2>2, <3>1, <3>2, <3>3, <3>4
  <2>5. CASE i \notin RowsToInsert(r) /\ i \notin RowsToUpdate(r)
    <3>1. Added(r)[i] = 0
      BY <2>5 DEF Added, Inserted, Updated
    <3>2. w[i] = rows[i]
      BY <1>2, <2>5
    <3>. QED BY <2>1, <2>2, <3>1, <3>2
  <2>. QED BY <2>3, <2>4, <2>5
<1>6. CASE m = r.month
  <2>1. Sum(Weights(w, m), Idents)
        = Sum(Weights(rows, m), Idents) + Sum(Added(r), Idents)
    BY <1>3, <1>4, <1>5, <1>6, StoreConstants, SumPlus
  <2>. QED BY <1>1, <1>3, <1>6, <2>1, NetNewSum
<1>7. CASE m # r.month
  <2>1. \A i \in Idents : Weights(w, m)[i] = Weights(rows, m)[i]
    BY <1>3, <1>5, <1>7
  <2>2. Sum(Weights(w, m), Idents) = Sum(Weights(rows, m), Idents)
    BY <2>1, StoreConstants, SumSame
  <2>. QED BY <1>1, <1>3, <1>7, <2>2
<1>. QED BY <1>6, <1>7

LEMMA BytesInIs ==
    \A m : BytesIn(m) = BytesOf(rows, m) /\ BytesIn(m)' = BytesOf(rows', m)
BY DEF BytesIn, BytesOf

LEMMA RebasingFacts ==
    ASSUME NEW p \in Requests, NEW r \in RegRecord, rebase \in RebaseRecord
    PROVE  /\ Rebasing(p, r) \in RebaseRecord
           /\ Rebasing(p, r).pc = rebase.pc
           /\ Rebasing(p, r).month = rebase.month
           /\ Rebasing(p, r).total = rebase.total
           /\ Rebasing(p, r).tries = rebase.tries
           /\ ~Rebasing(p, r).conflict =>
                 /\ ~rebase.conflict
                 /\ rebase.month = r.month =>
                       NetNewBytes(r) = 0 /\ RowsToInsert(r) = {}
           /\ ~Rebasing(p, r).skewed => ~rebase.skewed /\ AsRead(r)
<1>. DEFINE c == rebase.conflict \/ (rebase.month = r.month
                     /\ (NetNewBytes(r) # 0 \/ RowsToInsert(r) # {}))
            k == rebase.skewed \/ \E i \in RowsToUpdate(r) :
                     rows[i].month # r.month \/ rows[i] # r.known[i]
            b == [rebase EXCEPT !.conflict = c, !.skewed = k]
<1>1. Rebasing(p, r) = b
  BY DEF Rebasing
<1>2. c \in BOOLEAN /\ k \in BOOLEAN
  BY DEF RebaseRecord
<1>3. ~c => /\ ~rebase.conflict
            /\ rebase.month = r.month =>
                  NetNewBytes(r) = 0 /\ RowsToInsert(r) = {}
  OBVIOUS
<1>4. ~k => ~rebase.skewed /\ AsRead(r)
  BY DEF AsRead
<1>. HIDE DEF c, k
<1>5. /\ b \in RebaseRecord /\ b.pc = rebase.pc /\ b.month = rebase.month
      /\ b.total = rebase.total /\ b.tries = rebase.tries
      /\ b.conflict = c /\ b.skewed = k
  BY <1>2 DEF RebaseRecord
<1>. HIDE DEF b
<1>. QED BY <1>1, <1>3, <1>4, <1>5


\* The parts of the type invariant a lemma needs.
LEMMA RegFacts ==
    ASSUME StoreInv, NEW p \in Requests
    PROVE  /\ reg[p] \in RegRecord /\ rows \in [Idents -> RowType]
           /\ rebase \in RebaseRecord /\ meter \in [Months -> Int]
           /\ reg[p].pc \in Progress =>
                  reg[p].month \in Months /\ reg[p].payload \in Payloads
BY DEF StoreInv, StoreTypes, RegsInStep

\* No id of a row changes, but for what was inserted where none was.
LEMMA IdsStay ==
    ASSUME StoreInv, NEW p \in Requests, registerCommit(p),
           NEW i \in Idents, HasRow(i)
    PROVE  rows'[i].id = rows[i].id /\ HasRow(i)'
<1>1. /\ reg[p] \in RegRecord /\ rows \in [Idents -> RowType]
      /\ reg[p].month \in Months /\ reg[p].payload \in Payloads
  BY RegFacts DEF registerCommit, AtReg, Progress
<1>2. rows' = Written(p, reg[p]) /\ i \notin RowsToInsert(reg[p])
  BY DEF registerCommit
<1>3. rows'[i].id = rows[i].id /\ rows'[i] \in RowType
  BY <1>1, <1>2, WrittenFacts
<1>4. rows[i].id \in Requests \X {0, 1}
  BY <1>1, RowFacts DEF HasRow
<1>5. rows'[i] # NoRow
  BY <1>3, <1>4, RowFacts
<1>. QED BY <1>3, <1>5 DEF HasRow

LEMMA CommitStep ==
    ASSUME StoreInv, NEW p \in Requests, registerCommit(p)
    PROVE  StoreInv'
<1>. DEFINE r == reg[p]
            u == [r EXCEPT !.pc = "urls"]
<1>1. /\ r \in RegRecord /\ rows \in [Idents -> RowType]
      /\ rebase \in RebaseRecord /\ meter \in [Months -> Int]
      /\ r.month \in Months /\ r.payload \in Payloads
      /\ r.pc = "commit" /\ r.pc \in Progress
  BY RegFacts DEF registerCommit, AtReg, Progress
<1>2. /\ rows' = Written(p, r)
      /\ meter' = [meter EXCEPT ![r.month] = @ + NetNewBytes(r)]
      /\ rebase' = Rebasing(p, r)
      /\ SetReg(p, u)
      /\ UNCHANGED <<month, run, tests, handed, puts, bucket, expired, sweep,
                     crashes>>
      /\ \A i \in RowsToInsert(r) : rows[i] = NoRow
  BY DEF registerCommit, regVars, HasRow
<1>3. /\ u \in RegRecord /\ u.pc = "urls" /\ u.month = r.month
      /\ u.payload = r.payload /\ u.known = r.known /\ u.attempt = r.attempt
  BY <1>1 DEF RegRecord
<1>4. /\ reg'[p] = u
      /\ \A q \in Requests : q # p => reg'[q] = reg[q]
  BY <1>2, RegMoved DEF StoreInv
<1>5. StoreTypes'
  <2>1. rows' \in [Idents -> RowType]
    BY <1>1, <1>2, WrittenFacts
  <2>2. meter' \in [Months -> Int]
    <3>1. NetNewBytes(r) \in Int
      BY <1>1, NetNewSum
    <3>. HIDE DEF r
    <3>. QED BY <1>1, <1>2, <3>1
  <2>3. rebase' \in RebaseRecord
    BY <1>1, <1>2, RebasingFacts
  <2>4. reg' \in [Requests -> RegRecord]
    <3>. HIDE DEF u
    <3>. QED BY <1>2, <1>3 DEF StoreInv, StoreTypes, SetReg
  <2>. QED BY <1>2, <2>1, <2>2, <2>3, <2>4 DEF StoreInv, StoreTypes
<1>. HIDE DEF u
<1>6. RegsInStep'
  BY <1>1, <1>3, <1>4 DEF StoreInv, RegsInStep
<1>7. RebaseInStep'
  <2>1. /\ rebase'.pc = rebase.pc /\ rebase'.month = rebase.month
        /\ rebase'.tries = rebase.tries
    BY <1>1, <1>2, RebasingFacts
  <2>. QED BY <2>1 DEF StoreInv, RebaseInStep
<1>8. expired = {} /\ sweep.pc = "idle"
  <2>1. ~Quiet
    BY <1>1, QuietPcs
  <2>. QED BY <2>1 DEF StoreInv, QuietOnceExpired
<1>9. QuietOnceExpired' /\ SweepsFollow'
  BY <1>2, <1>8 DEF QuietOnceExpired, SweepsFollow, AtSweep
<1>10. PlansHold'
  <2>1. ASSUME run # "gone", NEW q \in Requests, q # p
        PROVE  PlanHolds(q, reg[q], rows')
    <3>1. PlanHolds(q, reg[q], rows)
      BY <2>1 DEF StoreInv, PlansHold
    <3>2. CASE reg[q].pc \notin {"quota", "commit", "urls"}
      BY <3>2 DEF PlanHolds
    <3>3. CASE reg[q].pc \in {"quota", "commit", "urls"}
      <4>1. reg[q] \in RegRecord /\ reg[q].payload \in Payloads
        BY <3>3, RegFacts DEF Progress
      <4>2. ASSUME NEW i \in Requested(reg[q].payload),
                   rows[i].id \in Requests \X {0, 1}
            PROVE  rows'[i].id = rows[i].id
        <5>1. i \in Idents /\ rows[i] \in RowType
          BY <1>1, <4>1, SizeFacts
        <5>2. HasRow(i)
          BY <4>2, <5>1, RowFacts DEF HasRow
        <5>. QED BY <5>1, <5>2, IdsStay
      <4>3. ASSUME NEW i \in Requested(reg[q].payload),
                   reg[q].known[i] # NoRow
            PROVE  reg[q].known[i].id \in Requests \X {0, 1}
        <5>1. i \in Idents
          BY <4>1, SizeFacts
        <5>2. reg[q].known[i] \in RowType
          BY <4>1, <5>1 DEF RegRecord
        <5>. QED BY <4>3, <5>2, RowFacts
      <4>4. MintedId(q, reg[q]) \in Requests \X {0, 1}
        BY <4>1 DEF MintedId, RegRecord
      <4>. QED BY <3>1, <4>2, <4>3, <4>4 DEF PlanHolds
    <3>. QED BY <3>2, <3>3
  <2>2. ASSUME run # "gone" PROVE PlanHolds(p, u, rows')
    <3>1. PlanHolds(p, r, rows)
      BY <2>2 DEF StoreInv, PlansHold
    <3>2. ASSUME NEW i \in Requested(r.payload)
          PROVE  /\ r.known[i] # NoRow => rows'[i].id = r.known[i].id
                 /\ r.known[i] = NoRow => rows'[i].id = MintedId(p, r)
      <4>1. i \in Idents
        BY <1>1, <3>2, SizeFacts
      <4>2. CASE r.known[i] = NoRow
        <5>1. i \in RowsToInsert(r)
          BY <3>2, <4>2 DEF RowsToInsert
        <5>2. rows'[i].id = MintedId(p, r)
          BY <1>1, <1>2, <5>1, WrittenFacts
        <5>. QED BY <4>2, <5>2
      <4>3. CASE r.known[i] # NoRow
        <5>1. i \notin RowsToInsert(r)
          BY <4>3 DEF RowsToInsert
        <5>2. rows'[i].id = rows[i].id
          BY <1>1, <1>2, <4>1, <5>1, WrittenFacts
        <5>3. rows[i].id = r.known[i].id
          BY <1>1, <3>1, <4>3 DEF PlanHolds
        <5>. QED BY <4>3, <5>2, <5>3
      <4>. QED BY <4>2, <4>3
    <3>3. MintedId(p, u) = MintedId(p, r)
      BY <1>3 DEF MintedId
    <3>. HIDE DEF r
    <3>. QED BY <1>3, <3>2, <3>3 DEF PlanHolds
  <2>3. ASSUME run # "gone", NEW q \in Requests
        PROVE  PlanHolds(q, reg'[q], rows')
    BY <1>4, <2>1, <2>2, <2>3
  <2>. QED BY <1>2, <2>3 DEF PlansHold, PlanHolds, Requested, MintedId
<1>11. NoStrandedBytes'
  <2>1. ASSUME run # "gone", NEW k \in bucket \cup puts
        PROVE  HasRow(k.ident)' /\ rows'[k.ident].id = rows[k.ident].id
    <3>1. k.ident \in Idents
      BY <2>1 DEF StoreInv, StoreTypes, Keys
    <3>2. HasRow(k.ident)
      BY <2>1 DEF StoreInv, NoStrandedBytes
    <3>. QED BY <3>1, <3>2, IdsStay
  <2>. QED BY <1>2, <2>1 DEF StoreInv, NoStrandedBytes, Known, Key, HasRow
<1>12. SnapshotHolds'
  <2>. SUFFICES ASSUME rebase'.pc = "write", ~rebase'.conflict,
                       ~rebase'.skewed
                PROVE  rebase'.total = BytesIn(rebase.month)'
    <3>1. rebase'.month = rebase.month
      BY <1>1, <1>2, RebasingFacts
    <3>. QED BY <3>1, BytesInIs DEF SnapshotHolds, BytesIn
  <2>1. /\ rebase.pc = "write" /\ ~rebase.conflict /\ ~rebase.skewed
        /\ rebase.month = r.month => NetNewBytes(r) = 0
        /\ rebase'.total = rebase.total /\ AsRead(r)
    BY <1>1, <1>2, RebasingFacts
  <2>2. rebase.total = BytesIn(rebase.month) /\ rebase.month \in Months
    BY <2>1 DEF StoreInv, SnapshotHolds, RebaseInStep
  <2>3. BytesOf(rows', rebase.month)
        = BytesOf(rows, rebase.month)
          + (IF rebase.month = r.month THEN NetNewBytes(r) ELSE 0)
    BY <1>1, <1>2, <2>1, <2>2, CommitBytes
  <2>4. BytesOf(rows, rebase.month) \in Int
    BY <1>1, BytesSum
  <2>5. BytesIn(rebase.month)' = BytesOf(rows', rebase.month)
    BY <1>1, <1>2, RebasingFacts DEF BytesIn, BytesOf
  <2>6. BytesIn(rebase.month) = BytesOf(rows, rebase.month)
    BY BytesInIs
  <2>. QED BY <2>1, <2>2, <2>3, <2>4, <2>5, <2>6
<1>. QED BY <1>5, <1>6, <1>7, <1>9, <1>10, <1>11, <1>12 DEF StoreInv


-----------------------------------------------------------------------------
(* Uploads, time, the owner and the re-base *)

\* What the parts of the invariant depend on.
LEMMA Unmoved ==
    ASSUME StoreInv
    PROVE  /\ UNCHANGED <<reg, rows, run>> => PlansHold'
           /\ UNCHANGED reg => RegsInStep'
           /\ UNCHANGED rebase => RebaseInStep'
           /\ UNCHANGED <<rebase, rows>> => SnapshotHolds'
           /\ UNCHANGED <<sweep, rows>> /\ bucket' \subseteq bucket
                  => SweepsFollow'
           /\ UNCHANGED <<run, rows>>
              /\ (bucket' \cup puts') \subseteq (bucket \cup puts)
                  => NoStrandedBytes'
           /\ UNCHANGED <<expired, run, reg, puts, sweep>> => QuietOnceExpired'
<1>1. UNCHANGED <<reg, rows, run>> => PlansHold'
  BY DEF StoreInv, PlansHold, PlanHolds, Requested, MintedId
<1>2. /\ UNCHANGED reg => RegsInStep'
      /\ UNCHANGED rebase => RebaseInStep'
      /\ UNCHANGED <<rebase, rows>> => SnapshotHolds'
  BY DEF StoreInv, RegsInStep, RebaseInStep, SnapshotHolds, BytesIn
<1>3. UNCHANGED <<sweep, rows>> /\ bucket' \subseteq bucket => SweepsFollow'
  BY DEF StoreInv, SweepsFollow, AtSweep, KeysOfTests, HasRow, Known, Key
<1>4. UNCHANGED <<run, rows>>
      /\ (bucket' \cup puts') \subseteq (bucket \cup puts) => NoStrandedBytes'
  BY DEF StoreInv, NoStrandedBytes, HasRow, Known, Key
<1>5. UNCHANGED <<expired, run, reg, puts, sweep>> => QuietOnceExpired'
  BY DEF StoreInv, QuietOnceExpired, Quiet
<1>. QED BY <1>1, <1>2, <1>3, <1>4, <1>5

LEMMA UploadSteps ==
    ASSUME StoreInv, NEW k \in handed, uploadBegin(k) \/ uploadPut(k)
    PROVE  StoreInv'
<1>0. UNCHANGED <<month, run, tests, rows, meter, reg, handed, expired, sweep,
                  rebase, crashes>>
  BY DEF uploadBegin, uploadPut
<1>1. k \in Keys /\ (puts' \cup bucket') \subseteq (puts \cup bucket \cup {k})
  BY DEF StoreInv, StoreTypes, uploadBegin, uploadPut
<1>2. StoreTypes'
  BY <1>0, <1>1 DEF StoreInv, StoreTypes
<1>3. expired = {} /\ sweep.pc = "idle"
  <2>1. run = "open" \/ ~Quiet
    BY DEF uploadBegin, uploadPut, Quiet
  <2>. QED BY <2>1 DEF StoreInv, QuietOnceExpired
<1>4. QuietOnceExpired' /\ SweepsFollow'
  BY <1>0, <1>3 DEF QuietOnceExpired, SweepsFollow, AtSweep
<1>5. NoStrandedBytes'
  <2>1. run # "gone" => HasRow(k.ident) /\ Known(k.ident) = k
    BY DEF uploadBegin, uploadPut, StoreInv, NoStrandedBytes
  <2>. QED BY <1>0, <1>1, <2>1
           DEF StoreInv, NoStrandedBytes, HasRow, Known, Key
<1>. QED BY <1>0, <1>2, <1>4, <1>5, Unmoved DEF StoreInv

LEMMA TimeSteps ==
    ASSUME StoreInv,
           newMonth \/ runCloses \/ \E x \in Expiring : expire(x)
    PROVE  StoreInv'
<1>0. /\ UNCHANGED <<tests, rows, meter, reg, handed, puts, bucket, sweep,
                     rebase, crashes>>
      /\ run' = "gone" <=> run = "gone"
  BY DEF newMonth, runCloses, expire
<1>1. StoreTypes'
  <2>1. month' \in Months /\ run' \in {"open", "closed", "gone"}
    BY DEF newMonth, runCloses, expire, StoreInv, StoreTypes
  <2>2. expired' \subseteq Idents \cup Tests
    BY StoreConstants DEF newMonth, runCloses, expire, StoreInv, StoreTypes
  <2>. QED BY <1>0, <2>1, <2>2 DEF StoreInv, StoreTypes
<1>2. QuietOnceExpired'
  <2>1. CASE newMonth
    BY <2>1 DEF newMonth, StoreInv, QuietOnceExpired, Quiet
  <2>2. CASE runCloses
    BY <2>2 DEF runCloses, StoreInv, QuietOnceExpired, Quiet
  <2>3. ASSUME NEW x \in Expiring, expire(x) PROVE QuietOnceExpired'
    BY <2>3 DEF expire, StoreInv, QuietOnceExpired, Quiet
  <2>. QED BY <2>1, <2>2, <2>3
<1>3. PlansHold' /\ NoStrandedBytes'
  BY <1>0 DEF StoreInv, PlansHold, PlanHolds, Requested, MintedId,
              NoStrandedBytes, HasRow, Known, Key
<1>. QED BY <1>0, <1>1, <1>2, <1>3, Unmoved DEF StoreInv

\* What deletes rows marks the re-base that is between its steps.
LEMMA Skewed ==
    ASSUME StoreInv, rebase' = [rebase EXCEPT !.skewed = TRUE]
    PROVE  rebase' \in RebaseRecord /\ RebaseInStep' /\ SnapshotHolds'
<1>1. rebase \in RebaseRecord
  BY DEF StoreInv, StoreTypes
<1>2. /\ rebase' \in RebaseRecord /\ rebase'.skewed = TRUE
      /\ rebase'.pc = rebase.pc /\ rebase'.tries = rebase.tries
      /\ rebase'.month = rebase.month
  BY <1>1 DEF RebaseRecord
<1>. QED BY <1>2 DEF StoreInv, RebaseInStep, SnapshotHolds

LEMMA DeleteStep == StoreInv /\ deleteProject => StoreInv'
<1>. SUFFICES ASSUME StoreInv, deleteProject PROVE StoreInv'
  OBVIOUS
<1>. USE DEF deleteProject
<1>1. StoreTypes'
  <2>1. rows' \in [Idents -> RowType]
    BY DEF RowType
  <2>. QED BY <2>1, Skewed DEF StoreInv, StoreTypes
<1>2. QuietOnceExpired'
  BY DEF StoreInv, QuietOnceExpired, Quiet
<1>3. PlansHold' /\ NoStrandedBytes'
  BY DEF PlansHold, NoStrandedBytes
<1>4. SweepsFollow'
  <2>1. \A i \in Idents : rows'[i] = NoRow
    OBVIOUS
  <2>2. KeysOfTests(sweep.tests)' = {}
    BY <2>1 DEF KeysOfTests, HasRow
  <2>. QED BY <2>2 DEF StoreInv, SweepsFollow, AtSweep
<1>. QED BY <1>1, <1>2, <1>3, <1>4, Skewed, Unmoved DEF StoreInv

LEMMA RebaseSteps ==
    ASSUME StoreInv, rebaseSnapshot \/ rebaseWrite \/ rebaseConflict
    PROVE  StoreInv'
<1>0. UNCHANGED <<month, run, tests, rows, reg, handed, puts, bucket, expired,
                  sweep, crashes>>
  BY DEF rebaseSnapshot, rebaseWrite, rebaseConflict, regVars
<1>1. /\ rebase \in RebaseRecord /\ meter \in [Months -> Int]
      /\ month \in Months /\ rows \in [Idents -> RowType] /\ RebaseInStep
      /\ MaxRebaseTries = 5
  BY DEF StoreInv, StoreTypes, MaxRebaseTries
<1>2. /\ rebase' \in RebaseRecord /\ RebaseInStep' /\ SnapshotHolds'
      /\ meter' \in [Months -> Int]
  <2>1. CASE rebaseSnapshot
    <3>1. PICK m : m = IF rebase.pc = "idle" THEN month ELSE rebase.month
      OBVIOUS
    <3>2. PICK l : l = IF rebase.pc = "idle" THEN rebase.left - 1
                       ELSE rebase.left
      OBVIOUS
    <3>3. PICK b : b = BytesIn(m)
      OBVIOUS
    <3>4. rebase' = [pc |-> "write", month |-> m, total |-> b,
                     tries |-> rebase.tries + 1, conflict |-> FALSE,
                     skewed |-> FALSE, left |-> l] /\ meter' = meter
      BY <2>1, <3>1, <3>2, <3>3 DEF rebaseSnapshot
    <3>5. m \in Months
      BY <1>1, <2>1, <3>1 DEF rebaseSnapshot, RebaseInStep
    <3>6. b \in Int
      BY <1>1, <3>3, BytesInIs, BytesSum
    <3>7. l \in Int
      BY <1>1, <3>2 DEF RebaseRecord
    <3>8. rebase.tries + 1 \in 0 .. MaxRebaseTries
      BY <1>1, <2>1 DEF rebaseSnapshot, RebaseInStep, RebaseRecord
    <3>9. rebase' \in RebaseRecord
      BY <3>4, <3>5, <3>6, <3>7, <3>8 DEF RebaseRecord
    <3>10. rebase'.pc = "write" /\ rebase'.month = m /\ rebase'.total = b
      BY <3>4
    <3>11. SnapshotHolds'
      <4>1. BytesIn(m)' = b
        BY <1>0, <3>3 DEF BytesIn
      <4>. QED BY <3>10, <4>1 DEF SnapshotHolds, BytesIn
    <3>. QED BY <1>1, <3>4, <3>5, <3>9, <3>10, <3>11 DEF RebaseInStep
  <2>2. ASSUME rebase' = [NoRebase EXCEPT !.left = rebase.left]
        PROVE  rebase' \in RebaseRecord /\ RebaseInStep' /\ SnapshotHolds'
    <3>1. rebase.left \in Int
      BY <1>1 DEF RebaseRecord
    <3>2. /\ rebase' \in RebaseRecord /\ rebase'.pc = "idle"
          /\ rebase'.tries = 0
      <4>1. rebase' = [pc |-> "idle", month |-> 0, total |-> 0, tries |-> 0,
                       conflict |-> FALSE, skewed |-> FALSE,
                       left |-> rebase.left]
        BY <2>2 DEF NoRebase
      <4>2. 0 \in 0 .. MaxRebaseTries
        BY <1>1
      <4>. QED BY <3>1, <4>1, <4>2 DEF RebaseRecord
    <3>. QED BY <3>2 DEF RebaseInStep, SnapshotHolds
  <2>3. CASE rebaseWrite
    <3>1. meter' = [meter EXCEPT ![rebase.month] = rebase.total]
      BY <2>3 DEF rebaseWrite
    <3>2. rebase.total \in Int
      BY <1>1 DEF RebaseRecord
    <3>3. meter' \in [Months -> Int]
      BY <1>1, <3>1, <3>2
    <3>. QED BY <2>2, <2>3, <3>3 DEF rebaseWrite
  <2>4. CASE rebaseConflict
    <3>1. CASE rebase.tries < MaxRebaseTries
      <4>1. rebase' = [rebase EXCEPT !.pc = "again"] /\ rebase.pc = "write"
        BY <2>4, <3>1 DEF rebaseConflict
      <4>2. /\ rebase' \in RebaseRecord /\ rebase'.pc = "again"
            /\ rebase'.tries = rebase.tries /\ rebase'.month = rebase.month
        BY <1>1, <4>1 DEF RebaseRecord
      <4>. QED BY <1>1, <2>4, <3>1, <4>1, <4>2
               DEF RebaseInStep, SnapshotHolds, rebaseConflict
    <3>2. CASE ~(rebase.tries < MaxRebaseTries)
      BY <1>1, <2>2, <2>4, <3>2 DEF rebaseConflict
    <3>. QED BY <3>1, <3>2
  <2>. QED BY <2>1, <2>3, <2>4
<1>3. StoreTypes'
  BY <1>0, <1>2 DEF StoreInv, StoreTypes
<1>. QED BY <1>0, <1>2, <1>3, Unmoved DEF StoreInv

-----------------------------------------------------------------------------
(* The retention sweep *)

\* While a sweep is at work nothing else is.
LEMMA SweepAlone ==
    ASSUME StoreInv, sweep.pc # "idle" \/ expired # {}
    PROVE  /\ run # "open" /\ puts = {} /\ expired # {}
           /\ \A p \in Requests : reg[p].pc \notin Progress
<1>1. expired # {} /\ run # "open" /\ Quiet
  BY DEF StoreInv, QuietOnceExpired
<1>. QED BY <1>1, QuietPcs DEF Quiet

\* Choosing what to sweep, and dying, move only the sweep's record.
LEMMA SweepPlans ==
    ASSUME StoreInv,
           \/ sweepArtifacts \/ sweepTests \/ sweepReadTests \/ sweepDies
    PROVE  StoreInv'
<1>0. /\ UNCHANGED <<month, run, tests, rows, meter, reg, handed, puts, bucket,
                     expired, rebase>>
      /\ expired # {}
  BY SweepAlone DEF sweepArtifacts, sweepTests, sweepReadTests, sweepDies,
                    sweepFrame, AtSweep
<1>a. /\ sweep \in SweepRecord /\ rows \in [Idents -> RowType]
      /\ NoSweep \in SweepRecord /\ NoSweep.pc = "idle"
  BY DEF StoreInv, StoreTypes, NoSweep, SweepRecord
<1>b. ASSUME NEW i \in Idents, HasRow(i) PROVE Known(i) \in Keys
  <2>1. rows[i].id \in Requests \X {0, 1}
    BY <1>a, <1>b, RowFacts DEF HasRow
  <2>. QED BY <2>1 DEF Known, Key, Keys
<1>c. ASSUME NEW T PROVE T \in SUBSET Tests => KeysOfTests(T) \subseteq Keys
  BY <1>b DEF KeysOfTests
<1>1. CASE sweepArtifacts
  <2>1. PICK I \in Slice(ExpiredRows) :
           sweep' = IF I = {} THEN [NoSweep EXCEPT !.pc = "tests"]
                    ELSE [NoSweep EXCEPT !.pc = "objects",
                                         !.keys = {Known(i) : i \in I}]
    BY <1>1 DEF sweepArtifacts
  <2>2. I \subseteq ExpiredRows
    BY DEF Slice, kSubset
  <2>3. {Known(i) : i \in I} \subseteq Keys
    BY <1>b, <2>2 DEF ExpiredRows
  <2>4. sweep' \in SweepRecord /\ sweep'.pc \in {"tests", "objects"}
    BY <1>a, <2>1, <2>3 DEF SweepRecord, NoSweep
  <2>5. StoreTypes' /\ SweepsFollow' /\ QuietOnceExpired'
    BY <1>0, <2>4 DEF StoreInv, StoreTypes, SweepsFollow, AtSweep,
                      QuietOnceExpired, Quiet
  <2>. QED BY <1>0, <2>5, Unmoved DEF StoreInv
<1>2. CASE sweepTests
  <2>1. PICK T \in Slice(tests \cap expired) :
           sweep' = IF T = {} THEN NoSweep
                    ELSE [NoSweep EXCEPT !.pc = "testObjects", !.tests = T]
    BY <1>2 DEF sweepTests
  <2>2. T \subseteq tests
    BY DEF Slice, kSubset
  <2>3. T \in SUBSET Tests
    BY <2>2 DEF StoreInv, StoreTypes
  <2>4. sweep' \in SweepRecord /\ sweep'.pc \in {"idle", "testObjects"}
    BY <1>a, <2>1, <2>3 DEF SweepRecord, NoSweep
  <2>5. StoreTypes' /\ SweepsFollow' /\ QuietOnceExpired'
    BY <1>0, <2>4 DEF StoreInv, StoreTypes, SweepsFollow, AtSweep,
                      QuietOnceExpired, Quiet
  <2>. QED BY <1>0, <2>5, Unmoved DEF StoreInv
<1>3. CASE sweepReadTests
  <2>1. PICK K : K = KeysOfTests(sweep.tests)
    OBVIOUS
  <2>2. sweep' = [sweep EXCEPT !.pc = "testRows", !.keys = K]
    BY <1>3, <2>1 DEF sweepReadTests
  <2>3. K \subseteq Keys
    BY <1>a, <1>c, <2>1 DEF SweepRecord
  <2>4. /\ sweep' \in SweepRecord /\ sweep'.pc = "testRows"
        /\ sweep'.keys = K /\ sweep'.tests = sweep.tests
    BY <1>a, <2>2, <2>3 DEF SweepRecord
  <2>5. KeysOfTests(sweep.tests)' = K
    BY <1>0, <2>1, <2>4 DEF KeysOfTests, HasRow, Known, Key
  <2>6. StoreTypes' /\ SweepsFollow' /\ QuietOnceExpired'
    BY <1>0, <2>4, <2>5 DEF StoreInv, StoreTypes, SweepsFollow, AtSweep,
                      QuietOnceExpired, Quiet
  <2>. QED BY <1>0, <2>6, Unmoved DEF StoreInv
<1>4. CASE sweepDies
  <2>1. sweep' = NoSweep
    BY <1>4 DEF sweepDies
  <2>2. StoreTypes' /\ SweepsFollow' /\ QuietOnceExpired'
    BY <1>0, <1>a, <2>1 DEF StoreInv, StoreTypes, SweepsFollow, AtSweep,
                      QuietOnceExpired, Quiet
  <2>. QED BY <1>0, <2>2, Unmoved DEF StoreInv
<1>. QED BY <1>1, <1>2, <1>3, <1>4

LEMMA SweepObjects ==
    ASSUME StoreInv, sweepObjects \/ sweepTestObjects
    PROVE  StoreInv'
<1>0. /\ UNCHANGED <<month, run, tests, rows, meter, reg, handed, puts,
                     expired, rebase>>
      /\ bucket' = bucket \ sweep.keys
      /\ sweep.pc \in {"objects", "testRows"}
  BY DEF sweepObjects, sweepTestObjects, sweepFrame, AtSweep
<1>1. PICK label : label = IF AtSweep("objects") THEN "rows" ELSE "testDelete"
  OBVIOUS
<1>2. sweep' = [sweep EXCEPT !.pc = label]
  BY <1>1 DEF sweepObjects, sweepTestObjects, AtSweep
<1>3. /\ sweep' \in SweepRecord /\ sweep'.pc = label
      /\ sweep'.keys = sweep.keys /\ sweep'.tests = sweep.tests
  <2>1. sweep \in SweepRecord /\ label \in {"rows", "testDelete"}
    BY <1>1 DEF StoreInv, StoreTypes
  <2>. QED BY <1>2, <2>1 DEF SweepRecord
<1>4. StoreTypes' /\ QuietOnceExpired'
  BY <1>0, <1>3, SweepAlone
     DEF StoreInv, StoreTypes, QuietOnceExpired, Quiet
<1>5. SweepsFollow'
  <2>1. CASE AtSweep("objects")
    BY <1>0, <1>1, <1>3, <2>1 DEF SweepsFollow, AtSweep
  <2>2. CASE AtSweep("testRows")
    <3>1. KeysOfTests(sweep.tests) \subseteq sweep.keys
      BY <2>2 DEF StoreInv, SweepsFollow
    <3>2. KeysOfTests(sweep.tests)' = KeysOfTests(sweep.tests)
      BY <1>0, <1>3 DEF KeysOfTests, HasRow, Known, Key
    <3>. QED BY <1>0, <1>1, <1>3, <2>2, <3>1, <3>2 DEF SweepsFollow, AtSweep
  <2>. QED BY <1>0, <2>1, <2>2 DEF AtSweep
<1>. QED BY <1>0, <1>4, <1>5, Unmoved DEF StoreInv

\* Rows go when their objects are gone.
LEMMA SweepDeletes ==
    ASSUME StoreInv, sweepRows \/ sweepTestRows
    PROVE  StoreInv'
<1>0. /\ UNCHANGED <<month, run, meter, reg, handed, puts, bucket, expired>>
      /\ rebase' = [rebase EXCEPT !.skewed = TRUE]
      /\ tests' \subseteq tests
      /\ sweep.pc \in {"rows", "testDelete"}
  BY DEF sweepRows, sweepTestRows, sweepFrame, AtSweep
<1>1. sweep' \in SweepRecord /\ sweep'.pc \in {"tests", "idle"}
  BY DEF sweepRows, sweepTestRows, NoSweep, SweepRecord
<1>2. /\ rows' \in [Idents -> RowType]
      /\ \A i \in Idents :
            \/ rows'[i] = rows[i]
            \/ /\ rows'[i] = NoRow
               /\ HasRow(i) => Known(i) \notin bucket
  <2>0. rows \in [Idents -> RowType] /\ NoRow \in RowType
    BY DEF StoreInv, StoreTypes, RowType
  <2>1. CASE sweepRows
    <3>1. sweep.keys \cap bucket = {}
      BY <2>1 DEF sweepRows, StoreInv, SweepsFollow
    <3>2. rows' = [i \in Idents |-> IF HasRow(i) /\ Known(i) \in sweep.keys
                                    THEN NoRow ELSE rows[i]]
      BY <2>1 DEF sweepRows, RowsGone
    <3>. QED BY <2>0, <3>1, <3>2
  <2>2. CASE sweepTestRows
    <3>1. KeysOfTests(sweep.tests) \cap bucket = {}
      BY <2>2 DEF sweepTestRows, StoreInv, SweepsFollow
    <3>2. rows' = [i \in Idents |-> IF TestOf[i] \in sweep.tests THEN NoRow
                                    ELSE rows[i]]
      BY <2>2 DEF sweepTestRows
    <3>3. \A i \in Idents : TestOf[i] \in sweep.tests /\ HasRow(i)
                                => Known(i) \notin bucket
      BY <3>1 DEF KeysOfTests
    <3>. QED BY <2>0, <3>2, <3>3
  <2>. QED BY <2>1, <2>2
<1>3. StoreTypes'
  BY <1>0, <1>1, <1>2, Skewed DEF StoreInv, StoreTypes
<1>4. QuietOnceExpired'
  BY <1>0, SweepAlone DEF StoreInv, QuietOnceExpired, Quiet
<1>5. PlansHold'
  <2>1. \A p \in Requests : reg[p].pc \notin {"quota", "commit", "urls"}
    BY <1>0, SweepAlone DEF Progress
  <2>. QED BY <1>0, <2>1 DEF PlansHold, PlanHolds
<1>6. SweepsFollow'
  BY <1>1 DEF SweepsFollow, AtSweep
<1>7. NoStrandedBytes'
  <2>1. puts' = {}
    BY <1>0, SweepAlone
  <2>2. ASSUME run # "gone", NEW k \in bucket
        PROVE  HasRow(k.ident)' /\ Known(k.ident)' = k
    <3>1. k.ident \in Idents /\ HasRow(k.ident) /\ Known(k.ident) = k
      BY <2>2 DEF StoreInv, StoreTypes, Keys, NoStrandedBytes
    <3>2. rows'[k.ident] = rows[k.ident]
      BY <1>2, <2>2, <3>1
    <3>. QED BY <3>1, <3>2 DEF HasRow, Known, Key
  <2>. QED BY <1>0, <2>1, <2>2 DEF NoStrandedBytes
<1>. QED BY <1>0, <1>3, <1>4, <1>5, <1>6, <1>7, Skewed, Unmoved DEF StoreInv

LEMMA StoreNextInv == StoreInv /\ [StoreNext]_storeVars => StoreInv'
<1>. SUFFICES ASSUME StoreInv, [StoreNext]_storeVars PROVE StoreInv'
  OBVIOUS
<1>1. ASSUME NEW p \in Requests, registration(p) PROVE StoreInv'
  BY <1>1, RegSteps, CommitStep DEF registration
<1>2. ASSUME NEW k \in handed, uploadBegin(k) \/ uploadPut(k) PROVE StoreInv'
  BY <1>2, UploadSteps
<1>3. CASE newMonth \/ runCloses \/ \E x \in Expiring : expire(x)
  BY <1>3, TimeSteps
<1>4. CASE deleteProject
  BY <1>4, DeleteStep
<1>5. CASE rebaseSnapshot \/ rebaseWrite \/ rebaseConflict
  BY <1>5, RebaseSteps
<1>6. CASE retention \/ sweepDies
  BY <1>6, SweepPlans, SweepObjects, SweepDeletes DEF retention
<1>7. CASE UNCHANGED storeVars
  <2>1. UNCHANGED <<month, run, tests, rows, meter, reg, handed, puts, bucket,
                    expired, sweep, rebase>>
    BY <1>7 DEF storeVars
  <2>2. StoreTypes'
    BY <2>1 DEF StoreInv, StoreTypes
  <2>. QED BY <2>1, <2>2, Unmoved DEF StoreInv
<1>. QED BY <1>1, <1>2, <1>3, <1>4, <1>5, <1>6, <1>7 DEF StoreNext

-----------------------------------------------------------------------------
(* The theorems *)

\* The invariant the others follow from.
THEOREM StoreInvariant == StoreSpec => []StoreInv
BY StoreInitInv, StoreNextInv, PTL DEF StoreSpec

\* Every value stays in its type.
THEOREM StoreTyped == StoreSpec => []StoreTypeOK
<1>1. StoreInv => StoreTypeOK
  <2>. SUFFICES ASSUME StoreInv PROVE StoreTypeOK
    OBVIOUS
  <2>1. StoreTypes
    BY DEF StoreInv
  <2>2. \A p \in Requests : reg[p] \in RegRecord
    BY <2>1 DEF StoreTypes
  <2>3. sweep.keys \subseteq Keys /\ rebase.pc \in {"idle", "write", "again"}
        /\ rebase.tries \in 0 .. MaxRebaseTries
    BY <2>1 DEF StoreTypes, SweepRecord, RebaseRecord
  <2>. QED BY <2>1, <2>2, <2>3 DEF StoreTypes, StoreTypeOK, RegRecord, Keys
<1>. QED BY <1>1, StoreInvariant, PTL

\* While the project is there, no object in R2 and no upload on its way is
\* without its row, wherever registrations raced or a sweep was cut off.
THEOREM NothingIsStranded == StoreSpec => []NoStrandedBytes
<1>1. StoreInv => NoStrandedBytes
  BY DEF StoreInv
<1>. QED BY <1>1, StoreInvariant, PTL


\* However many requests race for one identity, every URL that is answered is
\* of the row that holds the identity.
THEOREM UrlsAreOfLiveRows == StoreSpec => AnswersTheLiveRow
<1>. DEFINE Live == \A k \in handed' \ handed :
                       \/ run = "gone"
                       \/ HasRow(k.ident) /\ Known(k.ident) = k
<1>1. StoreInv /\ [StoreNext]_storeVars => [Live]_storeVars
  <2>. SUFFICES ASSUME StoreInv, StoreNext, NEW k \in handed' \ handed,
                       run # "gone"
                PROVE  HasRow(k.ident) /\ Known(k.ident) = k
    OBVIOUS
  <2>1. PICK p \in Requests : registerAnswer(p)
    BY DEF StoreNext, registration, registerBegin, registerTests,
           registerRead, registerQuota, registerCommit, registerRollback,
           regVars, uploadBegin, uploadPut, newMonth, runCloses,
           deleteProject, expire, rebaseSnapshot, rebaseWrite,
           rebaseConflict, retention, sweepArtifacts, sweepObjects, sweepRows,
           sweepTests, sweepReadTests, sweepTestObjects, sweepTestRows,
           sweepDies, sweepFrame
  <2>2. PICK i \in Requested(reg[p].payload) :
           k = Key(i, PlannedId(p, reg[p], i))
    BY <2>1 DEF registerAnswer
  <2>3. /\ reg[p].pc = "urls" /\ reg[p] \in RegRecord
        /\ reg[p].payload \in Payloads /\ rows \in [Idents -> RowType]
    BY <2>1, RegFacts DEF registerAnswer, AtReg, Progress
  <2>4. i \in Idents /\ rows[i] \in RowType /\ reg[p].known[i] \in RowType
    BY <2>3, SizeFacts DEF RegRecord
  <2>5. PlanHolds(p, reg[p], rows)
    BY DEF StoreInv, PlansHold
  <2>6. /\ rows[i].id = PlannedId(p, reg[p], i)
        /\ PlannedId(p, reg[p], i) \in Requests \X {0, 1}
    <3>1. CASE reg[p].known[i] = NoRow
      <4>1. i \in RowsToInsert(reg[p])
        BY <3>1 DEF RowsToInsert
      <4>2. MintedId(p, reg[p]) \in Requests \X {0, 1}
        BY <2>3 DEF MintedId, RegRecord
      <4>. QED BY <2>3, <2>5, <3>1, <4>1, <4>2 DEF PlanHolds, PlannedId
    <3>2. CASE reg[p].known[i] # NoRow
      <4>1. i \notin RowsToInsert(reg[p])
        BY <3>2 DEF RowsToInsert
      <4>2. reg[p].known[i].id \in Requests \X {0, 1}
        BY <2>4, <3>2, RowFacts
      <4>. QED BY <2>3, <2>5, <3>2, <4>1, <4>2 DEF PlanHolds, PlannedId
    <3>. QED BY <3>1, <3>2
  <2>7. rows[i] # NoRow
    BY <2>4, <2>6, RowFacts
  <2>. QED BY <2>2, <2>6, <2>7 DEF HasRow, Known, Key
<1>2. StoreSpec => [][StoreNext]_storeVars
  BY PTL DEF StoreSpec
<1>. QED BY <1>1, <1>2, StoreInvariant, PTL DEF AnswersTheLiveRow

\* What writes the meter.
LEMMA MeterMoves ==
    ASSUME StoreInv, StoreNext
    PROVE  \/ UNCHANGED meter
           \/ \E p \in Requests : registerCommit(p)
           \/ rebaseWrite
BY DEF StoreNext, registration, registerBegin, registerTests,
       registerRead, registerQuota, registerRollback, registerAnswer,
       regVars, uploadBegin, uploadPut, newMonth, runCloses,
       deleteProject, expire, rebaseSnapshot,
       rebaseConflict, retention, sweepArtifacts, sweepObjects, sweepRows,
       sweepTests, sweepReadTests, sweepTestObjects, sweepTestRows,
       sweepDies, sweepFrame

\* However many registrations passed one quota check, no bump takes the meter
\* past the limit.
THEOREM BumpsStayWithinTheLimit == StoreSpec => NoBumpOvershoots
<1>. DEFINE Within ==
         \A m \in Months :
            meter'[m] <= Limit \/ meter'[m] <= meter[m] \/ Rebases(m)
<1>1. StoreInv /\ [StoreNext]_storeVars => [Within]_storeVars
  <2>. SUFFICES ASSUME StoreInv, StoreNext, NEW m \in Months
                PROVE  \/ meter'[m] <= Limit
                       \/ meter'[m] <= meter[m] \/ Rebases(m)
    OBVIOUS
  <2>1. meter \in [Months -> Int] /\ Limit \in Nat /\ meter[m] \in Int
    BY StoreConstants DEF StoreInv, StoreTypes
  <2>2. CASE UNCHANGED meter
    BY <2>1, <2>2
  <2>3. ASSUME NEW p \in Requests, registerCommit(p)
        PROVE  meter'[m] <= Limit \/ meter'[m] <= meter[m]
    <3>1. PICK n : n = NetNewBytes(reg[p])
      OBVIOUS
    <3>2. PICK h : h = reg[p].month
      OBVIOUS
    <3>3. n \in Int /\ h \in Months
      BY <2>3, <3>1, <3>2, RegFacts, NetNewSum
         DEF registerCommit, AtReg, Progress
    <3>4. /\ meter' = [meter EXCEPT ![h] = @ + n]
          /\ n > 0 => n <= Limit /\ meter[h] + n <= Limit
      BY <2>3, <3>1, <3>2 DEF registerCommit, Blocked, BumpApplies
    <3>5. CASE m = h
      <4>1. meter'[m] = meter[m] + n
        BY <2>1, <3>3, <3>4, <3>5
      <4>. QED BY <2>1, <3>3, <3>4, <3>5, <4>1
    <3>6. CASE m # h
      <4>1. meter'[m] = meter[m]
        BY <2>1, <3>4, <3>6
      <4>. QED BY <2>1, <4>1
    <3>. QED BY <3>5, <3>6
  <2>4. CASE rebaseWrite
    <3>1. CASE m = rebase.month
      <4>1. rebase'.pc = "idle" /\ rebase.pc = "write"
        BY <2>4 DEF rebaseWrite, NoRebase
      <4>. QED BY <3>1, <4>1 DEF Rebases
    <3>2. CASE m # rebase.month
      <4>1. meter'[m] = meter[m]
        BY <2>1, <2>4, <3>2 DEF rebaseWrite
      <4>. QED BY <2>1, <4>1
    <3>. QED BY <3>1, <3>2
  <2>. QED BY <2>2, <2>3, <2>4, MeterMoves
<1>2. StoreSpec => [][StoreNext]_storeVars
  BY PTL DEF StoreSpec
<1>. QED BY <1>1, <1>2, StoreInvariant, PTL DEF NoBumpOvershoots

\* What writes rows, in the same way.
LEMMA RowMoves ==
    ASSUME StoreInv, StoreNext
    PROVE  \/ UNCHANGED rows
           \/ \E p \in Requests : registerCommit(p)
           \/ deleteProject \/ sweepRows \/ sweepTestRows
BY DEF StoreNext, registration, registerBegin, registerTests,
       registerRead, registerQuota, registerRollback, registerAnswer,
       regVars, uploadBegin, uploadPut, newMonth, runCloses,
       expire, rebaseSnapshot, rebaseWrite,
       rebaseConflict, retention, sweepArtifacts, sweepObjects,
       sweepTests, sweepReadTests, sweepTestObjects, sweepDies, sweepFrame

\* The meter and the rows it counts come apart only by the three steps the
\* property names, and a re-base that none of them followed brings them
\* together.
THEOREM MeterIsKept == StoreSpec => MeterFollowsRows
<1>. DEFINE Kept == \A m \in Months :
                       \/ Gap(m)' = Gap(m)
                       \/ RowsVanish \/ StaleRefresh \/ LateRefresh
                       \/ Rebases(m) /\ (rebase.skewed \/ Gap(m)' = 0)
<1>1. StoreInv /\ [StoreNext]_storeVars => [Kept]_storeVars
  <2>. SUFFICES ASSUME StoreInv, StoreNext, NEW m \in Months
                PROVE  \/ Gap(m)' = Gap(m)
                       \/ RowsVanish \/ StaleRefresh \/ LateRefresh
                       \/ Rebases(m) /\ (rebase.skewed \/ Gap(m)' = 0)
    OBVIOUS
  <2>1. /\ meter \in [Months -> Int] /\ meter[m] \in Int
        /\ rows \in [Idents -> RowType] /\ BytesOf(rows, m) \in Int
    BY BytesSum DEF StoreInv, StoreTypes
  <2>2. /\ Gap(m) = meter[m] - BytesOf(rows, m)
        /\ Gap(m)' = meter'[m] - BytesOf(rows', m)
    BY BytesInIs DEF Gap
  <2>3. CASE UNCHANGED meter /\ UNCHANGED rows
    BY <2>2, <2>3
  <2>4. ASSUME NEW p \in Requests, registerCommit(p), ~StaleRefresh,
               ~LateRefresh
        PROVE  Gap(m)' = Gap(m)
    <3>1. PICK r : r = reg[p]
      OBVIOUS
    <3>2. /\ r \in RegRecord /\ r.payload \in Payloads /\ r.month \in Months
      BY <2>4, <3>1, RegFacts DEF registerCommit, AtReg, Progress
    <3>3. /\ rows' = Written(p, r)
          /\ meter' = [meter EXCEPT ![r.month] = @ + NetNewBytes(r)]
          /\ \A i \in RowsToInsert(r) : rows[i] = NoRow
          /\ reg[p].pc = "commit"
      BY <2>4, <3>1 DEF registerCommit, AtReg, HasRow
    <3>4. reg'[p].pc = "urls"
      BY <2>4, RegFacts, RegMoved
         DEF registerCommit, StoreInv, RegRecord
    <3>5. AsRead(r)
      <4>1. ASSUME NEW i \in RowsToUpdate(r)
            PROVE  rows[i] = r.known[i] /\ rows[i].month = r.month
        <5>1. i \in Idents /\ Refreshes(p, i)
          BY <3>1, <3>2, <3>3, <3>4, <4>1, PlanFacts DEF Refreshes, AtReg
        <5>. QED BY <2>4, <3>1, <5>1 DEF StaleRefresh, LateRefresh
      <4>. QED BY <4>1 DEF AsRead
    <3>6. BytesOf(rows', m)
          = BytesOf(rows, m) + (IF m = r.month THEN NetNewBytes(r) ELSE 0)
      BY <2>1, <3>2, <3>3, <3>5, CommitBytes
    <3>7. NetNewBytes(r) \in Int
      BY <3>2, NetNewSum
    <3>8. meter'[m] = meter[m] + (IF m = r.month THEN NetNewBytes(r) ELSE 0)
      BY <2>1, <3>2, <3>3, <3>7
    <3>. QED BY <2>1, <2>2, <3>6, <3>7, <3>8
  <2>5. CASE rebaseWrite
    <3>1. rows' = rows /\ meter' = [meter EXCEPT ![rebase.month] = rebase.total]
      BY <2>5 DEF rebaseWrite, regVars
    <3>2. CASE m # rebase.month
      <4>1. meter'[m] = meter[m]
        BY <2>1, <3>1, <3>2
      <4>. QED BY <2>2, <3>1, <4>1
    <3>3. CASE m = rebase.month
      <4>1. rebase'.pc = "idle" /\ rebase.pc = "write" /\ ~rebase.conflict
        BY <2>5 DEF rebaseWrite, NoRebase
      <4>2. meter'[m] = rebase.total
        BY <2>1, <3>1, <3>3
      <4>3. ~rebase.skewed => rebase.total = BytesOf(rows, m)
        BY <3>3, <4>1, BytesInIs DEF StoreInv, SnapshotHolds
      <4>4. ~rebase.skewed => Gap(m)' = 0
        BY <2>1, <2>2, <3>1, <4>2, <4>3
      <4>. QED BY <3>3, <4>1, <4>4 DEF Rebases
    <3>. QED BY <3>2, <3>3
  <2>6. CASE UNCHANGED meter /\ (deleteProject \/ sweepRows \/ sweepTestRows)
    <3>1. \A i \in Idents : rows'[i] = rows[i] \/ rows'[i] = NoRow
      BY <2>1, <2>6 DEF deleteProject, sweepRows, RowsGone, sweepTestRows
    <3>2. CASE RowsVanish
      BY <3>2
    <3>3. CASE ~RowsVanish
      <4>1. \A i \in Idents : rows'[i] = rows[i]
        BY <3>1, <3>3 DEF RowsVanish, HasRow
      <4>2. rows' \in [Idents -> RowType]
        BY StoreNextInv DEF StoreInv, StoreTypes
      <4>3. rows' = rows
        BY <2>1, <4>1, <4>2
      <4>. QED BY <2>2, <2>6, <4>3
    <3>. QED BY <3>2, <3>3
  <2>7. deleteProject \/ sweepRows \/ sweepTestRows => UNCHANGED meter
    BY DEF deleteProject, sweepRows, sweepTestRows, sweepFrame
  <2>. QED BY <2>3, <2>4, <2>5, <2>6, <2>7, MeterMoves, RowMoves
<1>2. StoreSpec => [][StoreNext]_storeVars
  BY PTL DEF StoreSpec
<1>. QED BY <1>1, <1>2, StoreInvariant, PTL DEF MeterFollowsRows
=============================================================================
