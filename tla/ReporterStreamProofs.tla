------------------------ MODULE ReporterStreamProofs ------------------------
(***************************************************************************)
(* Proofs about ReporterStream, for any suite, serial groups, batches and  *)
(* files: every entry is on its way once or counted once, /complete comes  *)
(* last, files go to their own rows, and the semaphore keeps its cap.      *)
(***************************************************************************)
EXTENDS ReporterStream, SetLemmas

Stages == {"none", "enqueues", "drain", "uploads", "open", "complete", "done"}
Entries == Tests \X Nat
Batches == Seq(Entries) \ {<<>>}
BatcherRecord == [queue : Seq(Entries), timer : BOOLEAN,
                  chain : Seq(Batches), tries : Nat]
UploadRecord == [id : Entries, pc : {"register", "again", "put"},
                 rows : Seq(Artifacts), files : Seq(Artifacts)]
PutRecord == [task : Entries, pos : Nat, row : Artifacts, file : Artifacts]
SlotsRecord == [active : Nat, holding : SUBSET PutRecord,
                waiting : Seq(PutRecord)]
TaskRecord == [enqueues : SUBSET Entries, uploads : SUBSET Entries]
EndRecord == [pc : Stages, late : BOOLEAN, awaited : TaskRecord, left : Nat,
              abandoned : BOOLEAN, tries : Nat]

\* Every variable keeps its type, whatever is lost, refused or late.
StreamTypes ==
    /\ attempts \in [Tests -> Nat]
    /\ ended \in SUBSET Entries
    /\ pending \in SUBSET Tests /\ enqueuing \in SUBSET Entries
    /\ batcher \in BatcherRecord
    /\ open \in {"pending", "open", "failed"} /\ disabled \in BOOLEAN
    /\ tally \in [streamed : Nat, failed : Nat]
    /\ uploads \in SUBSET UploadRecord
    /\ slots \in SlotsRecord
    /\ end \in EndRecord
    /\ alive \in BOOLEAN

\* What the end of the suite has waited for is over, unless it gave up.
StagesFollow ==
    /\ end.pc \notin {"none", "done"} => pending = {}
    /\ EndAt("enqueues") => enqueuing \subseteq end.awaited.enqueues
    /\ EndAt("drain") =>
          enqueuing = {} /\ batcher.queue = <<>> /\ end.left = Len(batcher.chain)
    /\ EndAt("uploads") =>
          /\ enqueuing = {} /\ batcher.queue = <<>> /\ batcher.chain = <<>>
          /\ UploadIds \subseteq end.awaited.uploads
    /\ end.pc \in {"open", "complete"} /\ ~end.abandoned =>
          /\ enqueuing = {} /\ batcher.queue = <<>> /\ batcher.chain = <<>>
          /\ uploads = {}

\* Rows and files are parallel in every task and every PUT.
ListsParallel ==
    /\ \A u \in uploads : u.rows = u.files
    /\ FilesToOwnRows

Distinct(s) == \A i, j \in DOMAIN s : s[i] = s[j] => i = j
ChainSet(c) == UNION {ToSet(c[k]) : k \in DOMAIN c}
Held(b) == ToSet(b.queue) \cup ChainSet(b.chain)

\* The batcher has an entry in its queue or in one batch, and once.
BatcherOnce(b) ==
    /\ ToSet(b.queue) \cap ChainSet(b.chain) = {}
    /\ Distinct(b.queue)
    /\ \A k \in DOMAIN b.chain : Distinct(b.chain[k])
    /\ \A j, k \in DOMAIN b.chain :
          j # k => ToSet(b.chain[j]) \cap ToSet(b.chain[k]) = {}

\* The entries of the tests that the accumulator has not let go.
Buffered == {LastEntry(t) : t \in pending}
Way == Buffered \cup Unsettled

\* A test that is buffered has an entry of its own that is not over, and every
\* other test that has reported is over, until what is buffered is drained.
EntriesFollow ==
    /\ IsFiniteSet(ended)
    /\ \A e \in ended : e[2] <= attempts[e[1]]
    /\ \A t \in pending : attempts[t] > 0 /\ LastEntry(t) \notin ended
    /\ EndAt("none") =>
          \A t \in Tests \ pending : attempts[t] > 0 => LastEntry(t) \in ended

\* An entry is at one place of its way, and once.
OnceOnTheWay ==
    /\ Way \subseteq Reported
    /\ Buffered \cap enqueuing = {}
    /\ (Buffered \cup enqueuing) \cap Held(batcher) = {}
    /\ BatcherOnce(batcher)

\* The entries that are no longer on their way are those that were counted.
CountsFollow ==
    tally.streamed + tally.failed = Cardinality(Reported \ Way)

\* An artifact task bears an entry that has been streamed, and no other's.
TasksTellApart ==
    /\ UploadIds \subseteq Reported \ Way
    /\ \A u, v \in uploads : u.id = v.id => u = v

\* The PUTs under the semaphore, or waiting for it.
PutsOf(s) == s.holding \cup ToSet(s.waiting)
\* The count is that of the holders, and no one waits while a slot is free.
SlotsFit(s) ==
    /\ IsFiniteSet(s.holding)
    /\ s.active = Cardinality(s.holding) /\ s.active <= Concurrency
    /\ s.waiting # <<>> => s.active = Concurrency
    /\ Distinct(s.waiting) /\ s.holding \cap ToSet(s.waiting) = {}
SemaphoreFits == SlotsFit(slots)
PutsHaveTasks ==
    \A p \in PutsOf(slots) : \E u \in uploads : u.id = p.task /\ u.pc = "put"

StreamInv ==
    /\ StreamTypes /\ StagesFollow /\ ListsParallel
    /\ EntriesFollow /\ OnceOnTheWay /\ CountsFollow /\ TasksTellApart
    /\ SemaphoreFits /\ PutsHaveTasks

-----------------------------------------------------------------------------
(* What the folds compute *)

LEMMA AcquiredType ==
    ASSUME NEW s \in SlotsRecord, NEW put \in PutRecord
    PROVE  Acquired(s, put) \in SlotsRecord
<1>1. s.active + 1 \in Nat /\ s.holding \cup {put} \in SUBSET PutRecord
  BY DEF SlotsRecord
<1>2. Append(s.waiting, put) \in Seq(PutRecord)
  BY DEF SlotsRecord
<1>. QED BY <1>1, <1>2 DEF Acquired, SlotsRecord

\* The PUTs of a task ask for their slots one after the other, in order.
LEMMA AcquiredInOrder ==
    ASSUME NEW s \in SlotsRecord, NEW puts \in Seq(PutRecord)
    PROVE  \E a \in [0 .. Len(puts) -> SlotsRecord] :
               /\ a[0] = s
               /\ \A k \in 1 .. Len(puts) : a[k] = Acquired(a[k - 1], puts[k])
               /\ FoldLeft(Acquired, s, puts) = a[Len(puts)]
<1>. DEFINE n == Len(puts)
            H == [p \in SlotsRecord \X (1 .. n) |-> Acquired(p[1], puts[p[2]])]
            Step(g) == [D \in SUBSET (DOMAIN puts) |->
                           IF D = {} THEN s
                           ELSE Acquired(g[D \ {Max(D)}], puts[Max(D)])]
            G == CHOOSE g : g = Step(g)
<1>1. n \in Nat /\ DOMAIN puts = 1 .. n /\ \A k \in 1 .. n : puts[k] \in PutRecord
  OBVIOUS
<1>2. H \in [SlotsRecord \X (1 .. n) -> SlotsRecord]
  BY <1>1, AcquiredType
<1>3. PICK g \in [SUBSET (1 .. n) -> SlotsRecord] : FoldsBy(H, s, g, n)
  <2>. HIDE DEF H, n
  <2>. QED BY <1>1, <1>2, FoldSolvable
<1>4. ASSUME NEW D \in SUBSET (1 .. n), D # {}
      PROVE  Max(D) \in 1 .. n /\ D \ {Max(D)} \in SUBSET (1 .. n)
  BY <1>1, <1>4, PositionMax
<1>5. ASSUME NEW D \in SUBSET (1 .. n)
      PROVE  g[D] = IF D = {} THEN s ELSE Acquired(g[D \ {Max(D)}], puts[Max(D)])
  <2>1. CASE D = {}
    BY <1>3, <2>1 DEF FoldsBy
  <2>2. CASE D # {}
    <3>1. g[D] = H[<<g[D \ {Max(D)}], Max(D)>>]
      <4>. HIDE DEF H, n
      <4>. QED BY <1>3, <2>2 DEF FoldsBy
    <3>2. g[D \ {Max(D)}] \in SlotsRecord /\ Max(D) \in 1 .. n
      BY <1>3, <1>4, <2>2
    <3>3. H[<<g[D \ {Max(D)}], Max(D)>>]
             = Acquired(g[D \ {Max(D)}], puts[Max(D)])
      <4>1. PICK v, m : v = g[D \ {Max(D)}] /\ m = Max(D)
        OBVIOUS
      <4>2. <<v, m>> \in SlotsRecord \X (1 .. n)
        BY <3>2, <4>1
      <4>3. H[<<v, m>>] = Acquired(v, puts[m])
        BY <4>2
      <4>. QED BY <4>1, <4>3
    <3>. QED BY <2>2, <3>1, <3>3
  <2>. QED BY <2>1, <2>2
<1>6. g = Step(g)
  <2>1. g = [D \in SUBSET (1 .. n) |-> g[D]]
    BY <1>3
  <2>. QED BY <1>1, <1>5, <2>1
<1>7. G = Step(G)
  <2>. HIDE DEF Step
  <2>. QED BY <1>6
<1>8. FoldLeft(Acquired, s, puts) = G[1 .. n]
  BY <1>1 DEF FoldLeft, MapThenFoldSet
<1>9. ASSUME NEW D \in SUBSET (1 .. n)
      PROVE  G[D] = IF D = {} THEN s ELSE Acquired(G[D \ {Max(D)}], puts[Max(D)])
  <2>1. Step(G)[D] = IF D = {} THEN s
                     ELSE Acquired(G[D \ {Max(D)}], puts[Max(D)])
    <3>. HIDE DEF G, n
    <3>. QED BY <1>1
  <2>. QED BY <1>7, <2>1
<1>. HIDE DEF G, H, Step
<1>10. G[1 .. 0] = s
  <2>1. (1 .. 0) \in SUBSET (1 .. n) /\ (1 .. 0) = {}
    BY <1>1
  <2>. HIDE DEF n
  <2>. QED BY <1>9, <2>1
<1>11. ASSUME NEW k \in 1 .. n
       PROVE  G[1 .. k] = Acquired(G[1 .. (k - 1)], puts[k])
  <2>1. Max(1 .. k) = k /\ (1 .. k) \ {k} = 1 .. (k - 1)
    BY <1>1, PrefixMax
  <2>2. (1 .. k) \in SUBSET (1 .. n) /\ (1 .. k) # {}
    BY <1>1
  <2>. QED BY <1>9, <2>1, <2>2
<1>. DEFINE B == {k \in 0 .. n : G[1 .. k] \in SlotsRecord}
            a == [k \in 0 .. n |-> G[1 .. k]]
<1>12. 0 \in B
  BY <1>1, <1>10
<1>13. ASSUME NEW k \in 1 .. n, k - 1 \in B PROVE k \in B
  BY <1>1, <1>11, <1>13, AcquiredType
<1>14. \A k \in 0 .. n : k \in B
  <2>. HIDE DEF B
  <2>1. B \in SUBSET (0 .. n)
    BY DEF B
  <2>. QED BY <1>1, <1>12, <1>13, <2>1, Climb
<1>15. a \in [0 .. n -> SlotsRecord]
  BY <1>14
<1>16. a[0] = s /\ a[n] = G[1 .. n]
  BY <1>1, <1>10
<1>17. ASSUME NEW k \in 1 .. n PROVE a[k] = Acquired(a[k - 1], puts[k])
  <2>1. k \in 0 .. n /\ k - 1 \in 0 .. n
    BY <1>1
  <2>2. a[k] = G[1 .. k] /\ a[k - 1] = G[1 .. (k - 1)]
    BY <2>1
  <2>. HIDE DEF a, B
  <2>. QED BY <1>11, <2>2
<1>. HIDE DEF a, B
<1>. QED BY <1>8, <1>15, <1>16, <1>17

\* What is kept of a task are positions of its rows.
LEMMA KeptPositions ==
    ASSUME NEW u \in UploadRecord
    PROVE  Kept(u) \in Seq(DOMAIN u.rows)
<1>. DEFINE n == Len(u.rows)
            V == Seq(1 .. n)
            seq == [i \in DOMAIN u.rows |-> i]
            Pushed(kept, i) == IF u.rows[i] \in Oversized THEN kept
                               ELSE Append(kept, i)
            H == [p \in V \X (1 .. n) |-> Pushed(p[1], p[2])]
            Step(g) == [D \in SUBSET (DOMAIN seq) |->
                           IF D = {} THEN <<>>
                           ELSE Pushed(g[D \ {Max(D)}], seq[Max(D)])]
            G == CHOOSE g : g = Step(g)
<1>1. u.rows \in Seq(Artifacts)
  BY DEF UploadRecord
<1>2. n \in Nat /\ DOMAIN u.rows = 1 .. n /\ DOMAIN seq = 1 .. n
      /\ \A k \in 1 .. n : seq[k] = k
  BY <1>1
<1>3. ASSUME NEW kept \in V, NEW i \in 1 .. n PROVE Pushed(kept, i) \in V
  <2>1. PICK S : S = 1 .. n
    OBVIOUS
  <2>2. kept \in Seq(S) /\ i \in S
    BY <2>1
  <2>3. Append(kept, i) \in Seq(S)
    BY <2>2
  <2>. QED BY <2>1, <2>2, <2>3
<1>. HIDE DEF Pushed, n, seq
<1>4. H \in [V \X (1 .. n) -> V]
  <2>. HIDE DEF V
  <2>. QED BY <1>3
<1>5. <<>> \in V
  OBVIOUS
<1>. HIDE DEF V
<1>6. PICK g \in [SUBSET (1 .. n) -> V] : FoldsBy(H, <<>>, g, n)
  <2>. HIDE DEF H
  <2>. QED BY <1>2, <1>4, <1>5, FoldSolvable
<1>7. ASSUME NEW D \in SUBSET (1 .. n), D # {}
      PROVE  Max(D) \in 1 .. n /\ D \ {Max(D)} \in SUBSET (1 .. n)
  BY <1>2, <1>7, PositionMax
<1>8. ASSUME NEW D \in SUBSET (1 .. n)
      PROVE  g[D] = IF D = {} THEN <<>>
                    ELSE Pushed(g[D \ {Max(D)}], seq[Max(D)])
  <2>1. CASE D = {}
    BY <1>6, <2>1 DEF FoldsBy
  <2>2. CASE D # {}
    <3>1. g[D] = H[<<g[D \ {Max(D)}], Max(D)>>]
      <4>. HIDE DEF H
      <4>. QED BY <1>6, <2>2 DEF FoldsBy
    <3>2. PICK v, m : v = g[D \ {Max(D)}] /\ m = Max(D)
      OBVIOUS
    <3>3. <<v, m>> \in V \X (1 .. n) /\ seq[m] = m
      BY <1>2, <1>6, <1>7, <2>2, <3>2
    <3>4. H[<<v, m>>] = Pushed(v, m)
      BY <3>3
    <3>. QED BY <2>2, <3>1, <3>2, <3>3, <3>4
  <2>. QED BY <2>1, <2>2
<1>9. g = Step(g)
  <2>1. g = [D \in SUBSET (1 .. n) |-> g[D]]
    BY <1>6
  <2>. QED BY <1>2, <1>8, <2>1
<1>10. G = Step(G)
  <2>. HIDE DEF Step
  <2>. QED BY <1>9
<1>11. Kept(u) = G[1 .. n]
  BY <1>2 DEF Kept, FoldLeftDomain, FoldLeft, MapThenFoldSet, seq, Pushed
<1>12. ASSUME NEW D \in SUBSET (1 .. n)
       PROVE  G[D] = IF D = {} THEN <<>>
                     ELSE Pushed(G[D \ {Max(D)}], seq[Max(D)])
  <2>1. Step(G)[D] = IF D = {} THEN <<>>
                     ELSE Pushed(G[D \ {Max(D)}], seq[Max(D)])
    <3>. HIDE DEF G
    <3>. QED BY <1>2
  <2>. QED BY <1>10, <2>1
<1>. HIDE DEF G, H, Step
<1>. DEFINE B == {k \in 0 .. n : G[1 .. k] \in V}
<1>13. 0 \in B
  <2>1. (1 .. 0) \in SUBSET (1 .. n) /\ (1 .. 0) = {}
    BY <1>2
  <2>2. G[1 .. 0] \in V
    BY <1>5, <1>12, <2>1
  <2>. QED BY <1>2, <2>2
<1>14. ASSUME NEW k \in 1 .. n, k - 1 \in B PROVE k \in B
  <2>1. Max(1 .. k) = k /\ (1 .. k) \ {k} = 1 .. (k - 1)
    BY <1>2, PrefixMax
  <2>2. (1 .. k) \in SUBSET (1 .. n) /\ (1 .. k) # {}
    BY <1>2
  <2>3. G[1 .. k] = Pushed(G[1 .. (k - 1)], k)
    BY <1>2, <1>12, <2>1, <2>2
  <2>. QED BY <1>2, <1>3, <1>14, <2>3
<1>15. G[1 .. n] \in V
  <2>1. B \in SUBSET (0 .. n) /\ n \in 0 .. n
    BY <1>2
  <2>. HIDE DEF B
  <2>2. n \in B
    BY <1>2, <1>13, <1>14, <2>1, Climb
  <2>. QED BY <2>2 DEF B
<1>. QED BY <1>2, <1>11, <1>15 DEF V

\* What the replies of a batch are correlated to are files.
LEMMA CorrelatedFiles ==
    ASSUME NEW batch \in Seq(Entries), NEW mapped
    PROVE  correlateUploads(batch, mapped) \in Seq(Artifacts)
<1>. DEFINE n == Len(batch)
            V == Seq(Artifacts)
            seqs == [k \in DOMAIN batch |-> IF batch[k] \in mapped
                                            THEN ArtifactsOf[batch[k][1]] ELSE <<>>]
            H == [p \in V \X (1 .. n) |-> p[1] \o seqs[p[2]]]
            Step(F) == [i \in 1 .. n |->
                           IF i = 1 THEN seqs[i] ELSE F[i - 1] \o seqs[i]]
            F == CHOOSE F : F = Step(F)
<1>1. n \in Nat /\ DOMAIN batch = 1 .. n
  OBVIOUS
<1>2. ASSUME NEW k \in 1 .. n PROVE seqs[k] \in V
  <2>1. batch[k][1] \in Tests
    BY <1>1 DEF Entries
  <2>2. ArtifactsOf[batch[k][1]] \in Seq(Artifacts)
    BY <2>1, StreamArtifacts
  <2>. QED BY <1>1, <2>2
<1>3. DOMAIN seqs = 1 .. n /\ Len(seqs) = n
  BY <1>1
<1>4. CASE n = 0
  <2>1. seqs = <<>>
    BY <1>3, <1>4
  <2>2. correlateUploads(batch, mapped) = seqs
    <3>1. correlateUploads(batch, mapped) = FlattenSeq(seqs)
      BY DEF correlateUploads
    <3>. HIDE DEF seqs
    <3>2. Len(seqs) = 0
      BY <1>3, <1>4
    <3>. QED BY <3>1, <3>2 DEF FlattenSeq
  <2>. QED BY <2>1, <2>2
<1>5. CASE n # 0
  <2>1. correlateUploads(batch, mapped) = F[n]
    <3>1. correlateUploads(batch, mapped) = FlattenSeq(seqs)
      BY DEF correlateUploads
    <3>. HIDE DEF seqs
    <3>2. Len(seqs) = n /\ n # 0
      BY <1>3, <1>5
    <3>. HIDE DEF n
    <3>. QED BY <3>1, <3>2 DEF FlattenSeq
  <2>. HIDE DEF seqs, n
  <2>2. H \in [V \X (1 .. n) -> V]
    <3>1. ASSUME NEW v \in V, NEW k \in 1 .. n PROVE v \o seqs[k] \in V
      BY <1>2
    <3>. HIDE DEF V
    <3>. QED BY <3>1
  <2>3. <<>> \in V
    OBVIOUS
  <2>. HIDE DEF V
  <2>4. PICK g \in [SUBSET (1 .. n) -> V] : FoldsBy(H, <<>>, g, n)
    <3>. HIDE DEF H
    <3>. QED BY <1>1, <2>2, <2>3, FoldSolvable
  <2>. PICK h : h = H
    OBVIOUS
  <2>5. /\ g[1 .. 0] = <<>>
        /\ \A k \in 1 .. n : g[1 .. k] = h[<<g[1 .. (k - 1)], k>>]
    <3>. HIDE DEF H
    <3>1. n \in Nat /\ FoldsBy(h, <<>>, g, n)
      BY <1>1, <2>4
    <3>. QED BY <3>1, FoldPrefixes
  <2>6. ASSUME NEW k \in 1 .. n
        PROVE  g[1 .. k] = g[1 .. (k - 1)] \o seqs[k]
    <3>1. PICK v : v = g[1 .. (k - 1)]
      OBVIOUS
    <3>2. (1 .. (k - 1)) \in SUBSET (1 .. n)
      BY <1>1
    <3>3. <<v, k>> \in V \X (1 .. n)
      BY <2>4, <3>1, <3>2
    <3>4. H[<<v, k>>] = v \o seqs[k]
      BY <3>3
    <3>. QED BY <2>5, <3>1, <3>4
  <2>. DEFINE W == [i \in 1 .. n |-> g[1 .. i]]
  <2>7. ASSUME NEW i \in 1 .. n
        PROVE  g[1 .. i] = IF i = 1 THEN seqs[i] ELSE W[i - 1] \o seqs[i]
    <3>1. CASE i = 1
      <4>0. 1 .. (i - 1) = 1 .. 0
        BY <3>1
      <4>1. g[1 .. i] = g[1 .. 0] \o seqs[i]
        BY <2>6, <4>0
      <4>2. seqs[i] \in Seq(Artifacts)
        BY <1>2 DEF V
      <4>. QED BY <2>5, <3>1, <4>1, <4>2
    <3>2. CASE i # 1
      <4>1. i - 1 \in 1 .. n
        BY <1>1, <3>2
      <4>2. W[i - 1] = g[1 .. (i - 1)]
        BY <4>1
      <4>. HIDE DEF W
      <4>. QED BY <2>6, <3>2, <4>2
    <3>. QED BY <3>1, <3>2
  <2>8. W = Step(W)
    BY <2>7
  <2>9. F = Step(F)
    <3>. HIDE DEF Step, W
    <3>. QED BY <2>8
  <2>10. ASSUME NEW i \in 1 .. n
         PROVE  F[i] = IF i = 1 THEN seqs[i] ELSE F[i - 1] \o seqs[i]
    <3>1. Step(F)[i] = IF i = 1 THEN seqs[i] ELSE F[i - 1] \o seqs[i]
      <4>. HIDE DEF F
      <4>. QED OBVIOUS
    <3>. QED BY <2>9, <3>1
  <2>. HIDE DEF F, Step, W, H
  <2>. DEFINE B == {k \in 0 .. n : k # 0 => F[k] \in V}
  <2>11. 0 \in B
    BY <1>1
  <2>12. ASSUME NEW k \in 1 .. n, k - 1 \in B PROVE k \in B
    <3>1. CASE k = 1
      BY <1>1, <1>2, <2>10, <3>1
    <3>2. CASE k # 1
      <4>1. F[k - 1] \in V
        BY <1>1, <2>12, <3>2
      <4>2. F[k] = F[k - 1] \o seqs[k]
        BY <2>10, <3>2
      <4>3. F[k] \in V
        BY <1>2, <4>1, <4>2 DEF V
      <4>. QED BY <1>1, <4>3
    <3>. QED BY <3>1, <3>2
  <2>13. n \in B
    <3>1. B \in SUBSET (0 .. n) /\ n \in 0 .. n
      BY <1>1
    <3>. HIDE DEF B
    <3>. QED BY <1>1, <2>11, <2>12, <3>1, Climb
  <2>. QED BY <1>5, <2>1, <2>13 DEF V
<1>. QED BY <1>4, <1>5

-----------------------------------------------------------------------------
(* Types *)

LEMMA TriggeredType ==
    ASSUME NEW b \in BatcherRecord
    PROVE  Triggered(b) \in BatcherRecord
<1>1. b.queue \in Seq(Entries) /\ b.chain \in Seq(Batches)
  BY DEF BatcherRecord
<1>2. CASE b.queue = <<>>
  BY <1>1, <1>2 DEF Triggered, BatcherRecord
<1>3. CASE b.queue # <<>>
  <2>1. b.queue \in Batches
    BY <1>1, <1>3 DEF Batches
  <2>2. Append(b.chain, b.queue) \in Seq(Batches)
    BY <1>1, <2>1
  <2>3. Triggered(b) = [b EXCEPT !.timer = FALSE, !.queue = <<>>,
                                 !.chain = Append(b.chain, b.queue)]
    BY <1>3 DEF Triggered
  <2>4. <<>> \in Seq(Entries)
    OBVIOUS
  <2>. QED BY <2>2, <2>3, <2>4 DEF BatcherRecord
<1>. QED BY <1>2, <1>3

LEMMA EnqueuedType ==
    ASSUME NEW b \in BatcherRecord, NEW e \in Entries
    PROVE  Enqueued(b, e) \in BatcherRecord
<1>. DEFINE q == [b EXCEPT !.queue = Append(@, e)]
<1>1. Append(b.queue, e) \in Seq(Entries)
  BY DEF BatcherRecord
<1>2. q \in BatcherRecord
  BY <1>1 DEF BatcherRecord
<1>3. [q EXCEPT !.timer = TimerSet(b)] \in BatcherRecord
  <2>. HIDE DEF q
  <2>. QED BY <1>2 DEF BatcherRecord, TimerSet
<1>4. Triggered(q) \in BatcherRecord
  BY <1>2, TriggeredType
<1>. QED BY <1>3, <1>4 DEF Enqueued

\* The batch of a flush in progress, and what is left when it has settled.
LEMMA BatchType ==
    ASSUME StreamTypes, Flushing
    PROVE  /\ Batch \in Batches /\ Batch \in Seq(Entries)
           /\ Len(Batch) \in Nat /\ Len(Batch) > 0
           /\ Batch = batcher.chain[1] /\ Batch[1] \in Entries
           /\ Tail(batcher.chain) \in Seq(Batches)
<1>1. batcher.chain \in Seq(Batches) /\ batcher.chain # <<>>
  BY DEF StreamTypes, BatcherRecord, Flushing
<1>2. PICK X : X = Batches
  OBVIOUS
<1>3. batcher.chain \in Seq(X)
  BY <1>1, <1>2
<1>4. Head(batcher.chain) \in X /\ Head(batcher.chain) = batcher.chain[1]
      /\ Tail(batcher.chain) \in Seq(X)
  BY <1>1, <1>3
<1>5. Batch \in Seq(Entries) /\ Batch # <<>>
  BY <1>2, <1>4 DEF Batch, Batches
<1>6. Len(Batch) \in Nat /\ Len(Batch) > 0 /\ Batch[1] \in Entries
  BY <1>5
<1>. QED BY <1>2, <1>4, <1>5, <1>6 DEF Batch

LEMMA SettledType ==
    ASSUME StreamTypes, Flushing, BatchSettled
    PROVE  batcher' \in BatcherRecord /\ end' \in EndRecord
<1>1. Tail(batcher.chain) \in Seq(Batches)
  BY BatchType
<1>2. batcher' \in BatcherRecord
  BY <1>1 DEF StreamTypes, BatchSettled, BatcherRecord
<1>3. end' \in EndRecord
  <2>1. (IF end.left > 0 THEN end.left - 1 ELSE 0) \in Nat
    BY DEF StreamTypes, EndRecord
  <2>. QED BY <2>1 DEF StreamTypes, BatchSettled, EndRecord
<1>. QED BY <1>2, <1>3

\* The slots are typed after a task has asked for all of its own.
LEMMA SlotsType ==
    ASSUME StreamTypes, NEW u \in uploads, u.rows = u.files
    PROVE  /\ Puts(u) \in Seq(PutRecord) /\ Len(Puts(u)) = Len(u.rows)
           /\ FoldLeft(Acquired, slots, Puts(u)) \in SlotsRecord
<1>1. u \in UploadRecord /\ slots \in SlotsRecord
  BY DEF StreamTypes
<1>2. u.rows \in Seq(Artifacts) /\ u.id \in Entries /\ DOMAIN u.rows = 1 .. Len(u.rows)
      /\ Len(u.rows) \in Nat
  BY <1>1 DEF UploadRecord
<1>3. ASSUME NEW i \in DOMAIN u.rows PROVE Put(u, i) \in PutRecord
  BY <1>2, u.rows = u.files DEF Put, PutRecord
<1>4. Puts(u) \in Seq(PutRecord) /\ Len(Puts(u)) = Len(u.rows)
  BY <1>2, <1>3 DEF Puts
<1>5. FoldLeft(Acquired, slots, Puts(u)) \in SlotsRecord
  <2>1. PICK puts \in Seq(PutRecord) : puts = Puts(u)
    BY <1>4
  <2>2. PICK a \in [0 .. Len(puts) -> SlotsRecord] :
            FoldLeft(Acquired, slots, puts) = a[Len(puts)]
    BY <1>1, AcquiredInOrder
  <2>3. Len(puts) \in 0 .. Len(puts)
    BY <2>1
  <2>. QED BY <2>1, <2>2, <2>3
<1>. QED BY <1>4, <1>5

LEMMA ReleasedType ==
    ASSUME NEW s \in SlotsRecord, NEW put, s.active > 0
    PROVE  Released(s, put) \in SlotsRecord
<1>1. CASE s.waiting = <<>>
  <2>1. s.active - 1 \in Nat /\ s.holding \ {put} \in SUBSET PutRecord
    BY DEF SlotsRecord
  <2>. QED BY <1>1, <2>1 DEF Released, SlotsRecord
<1>2. CASE s.waiting # <<>>
  <2>1. Head(s.waiting) \in PutRecord /\ Tail(s.waiting) \in Seq(PutRecord)
    BY <1>2 DEF SlotsRecord
  <2>2. (s.holding \ {put}) \cup {Head(s.waiting)} \in SUBSET PutRecord
    BY <2>1 DEF SlotsRecord
  <2>. QED BY <1>2, <2>1, <2>2 DEF Released, SlotsRecord
<1>. QED BY <1>1, <1>2

\* What is kept after a refusal is still a task.
LEMMA KeptTask ==
    ASSUME NEW u \in UploadRecord, u.rows = u.files, NEW v,
           v = [u EXCEPT !.pc = "again", !.rows = At(u.rows, Kept(u)),
                         !.files = KeptFiles(u)]
    PROVE  v \in UploadRecord /\ v.rows = v.files /\ v.id = u.id /\ v.pc = "again"
<1>1. PICK ps : ps = Kept(u)
  OBVIOUS
<1>2. u.rows \in Seq(Artifacts) /\ ps \in Seq(DOMAIN u.rows)
  BY <1>1, KeptPositions DEF UploadRecord
<1>3. At(u.rows, ps) \in Seq(Artifacts)
  <2>1. Len(ps) \in Nat /\ DOMAIN ps = 1 .. Len(ps)
        /\ \A k \in DOMAIN ps : ps[k] \in DOMAIN u.rows
    BY <1>2
  <2>2. \A i \in DOMAIN u.rows : u.rows[i] \in Artifacts
    BY <1>2
  <2>3. \A k \in 1 .. Len(ps) : u.rows[ps[k]] \in Artifacts
    BY <2>1, <2>2
  <2>. QED BY <2>1, <2>3 DEF At
<1>4. v = [u EXCEPT !.pc = "again", !.rows = At(u.rows, ps), !.files = At(u.rows, ps)]
  BY <1>1 DEF KeptFiles
<1>. QED BY <1>3, <1>4 DEF UploadRecord

LEMMA TypesStart == StreamInit => StreamTypes
<1>. SUFFICES ASSUME StreamInit PROVE StreamTypes
  OBVIOUS
<1>. USE DEF StreamInit
<1>1. batcher \in BatcherRecord
  BY DEF BatcherRecord
<1>2. slots \in SlotsRecord
  BY DEF SlotsRecord
<1>3. end \in EndRecord
  BY DEF EndRecord, TaskRecord, NoTasks, Stages
<1>. QED BY <1>1, <1>2, <1>3 DEF StreamTypes

LEMMA TypesHold ==
    ASSUME StreamTypes, ListsParallel, SemaphoreFits, StreamNext
    PROVE  StreamTypes'
<1>. USE DEF suiteVars, artifactVars, statusVars
<1>1. ASSUME NEW t \in Tests, NEW done \in BOOLEAN, onTestEnd(t, done)
      PROVE  StreamTypes'
  <2>1. attempts' \in [Tests -> Nat]
    BY <1>1 DEF StreamTypes, onTestEnd
  <2>2. NextEntry(t) \in Entries
    BY DEF StreamTypes, NextEntry, Entries
  <2>3. pending' \in SUBSET Tests /\ enqueuing' \in SUBSET Entries
        /\ ended' \in SUBSET Entries
    BY <1>1, <2>2 DEF StreamTypes, onTestEnd
  <2>. QED BY <1>1, <2>1, <2>3 DEF StreamTypes, onTestEnd
<1>2. ASSUME NEW e \in enqueuing, enqueueDone(e) PROVE StreamTypes'
  <2>1. batcher' \in BatcherRecord
    BY <1>2, EnqueuedType DEF StreamTypes, enqueueDone
  <2>2. tally' \in [streamed : Nat, failed : Nat]
    BY <1>2 DEF StreamTypes, enqueueDone
  <2>. QED BY <1>2, <2>1, <2>2 DEF StreamTypes, enqueueDone
<1>3. ASSUME flushTimer PROVE StreamTypes'
  <2>1. batcher' \in BatcherRecord
    BY <1>3, TriggeredType DEF StreamTypes, flushTimer
  <2>. QED BY <1>3, <2>1 DEF StreamTypes, flushTimer
<1>4. ASSUME openSettles PROVE StreamTypes'
  BY <1>4 DEF StreamTypes, openSettles
<1>5. ASSUME NEW why, tally' = Dropped(why), Flushing PROVE tally' \in [streamed : Nat, failed : Nat]
  <2>1. tally.failed + Len(Batch) \in Nat
    BY <1>5, BatchType DEF StreamTypes
  <2>. QED BY <1>5, <2>1 DEF StreamTypes, Dropped
<1>6. ASSUME flushDropped PROVE StreamTypes'
  <2>1. batcher' \in BatcherRecord /\ end' \in EndRecord
    BY <1>6, SettledType DEF flushDropped
  <2>2. tally' \in [streamed : Nat, failed : Nat]
    BY <1>5, <1>6 DEF flushDropped
  <2>. QED BY <1>6, <2>1, <2>2 DEF StreamTypes, flushDropped
<1>7. ASSUME resultsAccepted PROVE StreamTypes'
  <2>1. Flushing
    BY <1>7 DEF resultsAccepted, Posting
  <2>2. batcher' \in BatcherRecord /\ end' \in EndRecord
    BY <1>7, <2>1, SettledType DEF resultsAccepted
  <2>3. tally' \in [streamed : Nat, failed : Nat]
    <3>1. tally.streamed + Len(Batch) \in Nat
      BY <2>1, BatchType DEF StreamTypes
    <3>. QED BY <1>7, <3>1 DEF StreamTypes, resultsAccepted
  <2>4. uploads' \in SUBSET UploadRecord
    <3>1. PICK mapped :
              LET files == correlateUploads(Batch, mapped) IN
              uploads' = IF files = <<>> THEN uploads
                         ELSE uploads \cup {[id |-> Batch[1], pc |-> "register",
                                             rows |-> files, files |-> files]}
      BY <1>7 DEF resultsAccepted
    <3>2. PICK files : files = correlateUploads(Batch, mapped)
      OBVIOUS
    <3>3. files \in Seq(Artifacts) /\ Batch[1] \in Entries
      BY <2>1, <3>2, BatchType, CorrelatedFiles
    <3>4. [id |-> Batch[1], pc |-> "register", rows |-> files, files |-> files]
             \in UploadRecord
      BY <3>3 DEF UploadRecord
    <3>. QED BY <3>1, <3>2, <3>4 DEF StreamTypes
  <2>. QED BY <1>7, <2>2, <2>3, <2>4 DEF StreamTypes, resultsAccepted
<1>8. ASSUME resultsLost PROVE StreamTypes'
  <2>1. Flushing
    BY <1>8 DEF resultsLost, Posting
  <2>2. CASE batcher.tries < MaxRetries
    <3>1. batcher' \in BatcherRecord
      <4>1. batcher' = [batcher EXCEPT !.tries = batcher.tries + 1]
        BY <1>8, <2>2 DEF resultsLost
      <4>2. batcher \in BatcherRecord /\ batcher.tries + 1 \in Nat
        BY DEF StreamTypes, BatcherRecord
      <4>. QED BY <4>1, <4>2 DEF BatcherRecord
    <3>. QED BY <1>8, <2>2, <3>1 DEF StreamTypes, resultsLost
  <2>3. CASE ~(batcher.tries < MaxRetries)
    <3>1. BatchSettled /\ tally' = Dropped("lost")
      BY <1>8, <2>3 DEF resultsLost
    <3>2. batcher' \in BatcherRecord /\ end' \in EndRecord
      BY <2>1, <3>1, SettledType
    <3>3. tally' \in [streamed : Nat, failed : Nat]
      BY <1>5, <2>1, <3>1
    <3>. QED BY <1>8, <3>2, <3>3 DEF StreamTypes, resultsLost
  <2>. QED BY <2>2, <2>3
<1>9. ASSUME NEW why, resultsRejected(why) PROVE StreamTypes'
  <2>1. Flushing /\ BatchSettled /\ tally' = Dropped(why)
    BY <1>9 DEF resultsRejected, Posting
  <2>2. batcher' \in BatcherRecord /\ end' \in EndRecord
    BY <2>1, SettledType
  <2>3. tally' \in [streamed : Nat, failed : Nat]
    BY <1>5, <2>1
  <2>4. disabled' \in BOOLEAN
    BY <1>9 DEF StreamTypes, resultsRejected
  <2>. QED BY <1>9, <2>2, <2>3, <2>4 DEF StreamTypes, resultsRejected
<1>10. ASSUME NEW u \in uploads, registered(u) PROVE StreamTypes'
  <2>1. u \in UploadRecord /\ u.rows = u.files
    BY DEF StreamTypes, ListsParallel
  <2>2. slots' \in SlotsRecord
    BY <1>10, <2>1, SlotsType DEF registered
  <2>3. [u EXCEPT !.pc = "put"] \in UploadRecord
    BY <2>1 DEF UploadRecord
  <2>. QED BY <1>10, <2>2, <2>3 DEF StreamTypes, registered
<1>11. ASSUME NEW u \in uploads, registerTooLarge(u) PROVE StreamTypes'
  <2>1. u \in UploadRecord /\ u.rows = u.files
    BY DEF StreamTypes, ListsParallel
  <2>2. PICK v : v = [u EXCEPT !.pc = "again", !.rows = At(u.rows, Kept(u)),
                               !.files = KeptFiles(u)]
    OBVIOUS
  <2>3. v \in UploadRecord
    BY <2>1, <2>2, KeptTask
  <2>4. uploads' = (uploads \ {u}) \cup (IF Kept(u) = <<>> THEN {} ELSE {v})
    BY <1>11, <2>2 DEF registerTooLarge
  <2>. QED BY <1>11, <2>3, <2>4 DEF StreamTypes, registerTooLarge
<1>12. ASSUME NEW u \in uploads, registerFails(u) PROVE StreamTypes'
  BY <1>12 DEF StreamTypes, registerFails
<1>13. ASSUME NEW put \in slots.holding, putEnds(put) PROVE StreamTypes'
  <2>1. slots \in SlotsRecord /\ IsFiniteSet(slots.holding)
    BY DEF StreamTypes, SemaphoreFits, SlotsFit
  <2>2. slots.active > 0
    <3>1. Cardinality(slots.holding) # 0
      BY <2>1, FS_EmptySet
    <3>. QED BY <2>1, <3>1, FS_CardinalityType DEF SemaphoreFits, SlotsFit
  <2>3. slots' \in SlotsRecord
    BY <1>13, <2>1, <2>2, ReleasedType DEF putEnds
  <2>4. uploads' \in SUBSET uploads
    BY <1>13 DEF putEnds
  <2>. QED BY <1>13, <2>3, <2>4 DEF StreamTypes, putEnds
<1>14. UploadIds \in SUBSET Entries
  BY DEF UploadIds, StreamTypes, UploadRecord
<1>15. ASSUME NEW enq \in SUBSET Entries PROVE ArtifactTasks(enq) \in TaskRecord
  BY <1>14 DEF ArtifactTasks, TaskRecord
<1>16. NoTasks \in TaskRecord
  BY DEF NoTasks, TaskRecord
<1>17. Open \in EndRecord /\ Abandon \in EndRecord
  <2>1. Open \in EndRecord
    BY <1>16 DEF Open, StreamTypes, EndRecord, Stages
  <2>. HIDE DEF Open
  <2>. QED BY <2>1 DEF Abandon, EndRecord
<1>18. ASSUME onEnd PROVE StreamTypes'
  <2>1. PICK enq : enq = enqueuing \cup {LastEntry(t) : t \in pending}
    OBVIOUS
  <2>2. enq \in SUBSET Entries
    BY <2>1 DEF StreamTypes, LastEntry, Entries
  <2>3. PICK tasks \in TaskRecord : tasks = ArtifactTasks(enq)
    BY <1>15, <2>2
  <2>4. end' \in EndRecord
    <3>1. end' = [end EXCEPT !.pc = "done"]
          \/ end' = [end EXCEPT !.pc = "enqueues", !.awaited = tasks]
      BY <1>18, <2>1, <2>3 DEF onEnd
    <3>. QED BY <3>1 DEF StreamTypes, EndRecord, Stages
  <2>5. pending' \in SUBSET Tests /\ enqueuing' \in SUBSET Entries
        /\ attempts' = attempts /\ ended' = ended
    BY <1>18, <2>1, <2>2 DEF onEnd, StreamTypes
  <2>. QED BY <1>18, <2>4, <2>5 DEF StreamTypes, onEnd
<1>19. ASSUME budgetPasses PROVE StreamTypes'
  BY <1>19 DEF StreamTypes, budgetPasses, EndRecord
<1>20. ASSUME startDrain PROVE StreamTypes'
  <2>1. Triggered(batcher) \in BatcherRecord
    BY TriggeredType DEF StreamTypes
  <2>2. Len(Triggered(batcher).chain) \in Nat
    BY <2>1 DEF BatcherRecord
  <2>3. end' \in EndRecord
    BY <1>16, <1>17, <1>20, <2>2 DEF startDrain, StreamTypes, EndRecord, Stages
  <2>. QED BY <1>20, <2>1, <2>3 DEF StreamTypes, startDrain
<1>21. ASSUME awaitDrain PROVE StreamTypes'
  <2>1. PICK tasks \in TaskRecord : tasks = ArtifactTasks(enqueuing)
    BY <1>15 DEF StreamTypes
  <2>2. end' \in EndRecord
    BY <1>17, <1>21, <2>1 DEF awaitDrain, StreamTypes, EndRecord, Stages
  <2>. QED BY <1>21, <2>2 DEF StreamTypes, awaitDrain
<1>22. ASSUME awaitUploads PROVE StreamTypes'
  BY <1>17, <1>22 DEF StreamTypes, awaitUploads
<1>23. ASSUME awaitOpen PROVE StreamTypes'
  BY <1>23 DEF StreamTypes, awaitOpen, EndRecord, Stages
<1>24. ASSUME completeRun PROVE StreamTypes'
  BY <1>24 DEF StreamTypes, completeRun, EndRecord, Stages
<1>25. ASSUME NEW kind, signalled(kind) PROVE StreamTypes'
  BY <1>25 DEF StreamTypes, signalled
<1>26. ASSUME signalHandled PROVE StreamTypes'
  BY <1>26 DEF StreamTypes, signalHandled
<1>. QED
  BY <1>1, <1>2, <1>3, <1>4, <1>6, <1>7, <1>8, <1>9, <1>10, <1>11, <1>12, <1>13,
     <1>18, <1>19, <1>20, <1>21, <1>22, <1>23, <1>24, <1>25, <1>26
     DEF StreamNext, reporter

-----------------------------------------------------------------------------
(* The stages of the end *)

LEMMA StagesStart == StreamInit => StagesFollow
BY DEF StreamInit, StagesFollow, EndAt

\* What is in progress after a step that settles the first batch.
LEMMA StagesAfterBatch ==
    ASSUME StreamTypes, StagesFollow, Flushing, BatchSettled,
           UNCHANGED suiteVars
    PROVE  /\ end'.pc = end.pc /\ end'.awaited = end.awaited
           /\ end'.abandoned = end.abandoned
           /\ batcher'.queue = batcher.queue
           /\ EndAt("drain") => end'.left = Len(batcher'.chain)
           /\ ~EndAt("uploads")
           /\ ~(end.pc \in {"open", "complete"} /\ ~end.abandoned)
<1>1. batcher \in BatcherRecord /\ end \in EndRecord
  BY DEF StreamTypes
<1>2. end'.pc = end.pc /\ end'.awaited = end.awaited
      /\ end'.abandoned = end.abandoned /\ batcher'.queue = batcher.queue
      /\ batcher'.chain = Tail(batcher.chain)
      /\ end'.left = IF end.left > 0 THEN end.left - 1 ELSE 0
  BY <1>1 DEF BatchSettled, BatcherRecord, EndRecord
<1>3. batcher.chain \in Seq(Batches) /\ batcher.chain # <<>>
  BY <1>1 DEF Flushing, BatcherRecord
<1>4. Len(Tail(batcher.chain)) = Len(batcher.chain) - 1 /\ Len(batcher.chain) > 0
  BY <1>3
<1>5. EndAt("drain") => end'.left = Len(batcher'.chain)
  BY <1>2, <1>4 DEF StagesFollow
<1>. QED BY <1>2, <1>3, <1>5 DEF StagesFollow, EndAt

LEMMA StagesHold ==
    ASSUME StreamTypes, StagesFollow, StreamNext
    PROVE  StagesFollow'
<1>. USE DEF suiteVars, artifactVars, statusVars
<1>0. batcher \in BatcherRecord /\ end \in EndRecord
  BY DEF StreamTypes
<1>1. ASSUME NEW t \in Tests, NEW done \in BOOLEAN, onTestEnd(t, done)
      PROVE  StagesFollow'
  BY <1>1 DEF StagesFollow, onTestEnd, EndAt
<1>2. ASSUME NEW e \in enqueuing, enqueueDone(e) PROVE StagesFollow'
  <2>1. enqueuing' = enqueuing \ {e} /\ end' = end
        /\ pending' = pending /\ uploads' = uploads
    BY <1>2 DEF enqueueDone
  <2>. QED BY <2>1 DEF StagesFollow, EndAt, UploadIds
<1>3. ASSUME flushTimer PROVE StagesFollow'
  <2>1. batcher' = Triggered(batcher) /\ end' = end /\ enqueuing' = enqueuing
        /\ pending' = pending /\ uploads' = uploads
    BY <1>3 DEF flushTimer
  <2>2. batcher.queue = <<>> => batcher'.queue = <<>> /\ batcher'.chain = batcher.chain
    BY <1>0, <2>1 DEF Triggered, BatcherRecord
  <2>. QED BY <2>1, <2>2 DEF StagesFollow, EndAt, UploadIds
<1>4. ASSUME UNCHANGED <<pending, enqueuing, batcher, end>>, uploads' \subseteq uploads
      PROVE  StagesFollow'
  BY <1>4 DEF StagesFollow, EndAt, UploadIds
<1>5. ASSUME Flushing, BatchSettled, UNCHANGED suiteVars PROVE StagesFollow'
  <2>1. end'.pc = end.pc /\ end'.abandoned = end.abandoned
        /\ batcher'.queue = batcher.queue /\ end'.awaited = end.awaited
    BY <1>5, StagesAfterBatch
  <2>2. EndAt("drain") => end'.left = Len(batcher'.chain)
    BY <1>5, StagesAfterBatch
  <2>3. ~EndAt("uploads") /\ ~(end.pc \in {"open", "complete"} /\ ~end.abandoned)
    BY <1>5, StagesAfterBatch
  <2>. QED BY <1>5, <2>1, <2>2, <2>3 DEF StagesFollow, EndAt
<1>6. ASSUME flushDropped PROVE StagesFollow'
  BY <1>5, <1>6 DEF flushDropped
<1>7. ASSUME resultsAccepted PROVE StagesFollow'
  BY <1>5, <1>7 DEF resultsAccepted, Posting
<1>8. ASSUME resultsLost PROVE StagesFollow'
  <2>1. CASE batcher.tries < MaxRetries
    <3>1. batcher' = [batcher EXCEPT !.tries = batcher.tries + 1] /\ end' = end
          /\ UNCHANGED <<pending, enqueuing, uploads>>
      BY <1>8, <2>1 DEF resultsLost
    <3>2. batcher'.queue = batcher.queue /\ batcher'.chain = batcher.chain
      BY <1>0, <3>1 DEF BatcherRecord
    <3>. QED BY <3>1, <3>2 DEF StagesFollow, EndAt, UploadIds
  <2>2. CASE ~(batcher.tries < MaxRetries)
    <3>1. BatchSettled /\ UNCHANGED suiteVars /\ Flushing
      BY <1>8, <2>2 DEF resultsLost, Posting
    <3>. QED BY <1>5, <3>1
  <2>. QED BY <2>1, <2>2
<1>9. ASSUME NEW why, resultsRejected(why) PROVE StagesFollow'
  BY <1>5, <1>9 DEF resultsRejected, Posting
<1>10. ASSUME NEW u \in uploads, NEW v, v.id = u.id,
              UNCHANGED <<pending, enqueuing, batcher, end>>,
              uploads' = (uploads \ {u}) \cup {v}
       PROVE  StagesFollow'
  <2>1. UploadIds' = UploadIds
    BY <1>10 DEF UploadIds
  <2>2. uploads # {}
    OBVIOUS
  <2>. QED BY <1>10, <2>1, <2>2 DEF StagesFollow, EndAt
<1>11. ASSUME NEW u \in uploads, registered(u) PROVE StagesFollow'
  <2>1. [u EXCEPT !.pc = "put"].id = u.id
    BY DEF StreamTypes, UploadRecord
  <2>. QED BY <1>10, <1>11, <2>1 DEF registered
<1>12. ASSUME NEW u \in uploads, registerTooLarge(u) PROVE StagesFollow'
  <2>1. PICK v : v = [u EXCEPT !.pc = "again", !.rows = At(u.rows, Kept(u)),
                               !.files = KeptFiles(u)]
    OBVIOUS
  <2>2. v.id = u.id
    BY <2>1 DEF StreamTypes, UploadRecord
  <2>3. uploads' = (uploads \ {u}) \cup (IF Kept(u) = <<>> THEN {} ELSE {v})
    BY <1>12, <2>1 DEF registerTooLarge
  <2>4. CASE Kept(u) = <<>>
    BY <1>4, <1>12, <2>3, <2>4 DEF registerTooLarge
  <2>5. CASE Kept(u) # <<>>
    BY <1>10, <1>12, <2>2, <2>3, <2>5 DEF registerTooLarge
  <2>. QED BY <2>4, <2>5
<1>13. ASSUME NEW u \in uploads, registerFails(u) PROVE StagesFollow'
  BY <1>4, <1>13 DEF registerFails
<1>14. ASSUME NEW put \in slots.holding, putEnds(put) PROVE StagesFollow'
  BY <1>4, <1>14 DEF putEnds
<1>15. ASSUME onEnd PROVE StagesFollow'
  <2>1. CASE signal # "none"
    <3>1. end'.pc = "done"
      BY <1>0, <1>15, <2>1 DEF onEnd, EndRecord
    <3>. QED BY <3>1 DEF StagesFollow, EndAt
  <2>2. CASE signal = "none"
    <3>1. PICK enq, tasks : /\ enq = enqueuing \cup {LastEntry(t) : t \in pending}
                            /\ tasks = ArtifactTasks(enq)
      OBVIOUS
    <3>2. end' = [end EXCEPT !.pc = "enqueues", !.awaited = tasks]
          /\ enqueuing' = enq /\ pending' = {}
      BY <1>15, <2>2, <3>1 DEF onEnd
    <3>3. end'.pc = "enqueues" /\ end'.awaited = tasks
      BY <1>0, <3>2 DEF EndRecord
    <3>4. tasks.enqueues = enq
      BY <3>1 DEF ArtifactTasks
    <3>. QED BY <3>2, <3>3, <3>4 DEF StagesFollow, EndAt
  <2>. QED BY <2>1, <2>2
<1>16. ASSUME budgetPasses PROVE StagesFollow'
  <2>1. end'.pc = end.pc /\ end'.awaited = end.awaited
        /\ end'.left = end.left /\ end'.abandoned = end.abandoned
    BY <1>0, <1>16 DEF budgetPasses, EndRecord
  <2>. QED BY <1>16, <2>1 DEF StagesFollow, EndAt, UploadIds, budgetPasses
<1>17. Open.pc = "open" /\ Abandon.pc = "open" /\ Abandon.abandoned = TRUE
  BY <1>0 DEF Abandon, Open, EndRecord
<1>18. ASSUME end' = Abandon, pending' = pending, end.pc \notin {"none", "done"}
       PROVE  StagesFollow'
  BY <1>17, <1>18 DEF StagesFollow, EndAt
<1>19. ASSUME startDrain PROVE StagesFollow'
  <2>1. CASE Settled(end.awaited)
    <3>1. PICK b : b = Triggered(batcher)
      OBVIOUS
    <3>2. end' = [end EXCEPT !.pc = "drain", !.awaited = NoTasks,
                             !.left = Len(b.chain)]
          /\ batcher' = b /\ EndAt("enqueues") /\ enqueuing' = enqueuing /\ pending' = pending
      BY <1>19, <2>1, <3>1 DEF startDrain
    <3>3. end'.pc = "drain" /\ end'.left = Len(b.chain)
      BY <1>0, <3>2 DEF EndRecord
    <3>4. b.queue = <<>>
      BY <1>0, <3>1 DEF Triggered, BatcherRecord
    <3>5. enqueuing = {}
      BY <2>1, <3>2 DEF StagesFollow, Settled
    <3>. QED BY <3>2, <3>3, <3>4, <3>5 DEF StagesFollow, EndAt
  <2>2. CASE ~Settled(end.awaited)
    <3>1. end' = Abandon /\ pending' = pending /\ EndAt("enqueues")
      BY <1>19, <2>2 DEF startDrain
    <3>. QED BY <1>18, <3>1 DEF EndAt
  <2>. QED BY <2>1, <2>2
<1>20. ASSUME awaitDrain PROVE StagesFollow'
  <2>1. CASE end.left = 0
    <3>1. PICK tasks : tasks = ArtifactTasks(enqueuing)
      OBVIOUS
    <3>2. end' = [end EXCEPT !.pc = "uploads", !.awaited = tasks] /\ EndAt("drain")
          /\ UNCHANGED <<pending, enqueuing, batcher, uploads>>
      BY <1>20, <2>1, <3>1 DEF awaitDrain
    <3>3. end'.pc = "uploads" /\ end'.awaited = tasks
      BY <1>0, <3>2 DEF EndRecord
    <3>4. tasks.uploads = UploadIds /\ UploadIds' = UploadIds
      BY <3>1, <3>2 DEF ArtifactTasks, UploadIds
    <3>5. Len(batcher.chain) = 0 /\ batcher.chain \in Seq(Batches)
      BY <1>0, <2>1, <3>2 DEF StagesFollow, BatcherRecord
    <3>6. batcher.chain = <<>>
      BY <3>5
    <3>. QED BY <3>2, <3>3, <3>4, <3>6 DEF StagesFollow, EndAt
  <2>2. CASE end.left # 0
    <3>1. end' = Abandon /\ pending' = pending /\ EndAt("drain")
      BY <1>20, <2>2 DEF awaitDrain
    <3>. QED BY <1>18, <3>1 DEF EndAt
  <2>. QED BY <2>1, <2>2
<1>21. ASSUME awaitUploads PROVE StagesFollow'
  <2>1. CASE Settled(end.awaited)
    <3>1. end' = Open /\ EndAt("uploads")
          /\ UNCHANGED <<pending, enqueuing, batcher, uploads>>
      BY <1>21, <2>1 DEF awaitUploads
    <3>2. end'.pc = "open"
      BY <1>17, <3>1
    <3>3. UploadIds = {}
      BY <2>1, <3>1 DEF StagesFollow, Settled
    <3>4. uploads = {}
      BY <3>3 DEF UploadIds
    <3>. QED BY <3>1, <3>2, <3>4 DEF StagesFollow, EndAt
  <2>2. CASE ~Settled(end.awaited)
    <3>1. end' = Abandon /\ pending' = pending /\ EndAt("uploads")
      BY <1>21, <2>2 DEF awaitUploads
    <3>. QED BY <1>18, <3>1 DEF EndAt
  <2>. QED BY <2>1, <2>2
<1>22. ASSUME awaitOpen PROVE StagesFollow'
  <2>1. end'.pc \in {"complete", "done"} /\ end'.abandoned = end.abandoned
        /\ end.pc = "open" /\ UNCHANGED <<pending, enqueuing, batcher, uploads>>
    BY <1>0, <1>22 DEF awaitOpen, EndRecord, EndAt
  <2>. QED BY <2>1 DEF StagesFollow, EndAt
<1>23. ASSUME completeRun PROVE StagesFollow'
  <2>1. end'.pc \in {"complete", "done"} /\ end'.abandoned = end.abandoned
        /\ end.pc = "complete" /\ UNCHANGED <<pending, enqueuing, batcher, uploads>>
    BY <1>0, <1>23 DEF completeRun, EndRecord, EndAt
  <2>. QED BY <2>1 DEF StagesFollow, EndAt
<1>24. ASSUME NEW kind, signalled(kind) PROVE StagesFollow'
  BY <1>4, <1>24 DEF signalled
<1>25. ASSUME signalHandled PROVE StagesFollow'
  BY <1>4, <1>25 DEF signalHandled
<1>. QED
  BY <1>1, <1>2, <1>3, <1>4, <1>6, <1>7, <1>8, <1>9, <1>11, <1>12, <1>13, <1>14,
     <1>15, <1>16, <1>19, <1>20, <1>21, <1>22, <1>23, <1>24, <1>25
     DEF StreamNext, reporter, openSettles

-----------------------------------------------------------------------------
(* Sequences as sets *)

LEMMA SetOfAppend ==
    ASSUME NEW X, NEW s \in Seq(X), NEW x \in X
    PROVE  /\ ToSet(Append(s, x)) = ToSet(s) \cup {x}
           /\ Distinct(s) /\ x \notin ToSet(s) => Distinct(Append(s, x))
<1>1. PICK n \in Nat : n = Len(s) /\ DOMAIN s = 1 .. n
  OBVIOUS
<1>2. PICK r \in Seq(X) : r = Append(s, x)
  <2>1. Append(s, x) \in Seq(X)
    OBVIOUS
  <2>. QED BY <2>1
<1>3. DOMAIN r = 1 .. (n + 1) /\ r[n + 1] = x /\ \A i \in 1 .. n : r[i] = s[i]
  BY <1>1, <1>2
<1>4. ToSet(r) = ToSet(s) \cup {x}
  <2>1. \A y \in ToSet(r) : y \in ToSet(s) \cup {x}
    BY <1>1, <1>3 DEF ToSet
  <2>2. \A y \in ToSet(s) : y \in ToSet(r)
    BY <1>1, <1>3 DEF ToSet
  <2>3. x \in ToSet(r)
    BY <1>1, <1>3 DEF ToSet
  <2>. QED BY <2>1, <2>2, <2>3
<1>5. ASSUME Distinct(s), x \notin ToSet(s) PROVE Distinct(r)
  <2>1. \A i \in 1 .. n : s[i] # x
    BY <1>1, <1>5 DEF ToSet
  <2>2. ASSUME NEW i \in DOMAIN r, NEW j \in DOMAIN r, r[i] = r[j] PROVE i = j
    <3>1. i \in 1 .. n \/ i = n + 1
      BY <1>1, <1>3
    <3>2. j \in 1 .. n \/ j = n + 1
      BY <1>1, <1>3
    <3>. QED BY <1>1, <1>3, <1>5, <2>1, <2>2, <3>1, <3>2 DEF Distinct
  <2>. QED BY <2>2 DEF Distinct
<1>. QED BY <1>2, <1>4, <1>5

LEMMA SetOfTail ==
    ASSUME NEW X, NEW s \in Seq(X), s # <<>>
    PROVE  /\ Head(s) \in X /\ Head(s) \in ToSet(s) /\ Tail(s) \in Seq(X)
           /\ ToSet(s) = ToSet(Tail(s)) \cup {Head(s)}
           /\ Distinct(s) => Distinct(Tail(s)) /\ Head(s) \notin ToSet(Tail(s))
<1>1. PICK n \in Nat : n = Len(s) /\ DOMAIN s = 1 .. n /\ n > 0
  OBVIOUS
<1>2. PICK r \in Seq(X) : r = Tail(s)
  <2>1. Tail(s) \in Seq(X)
    OBVIOUS
  <2>. QED BY <2>1
<1>3. DOMAIN r = 1 .. (n - 1) /\ \A i \in 1 .. (n - 1) : r[i] = s[i + 1]
  BY <1>1, <1>2
<1>4. Head(s) = s[1] /\ s[1] \in X
  BY <1>1
<1>5. ToSet(s) = ToSet(r) \cup {s[1]}
  <2>1. ASSUME NEW y \in ToSet(s) PROVE y \in ToSet(r) \cup {s[1]}
    <3>1. PICK i \in 1 .. n : y = s[i]
      BY <1>1 DEF ToSet
    <3>2. CASE i = 1
      BY <3>1, <3>2
    <3>3. CASE i # 1
      <4>1. i - 1 \in 1 .. (n - 1) /\ (i - 1) + 1 = i
        BY <1>1, <3>3
      <4>2. y = r[i - 1] /\ i - 1 \in DOMAIN r
        BY <1>3, <3>1, <4>1
      <4>. QED BY <4>2 DEF ToSet
    <3>. QED BY <3>2, <3>3
  <2>2. ASSUME NEW y \in ToSet(r) PROVE y \in ToSet(s)
    <3>1. PICK i \in 1 .. (n - 1) : y = s[i + 1]
      BY <1>3 DEF ToSet
    <3>2. i + 1 \in DOMAIN s
      BY <1>1
    <3>. QED BY <3>1, <3>2 DEF ToSet
  <2>3. s[1] \in ToSet(s)
    BY <1>1 DEF ToSet
  <2>. QED BY <2>1, <2>2, <2>3
<1>6. ASSUME Distinct(s) PROVE Distinct(r) /\ s[1] \notin ToSet(r)
  <2>1. \A i, j \in 1 .. n : s[i] = s[j] => i = j
    BY <1>1, <1>6 DEF Distinct
  <2>2. \A i \in 1 .. (n - 1) : i + 1 \in 1 .. n /\ i + 1 # 1
    BY <1>1
  <2>3. ASSUME NEW i \in 1 .. (n - 1), NEW j \in 1 .. (n - 1), r[i] = r[j]
        PROVE  i = j
    <3>1. s[i + 1] = s[j + 1]
      BY <1>3, <2>3
    <3>2. i + 1 = j + 1
      BY <2>1, <2>2, <3>1
    <3>. QED BY <3>2
  <2>4. \A i \in 1 .. (n - 1) : r[i] # s[1]
    BY <1>1, <1>3, <2>1, <2>2
  <2>. QED BY <1>3, <2>3, <2>4 DEF Distinct, ToSet
<1>. QED BY <1>2, <1>4, <1>5, <1>6

\* A sequence without repetition has as many elements as places.
LEMMA DistinctCount ==
    ASSUME NEW X, NEW s \in Seq(X), Distinct(s)
    PROVE  IsFiniteSet(ToSet(s)) /\ Cardinality(ToSet(s)) = Len(s)
<1>1. PICK n \in Nat : n = Len(s) /\ DOMAIN s = 1 .. n
  OBVIOUS
<1>2. IsFiniteSet(1 .. n) /\ Cardinality(1 .. n) = n
  <2>1. 1 \in Int /\ n \in Int /\ (1 > n => n = 0) /\ n - 1 + 1 = n
    BY <1>1
  <2>2. IsFiniteSet(1 .. n)
    BY <2>1, FS_Interval
  <2>3. Cardinality(1 .. n) = IF 1 > n THEN 0 ELSE n - 1 + 1
    BY <2>1, FS_Interval
  <2>. QED BY <2>1, <2>2, <2>3
<1>3. s \in Bijection(1 .. n, ToSet(s))
  <2>1. s \in [1 .. n -> ToSet(s)]
    BY <1>1 DEF ToSet
  <2>2. \A i, j \in 1 .. n : s[i] = s[j] => i = j
    BY <1>1 DEF Distinct
  <2>3. \A y \in ToSet(s) : \E i \in 1 .. n : s[i] = y
    BY <1>1 DEF ToSet
  <2>. QED BY <2>1, <2>2, <2>3 DEF Bijection, Injection, Surjection, IsInjective
<1>4. ExistsBijection(1 .. n, ToSet(s))
  BY <1>3 DEF ExistsBijection
<1>. QED BY <1>1, <1>2, <1>4, FS_Bijection

-----------------------------------------------------------------------------
(* The semaphore *)

LEMMA AcquiredOne ==
    ASSUME NEW s \in SlotsRecord, NEW put \in PutRecord
    PROVE  /\ PutsOf(Acquired(s, put)) = PutsOf(s) \cup {put}
           /\ SlotsFit(s) /\ put \notin PutsOf(s) => SlotsFit(Acquired(s, put))
<1>. DEFINE r == Acquired(s, put)
<1>0. s.active \in Nat /\ s.holding \in SUBSET PutRecord
      /\ s.waiting \in Seq(PutRecord) /\ Concurrency \in Nat
  BY StreamBounds DEF SlotsRecord
<1>1. ToSet(Append(s.waiting, put)) = ToSet(s.waiting) \cup {put}
  BY <1>0, SetOfAppend
<1>2. CASE s.active < Concurrency
  <2>1. r.active = s.active + 1 /\ r.holding = s.holding \cup {put}
        /\ r.waiting = s.waiting
    BY <1>2 DEF Acquired, SlotsRecord
  <2>. HIDE DEF r
  <2>2. PutsOf(r) = PutsOf(s) \cup {put}
    BY <2>1 DEF PutsOf
  <2>3. ASSUME SlotsFit(s), put \notin PutsOf(s) PROVE SlotsFit(r)
    <3>1. put \notin s.holding /\ put \notin ToSet(s.waiting)
      BY <2>3 DEF PutsOf
    <3>2. IsFiniteSet(r.holding) /\ Cardinality(r.holding) = Cardinality(s.holding) + 1
      <4>1. IsFiniteSet(s.holding) /\ put \notin s.holding
        BY <2>3, <3>1 DEF SlotsFit
      <4>. QED BY <2>1, <4>1, FS_AddElement
    <3>3. s.active = Cardinality(s.holding) /\ s.waiting = <<>>
      <4>1. s.active # Concurrency
        BY <1>0, <1>2
      <4>. QED BY <2>3, <4>1 DEF SlotsFit
    <3>4. r.active = Cardinality(r.holding)
      BY <2>1, <3>2, <3>3
    <3>5. r.active <= Concurrency
      BY <1>0, <1>2, <2>1
    <3>. QED BY <2>1, <2>3, <3>1, <3>2, <3>3, <3>4, <3>5 DEF SlotsFit
  <2>. QED BY <2>2, <2>3 DEF r
<1>3. CASE ~(s.active < Concurrency)
  <2>1. r.active = s.active /\ r.holding = s.holding
        /\ r.waiting = Append(s.waiting, put)
    BY <1>3 DEF Acquired, SlotsRecord
  <2>. HIDE DEF r
  <2>2. PutsOf(r) = PutsOf(s) \cup {put}
    BY <1>1, <2>1 DEF PutsOf
  <2>3. ASSUME SlotsFit(s), put \notin PutsOf(s) PROVE SlotsFit(r)
    <3>1. put \notin s.holding /\ put \notin ToSet(s.waiting)
      BY <2>3 DEF PutsOf
    <3>2. Distinct(r.waiting)
      BY <1>0, <2>1, <2>3, <3>1, SetOfAppend DEF SlotsFit
    <3>3. r.holding \cap ToSet(r.waiting) = {}
      BY <1>1, <2>1, <2>3, <3>1 DEF SlotsFit
    <3>4. r.active = Concurrency /\ r.active <= Concurrency
      BY <1>0, <1>3, <2>1, <2>3 DEF SlotsFit
    <3>. QED BY <2>1, <2>3, <3>2, <3>3, <3>4 DEF SlotsFit
  <2>. QED BY <2>2, <2>3 DEF r
<1>. QED BY <1>2, <1>3

LEMMA AcquiredAll ==
    ASSUME NEW s \in SlotsRecord, NEW puts \in Seq(PutRecord), SlotsFit(s),
           Distinct(puts), ToSet(puts) \cap PutsOf(s) = {}
    PROVE  /\ SlotsFit(FoldLeft(Acquired, s, puts))
           /\ PutsOf(FoldLeft(Acquired, s, puts)) = PutsOf(s) \cup ToSet(puts)
<1>1. PICK n \in Nat : n = Len(puts) /\ DOMAIN puts = 1 .. n
  OBVIOUS
<1>2. PICK a \in [0 .. n -> SlotsRecord] :
          /\ a[0] = s
          /\ \A k \in 1 .. n : a[k] = Acquired(a[k - 1], puts[k])
          /\ FoldLeft(Acquired, s, puts) = a[n]
  <2>1. \E a \in [0 .. Len(puts) -> SlotsRecord] :
            /\ a[0] = s
            /\ \A k \in 1 .. Len(puts) : a[k] = Acquired(a[k - 1], puts[k])
            /\ FoldLeft(Acquired, s, puts) = a[Len(puts)]
    BY AcquiredInOrder
  <2>2. n = Len(puts)
    BY <1>1
  <2>. QED BY ONLY <2>1, <2>2
<1>. DEFINE Taken(k) == {puts[i] : i \in 1 .. k}
            B == {k \in 0 .. n : SlotsFit(a[k]) /\ PutsOf(a[k]) = PutsOf(s) \cup Taken(k)}
<1>3. 0 \in B
  <2>1. Taken(0) = {} /\ 0 \in 0 .. n
    BY <1>1
  <2>. QED BY <1>2, <2>1
<1>4. ASSUME NEW k \in 1 .. n, k - 1 \in B PROVE k \in B
  <2>1. k \in 0 .. n /\ k - 1 \in 0 .. n /\ (1 .. k) = (1 .. (k - 1)) \cup {k}
    BY <1>1
  <2>2. SlotsFit(a[k - 1]) /\ PutsOf(a[k - 1]) = PutsOf(s) \cup Taken(k - 1)
    BY <1>4
  <2>3. a[k - 1] \in SlotsRecord /\ puts[k] \in PutRecord /\ k \in DOMAIN puts
    BY <1>1, <1>2, <2>1
  <2>4. puts[k] \notin Taken(k - 1)
    <3>1. ASSUME NEW i \in 1 .. (k - 1), puts[i] = puts[k] PROVE FALSE
      <4>1. i \in DOMAIN puts /\ i # k
        BY <1>1, <2>1
      <4>. QED BY <2>3, <3>1, <4>1 DEF Distinct
    <3>. QED BY <3>1
  <2>5. puts[k] \notin PutsOf(s)
    BY <2>3 DEF ToSet
  <2>6. Taken(k) = Taken(k - 1) \cup {puts[k]}
    BY <2>1
  <2>. HIDE DEF Taken
  <2>7. a[k] = Acquired(a[k - 1], puts[k])
    BY <1>2
  <2>8. SlotsFit(a[k]) /\ PutsOf(a[k]) = PutsOf(a[k - 1]) \cup {puts[k]}
    BY <2>2, <2>3, <2>4, <2>5, <2>7, AcquiredOne
  <2>. QED BY <2>1, <2>2, <2>6, <2>8
<1>5. n \in B
  <2>1. B \in SUBSET (0 .. n) /\ n \in 0 .. n
    BY <1>1
  <2>. HIDE DEF B
  <2>. QED BY <1>1, <1>3, <1>4, <2>1, Climb
<1>6. Taken(n) = ToSet(puts)
  BY <1>1 DEF ToSet
<1>. QED BY <1>2, <1>5, <1>6

LEMMA ReleasedFits ==
    ASSUME NEW s \in SlotsRecord, SlotsFit(s), NEW put \in s.holding
    PROVE  SlotsFit(Released(s, put)) /\ PutsOf(Released(s, put)) = PutsOf(s) \ {put}
<1>. DEFINE r == Released(s, put)
<1>0. s.active \in Nat /\ s.holding \in SUBSET PutRecord
      /\ s.waiting \in Seq(PutRecord) /\ Concurrency \in Nat
  BY StreamBounds DEF SlotsRecord
<1>1. IsFiniteSet(s.holding \ {put})
      /\ Cardinality(s.holding \ {put}) = Cardinality(s.holding) - 1
      /\ Cardinality(s.holding) \in Nat
  BY FS_RemoveElement, FS_CardinalityType DEF SlotsFit
<1>2. CASE s.waiting = <<>>
  <2>1. r.active = s.active - 1 /\ r.holding = s.holding \ {put}
        /\ r.waiting = s.waiting
    BY <1>2 DEF Released, SlotsRecord
  <2>2. ToSet(s.waiting) = {}
    BY <1>2 DEF ToSet
  <2>. HIDE DEF r
  <2>3. PutsOf(r) = PutsOf(s) \ {put}
    BY <2>1, <2>2 DEF PutsOf
  <2>4. r.active = Cardinality(r.holding) /\ r.active <= Concurrency
    BY <1>0, <1>1, <2>1 DEF SlotsFit
  <2>5. SlotsFit(r)
    BY <1>1, <1>2, <2>1, <2>2, <2>4 DEF SlotsFit
  <2>. QED BY <2>3, <2>5 DEF r
<1>3. CASE s.waiting # <<>>
  <2>1. PICK h, w : h = Head(s.waiting) /\ w = Tail(s.waiting)
    OBVIOUS
  <2>2. r.active = s.active /\ r.holding = (s.holding \ {put}) \cup {h}
        /\ r.waiting = w
    BY <1>3, <2>1 DEF Released, SlotsRecord
  <2>3. ToSet(s.waiting) = ToSet(w) \cup {h} /\ Distinct(w) /\ h \notin ToSet(w)
    BY <1>0, <1>3, <2>1, SetOfTail DEF SlotsFit
  <2>4. h \notin s.holding /\ s.holding \cap ToSet(w) = {} /\ put \notin ToSet(s.waiting)
    BY <2>3 DEF SlotsFit
  <2>. HIDE DEF r
  <2>5. PutsOf(r) = PutsOf(s) \ {put}
    BY <2>2, <2>3, <2>4 DEF PutsOf
  <2>6. IsFiniteSet(r.holding)
        /\ Cardinality(r.holding) = Cardinality(s.holding \ {put}) + 1
    BY <1>1, <2>2, <2>4, FS_AddElement
  <2>7. r.active = Cardinality(r.holding) /\ r.active = Concurrency
        /\ r.active <= Concurrency
    BY <1>0, <1>1, <1>3, <2>2, <2>6 DEF SlotsFit
  <2>8. r.holding \cap ToSet(r.waiting) = {}
    BY <2>2, <2>3, <2>4
  <2>. QED BY <2>2, <2>3, <2>5, <2>6, <2>7, <2>8 DEF SlotsFit, r
<1>. QED BY <1>2, <1>3

\* The PUTs of a task are told apart by their position.
LEMMA PutsApart ==
    ASSUME StreamTypes, NEW u \in uploads, u.rows = u.files
    PROVE  /\ Distinct(Puts(u))
           /\ \A p \in ToSet(Puts(u)) : p.task = u.id /\ p.row = p.file
<1>1. DOMAIN Puts(u) = DOMAIN u.rows
      /\ \A i \in DOMAIN u.rows : Puts(u)[i] = Put(u, i)
  BY DEF Puts
<1>2. \A i \in DOMAIN u.rows : Put(u, i).pos = i /\ Put(u, i).task = u.id
                               /\ Put(u, i).row = Put(u, i).file
  BY u.rows = u.files DEF Put
<1>3. \A i, j \in DOMAIN u.rows : Puts(u)[i] = Puts(u)[j] => i = j
  BY <1>1, <1>2
<1>4. Distinct(Puts(u))
  BY <1>1, <1>3 DEF Distinct
<1>5. \A p \in ToSet(Puts(u)) : p.task = u.id /\ p.row = p.file
  BY <1>1, <1>2 DEF ToSet
<1>. QED BY <1>4, <1>5

\* When a task is registered, its PUTs join those of the others.
LEMMA RegisteredPuts ==
    ASSUME StreamTypes, ListsParallel, TasksTellApart, SemaphoreFits, PutsHaveTasks,
           NEW u \in uploads, registered(u)
    PROVE  /\ SlotsFit(slots') /\ PutsOf(slots') = PutsOf(slots) \cup ToSet(Puts(u))
           /\ \A p \in ToSet(Puts(u)) : p.task = u.id /\ p.row = p.file
<1>1. u.rows = u.files /\ slots \in SlotsRecord
  BY DEF ListsParallel, StreamTypes
<1>2. PICK puts \in Seq(PutRecord) : puts = Puts(u)
  BY <1>1, SlotsType
<1>3. Distinct(puts) /\ \A p \in ToSet(puts) : p.task = u.id /\ p.row = p.file
  BY <1>1, <1>2, PutsApart
<1>4. ASSUME NEW p \in ToSet(puts), p \in PutsOf(slots) PROVE FALSE
  <2>1. PICK v \in uploads : v.id = p.task /\ v.pc = "put"
    BY <1>4 DEF PutsHaveTasks
  <2>2. v = u
    BY <1>3, <2>1 DEF TasksTellApart
  <2>. QED BY <2>1, <2>2 DEF registered
<1>5. ToSet(puts) \cap PutsOf(slots) = {}
  BY <1>4
<1>6. slots' = FoldLeft(Acquired, slots, puts)
  BY <1>2 DEF registered
<1>7. /\ SlotsFit(FoldLeft(Acquired, slots, puts))
      /\ PutsOf(FoldLeft(Acquired, slots, puts)) = PutsOf(slots) \cup ToSet(puts)
  <2>1. SlotsFit(slots)
    BY DEF SemaphoreFits
  <2>. QED BY <1>1, <1>3, <1>5, <2>1, AcquiredAll
<1>. QED BY <1>2, <1>3, <1>6, <1>7

LEMMA PutsStart == StreamInit => SemaphoreFits /\ PutsHaveTasks /\ ListsParallel
<1>. SUFFICES ASSUME StreamInit PROVE SemaphoreFits /\ PutsHaveTasks /\ ListsParallel
  OBVIOUS
<1>1. slots.holding = {} /\ slots.waiting = <<>> /\ slots.active = 0 /\ uploads = {}
  BY DEF StreamInit
<1>2. ToSet(slots.waiting) = {}
  BY <1>1 DEF ToSet
<1>3. Concurrency \in Nat
  BY StreamBounds
<1>4. SemaphoreFits
  BY <1>1, <1>2, <1>3, FS_EmptySet DEF SemaphoreFits, SlotsFit, Distinct
<1>. QED BY <1>1, <1>2, <1>4 DEF PutsHaveTasks, PutsOf, ListsParallel, FilesToOwnRows

LEMMA PutsHold ==
    ASSUME StreamTypes, ListsParallel, TasksTellApart, SemaphoreFits, PutsHaveTasks,
           StreamNext
    PROVE  (SemaphoreFits /\ PutsHaveTasks /\ ListsParallel)'
<1>. DEFINE Inv == SemaphoreFits /\ PutsHaveTasks /\ ListsParallel
<1>. USE DEF suiteVars, artifactVars, statusVars
<1>0. ListsParallel <=> /\ \A v \in uploads : v.rows = v.files
                        /\ \A p \in PutsOf(slots) : p.row = p.file
  BY DEF ListsParallel, FilesToOwnRows, PutsOf
<1>1. ASSUME UNCHANGED artifactVars PROVE Inv'
  BY <1>1 DEF SemaphoreFits, PutsHaveTasks, ListsParallel, FilesToOwnRows, PutsOf
<1>2. ASSUME slots' = slots,
             \A v \in uploads : v.pc = "put" => v \in uploads',
             \A v \in uploads' : v.rows = v.files
      PROVE  Inv'
  <2>1. SemaphoreFits'
    BY <1>2 DEF SemaphoreFits
  <2>2. PutsHaveTasks'
    <3>1. ASSUME NEW p \in PutsOf(slots)
          PROVE  \E v \in uploads' : v.id = p.task /\ v.pc = "put"
      BY <1>2 DEF PutsHaveTasks
    <3>. QED BY <1>2, <3>1 DEF PutsHaveTasks
  <2>3. ListsParallel'
    BY <1>2 DEF ListsParallel, FilesToOwnRows
  <2>. QED BY <2>1, <2>2, <2>3
<1>3. ASSUME resultsAccepted PROVE Inv'
  <2>1. PICK mapped :
            LET files == correlateUploads(Batch, mapped) IN
            uploads' = IF files = <<>> THEN uploads
                       ELSE uploads \cup {[id |-> Batch[1], pc |-> "register",
                                           rows |-> files, files |-> files]}
    BY <1>3 DEF resultsAccepted
  <2>2. uploads \subseteq uploads' /\ \A v \in uploads' : v \in uploads \/ v.rows = v.files
    BY <2>1
  <2>. QED BY <1>2, <1>3, <2>2 DEF resultsAccepted, ListsParallel
<1>4. ASSUME NEW u \in uploads, registered(u) PROVE Inv'
  <2>1. SlotsFit(slots') /\ PutsOf(slots') = PutsOf(slots) \cup ToSet(Puts(u))
        /\ \A p \in ToSet(Puts(u)) : p.task = u.id /\ p.row = p.file
    BY <1>4, RegisteredPuts
  <2>2. PICK v : v = [u EXCEPT !.pc = "put"]
    OBVIOUS
  <2>3. v.id = u.id /\ v.pc = "put" /\ v.rows = v.files
    BY <2>2 DEF StreamTypes, UploadRecord, ListsParallel
  <2>4. uploads' = (uploads \ {u}) \cup {v} /\ u.pc # "put"
    BY <1>4, <2>2 DEF registered
  <2>5. \A p \in PutsOf(slots') : \E w \in uploads' : w.id = p.task /\ w.pc = "put"
    <3>1. ASSUME NEW p \in PutsOf(slots)
          PROVE  \E w \in uploads' : w.id = p.task /\ w.pc = "put"
      BY <2>4 DEF PutsHaveTasks
    <3>2. ASSUME NEW p \in ToSet(Puts(u))
          PROVE  \E w \in uploads' : w.id = p.task /\ w.pc = "put"
      BY <2>1, <2>3, <2>4
    <3>. QED BY <2>1, <3>1, <3>2
  <2>6. /\ \A w \in uploads' : w.rows = w.files
        /\ \A p \in PutsOf(slots') : p.row = p.file
    BY <1>0, <2>1, <2>3, <2>4
  <2>. QED BY <2>1, <2>5, <2>6 DEF SemaphoreFits, PutsHaveTasks, ListsParallel,
                                   FilesToOwnRows, PutsOf
<1>5. ASSUME NEW u \in uploads, registerTooLarge(u) PROVE Inv'
  <2>1. PICK v : v = [u EXCEPT !.pc = "again", !.rows = At(u.rows, Kept(u)),
                               !.files = KeptFiles(u)]
    OBVIOUS
  <2>2. u \in UploadRecord /\ u.rows = u.files
    BY DEF StreamTypes, ListsParallel
  <2>3. v.rows = v.files
    BY <2>1, <2>2, KeptTask
  <2>4. uploads' = (uploads \ {u}) \cup (IF Kept(u) = <<>> THEN {} ELSE {v})
        /\ u.pc # "put" /\ slots' = slots
    BY <1>5, <2>1 DEF registerTooLarge
  <2>. QED BY <1>2, <2>3, <2>4 DEF ListsParallel
<1>6. ASSUME NEW u \in uploads, registerFails(u) PROVE Inv'
  <2>1. uploads' = uploads \ {u} /\ u.pc # "put" /\ slots' = slots
    BY <1>6 DEF registerFails
  <2>. QED BY <1>2, <2>1 DEF ListsParallel
<1>7. ASSUME NEW put \in slots.holding, putEnds(put) PROVE Inv'
  <2>1. SlotsFit(slots') /\ PutsOf(slots') = PutsOf(slots) \ {put}
    BY <1>7, ReleasedFits DEF putEnds, SemaphoreFits, StreamTypes
  <2>2. uploads' = {u \in uploads : u.id # put.task
                                    \/ \E p \in PutsOf(slots') : p.task = u.id}
    BY <1>7 DEF putEnds, PutsOf
  <2>3. \A p \in PutsOf(slots') : \E w \in uploads' : w.id = p.task /\ w.pc = "put"
    BY <2>1, <2>2 DEF PutsHaveTasks
  <2>4. /\ \A w \in uploads' : w.rows = w.files
        /\ \A p \in PutsOf(slots') : p.row = p.file
    BY <1>0, <2>1, <2>2
  <2>. QED BY <2>1, <2>3, <2>4 DEF SemaphoreFits, PutsHaveTasks, ListsParallel,
                                   FilesToOwnRows, PutsOf
<1>8. \/ UNCHANGED artifactVars
      \/ resultsAccepted
      \/ \E u \in uploads : registered(u) \/ registerTooLarge(u) \/ registerFails(u)
      \/ \E put \in slots.holding : putEnds(put)
  <2>1. ASSUME NEW t, NEW done, onTestEnd(t, done) \/ enqueueDone(t)
        PROVE  UNCHANGED artifactVars
    BY <2>1 DEF onTestEnd, enqueueDone
  <2>2. ASSUME flushTimer \/ openSettles \/ flushDropped \/ resultsLost
               \/ startDrain \/ awaitDrain
        PROVE  UNCHANGED artifactVars
    BY <2>2 DEF flushTimer, openSettles, flushDropped, resultsLost, startDrain,
                awaitDrain
  <2>3. ASSUME awaitUploads \/ awaitOpen \/ completeRun \/ budgetPasses \/ onEnd
               \/ signalHandled
        PROVE  UNCHANGED artifactVars
    BY <2>3 DEF awaitUploads, awaitOpen, completeRun, budgetPasses, onEnd,
                signalHandled
  <2>4. ASSUME NEW k, resultsRejected(k) \/ signalled(k)
        PROVE  UNCHANGED artifactVars
    BY <2>4 DEF resultsRejected, signalled
  <2>. HIDE DEF artifactVars, suiteVars, statusVars
  <2>. QED BY <2>1, <2>2, <2>3, <2>4 DEF StreamNext, reporter
<1>. QED BY <1>1, <1>3, <1>4, <1>5, <1>6, <1>7, <1>8

-----------------------------------------------------------------------------
(* Where an entry is *)

LEMMA TriggeredOnce ==
    ASSUME NEW b \in BatcherRecord
    PROVE  /\ Held(Triggered(b)) = Held(b)
           /\ BatcherOnce(b) => BatcherOnce(Triggered(b))
<1>. DEFINE r == Triggered(b)
<1>1. PICK q \in Seq(Entries), c \in Seq(Batches) : q = b.queue /\ c = b.chain
  BY DEF BatcherRecord
<1>2. r.queue = <<>> /\ r.chain = IF q = <<>> THEN c ELSE Append(c, q)
  BY <1>1 DEF Triggered, BatcherRecord
<1>3. ToSet(r.queue) = {} /\ Distinct(r.queue)
  BY <1>2 DEF ToSet, Distinct
<1>. HIDE DEF r
<1>4. CASE q = <<>>
  <2>1. ToSet(q) = {}
    BY <1>4 DEF ToSet
  <2>. QED BY <1>1, <1>2, <1>3, <1>4, <2>1 DEF Held, BatcherOnce, r
<1>5. CASE q # <<>>
  <2>1. PICK n \in Nat : n = Len(c) /\ DOMAIN c = 1 .. n
    BY <1>1
  <2>2. PICK d : d = Append(c, q)
    OBVIOUS
  <2>3. DOMAIN d = 1 .. (n + 1) /\ d[n + 1] = q /\ \A k \in 1 .. n : d[k] = c[k]
    <3>1. q \in Batches
      BY <1>1, <1>5 DEF Batches
    <3>. QED BY <1>1, <2>1, <2>2, <3>1
  <2>4. ChainSet(d) = ChainSet(c) \cup ToSet(q)
    <3>1. \A x \in ChainSet(d) : x \in ChainSet(c) \cup ToSet(q)
      BY <2>1, <2>3 DEF ChainSet
    <3>2. \A x \in ChainSet(c) \cup ToSet(q) : x \in ChainSet(d)
      BY <2>1, <2>3 DEF ChainSet
    <3>. QED BY <3>1, <3>2
  <2>5. Held(r) = Held(b)
    BY <1>1, <1>2, <1>3, <1>5, <2>2, <2>4 DEF Held
  <2>6. ASSUME BatcherOnce(b) PROVE BatcherOnce(r)
    <3>1. ToSet(q) \cap ChainSet(c) = {} /\ Distinct(q)
          /\ (\A k \in DOMAIN c : Distinct(c[k]))
          /\ \A j, k \in DOMAIN c : j # k => ToSet(c[j]) \cap ToSet(c[k]) = {}
      BY <1>1, <2>6 DEF BatcherOnce
    <3>2. \A k \in 1 .. n : ToSet(q) \cap ToSet(c[k]) = {}
      BY <2>1, <3>1 DEF ChainSet
    <3>3. \A k \in DOMAIN d : Distinct(d[k])
      BY <2>1, <2>3, <3>1
    <3>4. ASSUME NEW j \in DOMAIN d, NEW k \in DOMAIN d, j # k
          PROVE  ToSet(d[j]) \cap ToSet(d[k]) = {}
      <4>1. CASE j \in 1 .. n /\ k \in 1 .. n
        BY <2>1, <2>3, <3>1, <3>4, <4>1
      <4>2. CASE j = n + 1
        <5>1. k \in 1 .. n /\ d[j] = q /\ d[k] = c[k]
          BY <2>1, <2>3, <3>4, <4>2
        <5>. QED BY <3>2, <5>1
      <4>3. CASE k = n + 1
        <5>1. j \in 1 .. n /\ d[k] = q /\ d[j] = c[j]
          BY <2>1, <2>3, <3>4, <4>3
        <5>. QED BY <3>2, <5>1
      <4>4. (j \in 1 .. n \/ j = n + 1) /\ (k \in 1 .. n \/ k = n + 1)
        BY <2>1, <2>3, <3>4
      <4>. QED BY <4>1, <4>2, <4>3, <4>4
    <3>. QED BY <1>2, <1>3, <1>5, <2>2, <3>3, <3>4 DEF BatcherOnce
  <2>. QED BY <2>5, <2>6 DEF r
<1>. QED BY <1>4, <1>5

LEMMA EnqueuedOnce ==
    ASSUME NEW b \in BatcherRecord, NEW e \in Entries
    PROVE  /\ Held(Enqueued(b, e)) = Held(b) \cup {e}
           /\ BatcherOnce(b) /\ e \notin Held(b) => BatcherOnce(Enqueued(b, e))
<1>. DEFINE q == [b EXCEPT !.queue = Append(@, e)]
<1>1. b.queue \in Seq(Entries)
  BY DEF BatcherRecord
<1>2. Append(b.queue, e) \in Seq(Entries)
  BY <1>1
<1>3. q \in BatcherRecord /\ q.queue = Append(b.queue, e) /\ q.chain = b.chain
  BY <1>2 DEF BatcherRecord
<1>4. ToSet(q.queue) = ToSet(b.queue) \cup {e}
  BY <1>1, <1>3, SetOfAppend
<1>5. Held(q) = Held(b) \cup {e}
  BY <1>3, <1>4 DEF Held
<1>6. ASSUME BatcherOnce(b), e \notin Held(b) PROVE BatcherOnce(q)
  <2>1. e \notin ToSet(b.queue) /\ e \notin ChainSet(b.chain)
    BY <1>6 DEF Held
  <2>2. Distinct(q.queue)
    BY <1>1, <1>3, <1>6, <2>1, SetOfAppend DEF BatcherOnce
  <2>. HIDE DEF q
  <2>. QED BY <1>3, <1>4, <1>6, <2>1, <2>2 DEF BatcherOnce
<1>. DEFINE r == [q EXCEPT !.timer = TimerSet(b)]
<1>7. r.queue = q.queue /\ r.chain = q.chain
  <2>. HIDE DEF q
  <2>. QED BY <1>3 DEF BatcherRecord
<1>8. Enqueued(b, e) = Triggered(q) \/ Enqueued(b, e) = r
  BY DEF Enqueued
<1>. HIDE DEF q, r
<1>9. Held(r) = Held(q) /\ (BatcherOnce(q) => BatcherOnce(r))
  BY <1>7 DEF Held, BatcherOnce
<1>10. Held(Triggered(q)) = Held(q) /\ (BatcherOnce(q) => BatcherOnce(Triggered(q)))
  BY <1>3, TriggeredOnce
<1>. QED BY <1>5, <1>6, <1>8, <1>9, <1>10

\* A batch that is settled leaves the batcher, and no other entry does.
LEMMA SettledOnce ==
    ASSUME NEW b \in BatcherRecord, b.chain # <<>>, BatcherOnce(b), NEW d,
           d.queue = b.queue, d.chain = Tail(b.chain)
    PROVE  /\ BatcherOnce(d) /\ ToSet(Head(b.chain)) \subseteq Held(b)
           /\ Held(d) = Held(b) \ ToSet(Head(b.chain))
           /\ IsFiniteSet(ToSet(Head(b.chain)))
           /\ Cardinality(ToSet(Head(b.chain))) = Len(Head(b.chain))
<1>1. PICK c \in Seq(Batches) : c = b.chain
  BY DEF BatcherRecord
<1>2. PICK n \in Nat : n = Len(c) /\ DOMAIN c = 1 .. n /\ n > 0
  BY <1>1
<1>3. PICK h : h = c[1]
  OBVIOUS
<1>4. h = Head(c) /\ h \in Seq(Entries)
  <2>1. h \in Batches
    BY <1>2, <1>3
  <2>. QED BY <1>1, <1>2, <1>3, <2>1 DEF Batches
<1>5. PICK e : e = Tail(c)
  OBVIOUS
<1>6. DOMAIN e = 1 .. (n - 1) /\ \A k \in 1 .. (n - 1) : e[k] = c[k + 1]
  BY <1>1, <1>2, <1>5
<1>7. /\ \A k \in 1 .. n : Distinct(c[k])
      /\ \A j, k \in 1 .. n : j # k => ToSet(c[j]) \cap ToSet(c[k]) = {}
      /\ ToSet(b.queue) \cap ChainSet(c) = {} /\ Distinct(b.queue)
  BY <1>1, <1>2 DEF BatcherOnce
<1>8. \A k \in 1 .. (n - 1) : k + 1 \in 1 .. n /\ k + 1 # 1
  BY <1>2
<1>9. ChainSet(c) = ChainSet(e) \cup ToSet(h)
  <2>1. ASSUME NEW x \in ChainSet(c) PROVE x \in ChainSet(e) \cup ToSet(h)
    <3>1. PICK k \in 1 .. n : x \in ToSet(c[k])
      BY <1>2 DEF ChainSet
    <3>2. CASE k = 1
      BY <1>3, <3>1, <3>2
    <3>3. CASE k # 1
      <4>1. k - 1 \in 1 .. (n - 1) /\ (k - 1) + 1 = k
        BY <1>2, <3>3
      <4>2. k - 1 \in DOMAIN e /\ x \in ToSet(e[k - 1])
        BY <1>6, <3>1, <4>1
      <4>. QED BY <4>2 DEF ChainSet
    <3>. QED BY <3>2, <3>3
  <2>2. ASSUME NEW x \in ChainSet(e) PROVE x \in ChainSet(c)
    <3>1. PICK k \in 1 .. (n - 1) : x \in ToSet(e[k])
      BY <1>6 DEF ChainSet
    <3>2. k + 1 \in DOMAIN c /\ x \in ToSet(c[k + 1])
      BY <1>2, <1>6, <1>8, <3>1
    <3>. QED BY <3>2 DEF ChainSet
  <2>3. ASSUME NEW x \in ToSet(h) PROVE x \in ChainSet(c)
    <3>1. 1 \in DOMAIN c
      BY <1>2
    <3>. QED BY <1>3, <2>3, <3>1 DEF ChainSet
  <2>. QED BY <2>1, <2>2, <2>3
<1>10. ChainSet(e) \cap ToSet(h) = {}
  <2>1. ASSUME NEW k \in 1 .. (n - 1) PROVE ToSet(e[k]) \cap ToSet(h) = {}
    <3>1. 1 \in 1 .. n
      BY <1>2
    <3>. QED BY <1>3, <1>6, <1>7, <1>8, <3>1
  <2>. QED BY <1>6, <2>1 DEF ChainSet
<1>11. BatcherOnce(d)
  <2>1. \A k \in DOMAIN e : Distinct(e[k])
    BY <1>6, <1>7, <1>8
  <2>2. ASSUME NEW j \in DOMAIN e, NEW k \in DOMAIN e, j # k
        PROVE  ToSet(e[j]) \cap ToSet(e[k]) = {}
    <3>1. j + 1 \in 1 .. n /\ k + 1 \in 1 .. n /\ j + 1 # k + 1
      BY <1>2, <1>6, <2>2
    <3>. QED BY <1>6, <1>7, <3>1
  <2>. QED BY <1>1, <1>5, <1>7, <1>9, <2>1, <2>2 DEF BatcherOnce
<1>12. ToSet(h) \subseteq Held(b) /\ Held(d) = Held(b) \ ToSet(h)
  BY <1>1, <1>5, <1>7, <1>9, <1>10 DEF Held
<1>13. IsFiniteSet(ToSet(h)) /\ Cardinality(ToSet(h)) = Len(h)
  <2>1. Distinct(h)
    BY <1>2, <1>3, <1>7
  <2>. QED BY <1>4, <2>1, DistinctCount
<1>. QED BY <1>1, <1>4, <1>11, <1>12, <1>13

-----------------------------------------------------------------------------
(* Every entry is counted once *)

LEMMA WayIs == /\ Way = Buffered \cup enqueuing \cup Held(batcher)
               /\ Way' = Buffered' \cup enqueuing' \cup Held(batcher)'
BY DEF Way, Unsettled, Chained, Held, ChainSet

\* There are as many buffered entries as tests that are buffered.
LEMMA BufferedCount ==
    ASSUME StreamTypes
    PROVE  /\ IsFiniteSet(Buffered)
           /\ Cardinality(Buffered) = Cardinality(pending)
<1>. DEFINE f == [t \in pending |-> LastEntry(t)]
<1>1. IsFiniteSet(pending)
  BY StreamBounds, FS_Subset DEF StreamTypes
<1>2. f \in Bijection(pending, Buffered)
  <2>1. f \in [pending -> Buffered] /\ \A e \in Buffered : \E t \in pending : f[t] = e
    BY DEF Buffered
  <2>2. \A t, u \in pending : f[t] = f[u] => t = u
    BY DEF LastEntry
  <2>. HIDE DEF f
  <2>. QED BY <2>1, <2>2 DEF Bijection, Injection, Surjection, IsInjective
<1>3. ExistsBijection(pending, Buffered)
  <2>. HIDE DEF f
  <2>. QED BY <1>2 DEF ExistsBijection
<1>. QED BY <1>1, <1>3, FS_Bijection

LEMMA ReportedFinite ==
    ASSUME EntriesFollow
    PROVE  IsFiniteSet(Reported) /\ IsFiniteSet(Reported \ Way)
<1>. DEFINE U == {u \in Tests : attempts[u] > 0}
            L == {LastEntry(t) : t \in U}
            f == [t \in U |-> LastEntry(t)]
<1>1. IsFiniteSet(U)
  <2>1. U \subseteq Tests /\ IsFiniteSet(Tests)
    BY StreamBounds
  <2>. QED BY <2>1, FS_Subset
<1>2. f \in Surjection(U, L)
  <2>1. f \in [U -> L] /\ \A e \in L : \E t \in U : f[t] = e
    OBVIOUS
  <2>. QED BY <2>1 DEF Surjection
<1>3. IsFiniteSet(L)
  <2>. HIDE DEF f, U, L
  <2>. QED BY <1>1, <1>2, FS_Surjection
<1>4. Reported = ended \cup L
  BY DEF Reported
<1>5. IsFiniteSet(Reported)
  <2>1. PICK A, B : A = ended /\ B = L
    OBVIOUS
  <2>2. IsFiniteSet(A \cup B)
    BY <1>3, <2>1, FS_Union DEF EntriesFollow
  <2>. QED BY <1>4, <2>1, <2>2
<1>. QED BY <1>5, FS_Subset

LEMMA EntriesStart == StreamInit => EntriesFollow
BY FS_EmptySet DEF StreamInit, EntriesFollow

LEMMA EntriesHold ==
    ASSUME StreamTypes, EntriesFollow, StreamNext
    PROVE  EntriesFollow'
<1>. USE DEF suiteVars, artifactVars, statusVars
<1>1. ASSUME NEW t \in Tests, NEW done \in BOOLEAN, onTestEnd(t, done)
      PROVE  EntriesFollow'
  <2>1. attempts \in [Tests -> Nat] /\ pending \subseteq Tests
        /\ ended \subseteq Tests \X Nat
    BY DEF StreamTypes, Entries
  <2>2. attempts'[t] = attempts[t] + 1 /\ attempts[t] \in Nat
        /\ \A x \in Tests : x # t => attempts'[x] = attempts[x]
    BY <1>1, <2>1 DEF onTestEnd
  <2>3. LastEntry(t)' = NextEntry(t)
        /\ \A x \in Tests : x # t => LastEntry(x)' = LastEntry(x)
    BY <2>2 DEF LastEntry, NextEntry
  <2>4. NextEntry(t) \notin ended
    BY <2>2 DEF EntriesFollow, NextEntry
  <2>5. \A x \in Tests : x # t => LastEntry(x) # NextEntry(t)
    BY DEF LastEntry, NextEntry
  <2>6. EndAt("none") /\ end' = end
        /\ \/ /\ done /\ pending' = pending \ {t}
              /\ ended' = ended \cup {NextEntry(t)}
           \/ /\ ~done /\ pending' = pending \cup {t} /\ ended' = ended
    BY <1>1 DEF onTestEnd, EndAt
  <2>7. IsFiniteSet(ended')
    BY <2>6, FS_AddElement DEF EntriesFollow
  <2>8. \A e \in ended' : e[2] <= attempts'[e[1]]
    <3>1. ASSUME NEW e \in ended PROVE e[2] <= attempts'[e[1]]
      <4>1. e[1] \in Tests /\ e[2] \in Nat /\ e[2] <= attempts[e[1]]
        BY <2>1 DEF EntriesFollow
      <4>2. attempts[e[1]] \in Nat /\ attempts'[e[1]] >= attempts[e[1]]
        BY <2>1, <2>2, <4>1
      <4>3. attempts'[e[1]] \in Nat
        BY <2>1, <2>2, <4>1
      <4>. QED BY <4>1, <4>2, <4>3
    <3>2. NextEntry(t)[2] <= attempts'[NextEntry(t)[1]]
      BY <2>2 DEF NextEntry
    <3>. QED BY <2>6, <3>1, <3>2
  <2>9. ASSUME NEW x \in pending' PROVE attempts'[x] > 0 /\ LastEntry(x)' \notin ended'
    <3>1. CASE x = t
      <4>1. ~done
        BY <2>6, <2>9, <3>1
      <4>. QED BY <2>2, <2>3, <2>4, <2>6, <3>1, <4>1
    <3>2. CASE x # t
      <4>1. x \in pending
        BY <2>6, <2>9, <3>2
      <4>. QED BY <2>1, <2>2, <2>3, <2>5, <2>6, <3>2, <4>1 DEF EntriesFollow
    <3>. QED BY <3>1, <3>2
  <2>10. ASSUME NEW x \in Tests, x \notin pending', attempts'[x] > 0
         PROVE  LastEntry(x)' \in ended'
    <3>1. CASE x = t
      BY <2>3, <2>6, <2>10, <3>1
    <3>2. CASE x # t
      BY <2>2, <2>3, <2>6, <2>10, <3>2 DEF EntriesFollow
    <3>. QED BY <3>1, <3>2
  <2>. QED BY <2>7, <2>8, <2>9, <2>10 DEF EntriesFollow
<1>2. ASSUME UNCHANGED <<attempts, ended, pending>>,
             end'.pc = "none" => end.pc = "none"
      PROVE  EntriesFollow'
  BY <1>2 DEF EntriesFollow, LastEntry, EndAt
<1>3. ASSUME BatchSettled PROVE end'.pc = end.pc
  BY <1>3 DEF BatchSettled, StreamTypes, EndRecord
<1>4. ASSUME onEnd PROVE EntriesFollow'
  <2>1. attempts' = attempts /\ ended' = ended /\ pending' \subseteq pending
    BY <1>4 DEF onEnd
  <2>2. end'.pc # "none"
    BY <1>4 DEF onEnd, StreamTypes, EndRecord
  <2>. QED BY <2>1, <2>2 DEF EntriesFollow, LastEntry, EndAt
<1>5. ASSUME flushTimer \/ openSettles \/ signalHandled \/ resultsLost \/ flushDropped
      PROVE  EntriesFollow'
  BY <1>2, <1>3, <1>5 DEF flushTimer, openSettles, signalHandled, resultsLost,
                          flushDropped
<1>6. ASSUME resultsAccepted \/ (\E why \in {"auth", "refused"} : resultsRejected(why))
      PROVE  EntriesFollow'
  BY <1>2, <1>3, <1>6 DEF resultsAccepted, resultsRejected
<1>7. ASSUME NEW u, registered(u) \/ registerTooLarge(u) \/ registerFails(u)
                    \/ putEnds(u) \/ enqueueDone(u) \/ signalled(u)
      PROVE  EntriesFollow'
  BY <1>2, <1>7 DEF registered, registerTooLarge, registerFails, putEnds,
                    enqueueDone, signalled
<1>8. ASSUME startDrain \/ awaitDrain \/ awaitUploads \/ awaitOpen \/ completeRun
             \/ budgetPasses
      PROVE  EntriesFollow'
  <2>1. UNCHANGED <<attempts, ended, pending>>
    BY <1>8 DEF startDrain, awaitDrain, awaitUploads, awaitOpen, completeRun,
                budgetPasses
  <2>2. end \in EndRecord /\ end.pc # "none"
    BY <1>8 DEF startDrain, awaitDrain, awaitUploads, awaitOpen, completeRun,
                budgetPasses, EndAt, StreamTypes
  <2>3. Open.pc = "open" /\ Abandon.pc = "open"
    BY <2>2 DEF Open, Abandon, EndRecord
  <2>4. end'.pc # "none"
    BY <1>8, <2>2, <2>3 DEF startDrain, awaitDrain, awaitUploads, awaitOpen,
                            completeRun, budgetPasses, EndRecord
  <2>. QED BY <1>2, <2>1, <2>4
<1>. HIDE DEF suiteVars, artifactVars, statusVars
<1>. QED BY <1>1, <1>4, <1>5, <1>6, <1>7, <1>8 DEF StreamNext, reporter

Tracked == OnceOnTheWay /\ CountsFollow /\ TasksTellApart

LEMMA TrackedStart == StreamInit => Tracked
<1>. SUFFICES ASSUME StreamInit PROVE Tracked
  OBVIOUS
<1>1. pending = {} /\ enqueuing = {} /\ batcher.queue = <<>> /\ batcher.chain = <<>>
      /\ uploads = {} /\ tally.streamed = 0 /\ tally.failed = 0
      /\ ended = {} /\ \A t \in Tests : attempts[t] = 0
  BY DEF StreamInit
<1>2. ToSet(batcher.queue) = {} /\ Distinct(batcher.queue)
      /\ ChainSet(batcher.chain) = {}
  BY <1>1 DEF ToSet, Distinct, ChainSet
<1>3. Held(batcher) = {} /\ BatcherOnce(batcher)
  BY <1>1, <1>2 DEF Held, BatcherOnce
<1>4. Buffered = {} /\ Way = {} /\ Reported = {}
  BY <1>1, <1>3, WayIs DEF Reported, Buffered
<1>5. OnceOnTheWay
  BY <1>1, <1>3, <1>4 DEF OnceOnTheWay
<1>6. CountsFollow
  BY <1>1, <1>4, FS_EmptySet DEF CountsFollow
<1>7. TasksTellApart
  BY <1>1 DEF TasksTellApart, UploadIds
<1>. QED BY <1>5, <1>6, <1>7 DEF Tracked

\* A step that moves entries on their way, and lets no task bear another name.
LEMMA Moved ==
    ASSUME Tracked, OnceOnTheWay', Reported' \ Way' = Reported \ Way, tally' = tally,
           UploadIds' \subseteq UploadIds,
           \A u, v \in uploads' : u.id = v.id => u = v
    PROVE  Tracked'
<1>1. CountsFollow'
  BY DEF Tracked, CountsFollow
<1>2. TasksTellApart'
  BY DEF Tracked, TasksTellApart
<1>. QED BY <1>1, <1>2 DEF Tracked

LEMMA SameUploads ==
    ASSUME Tracked, uploads' \subseteq uploads
    PROVE  /\ UploadIds' \subseteq UploadIds
           /\ \A u, v \in uploads' : u.id = v.id => u = v
<1>1. UploadIds' \subseteq UploadIds
  BY DEF UploadIds
<1>. QED BY <1>1 DEF Tracked, TasksTellApart

\* What Playwright reported, and what of it is buffered.
LEMMA SameEntries ==
    ASSUME attempts' = attempts, ended' = ended
    PROVE  Reported' = Reported /\ (pending' = pending => Buffered' = Buffered)
BY DEF Reported, Buffered, LastEntry

\* A step that leaves every entry where it is.
LEMMA StayedPut ==
    ASSUME Tracked, UNCHANGED <<attempts, ended, pending, enqueuing, tally>>,
           Held(batcher)' = Held(batcher), BatcherOnce(batcher)',
           UploadIds' \subseteq UploadIds,
           \A u, v \in uploads' : u.id = v.id => u = v
    PROVE  Tracked'
<1>1. Way' = Way /\ Reported' = Reported /\ Buffered' = Buffered
  BY WayIs, SameEntries
<1>2. OnceOnTheWay'
  BY <1>1 DEF Tracked, OnceOnTheWay
<1>. QED BY <1>1, <1>2, Moved

\* A batch that is settled, and counted, as streamed or as dropped.
LEMMA BatchCounted ==
    ASSUME StreamTypes, EntriesFollow, Tracked, Flushing, BatchSettled, UNCHANGED suiteVars,
           tally'.streamed + tally'.failed = tally.streamed + tally.failed + Len(Batch)
    PROVE  /\ OnceOnTheWay' /\ CountsFollow'
           /\ Reported' \ Way' = (Reported \ Way) \cup ToSet(Batch)
           /\ ToSet(Batch) \cap (Reported \ Way) = {}
<1>. USE DEF suiteVars
<1>1. batcher \in BatcherRecord /\ batcher.chain # <<>> /\ BatcherOnce(batcher)
  BY DEF StreamTypes, Flushing, Tracked, OnceOnTheWay
<1>2. PICK d : d = batcher'
  OBVIOUS
<1>3. d.queue = batcher.queue /\ d.chain = Tail(batcher.chain)
  BY <1>1, <1>2 DEF BatchSettled, BatcherRecord
<1>4. /\ BatcherOnce(d) /\ ToSet(Batch) \subseteq Held(batcher)
      /\ Held(d) = Held(batcher) \ ToSet(Batch)
      /\ IsFiniteSet(ToSet(Batch)) /\ Cardinality(ToSet(Batch)) = Len(Batch)
  BY <1>1, <1>3, SettledOnce DEF Batch
<1>5. BatcherOnce(batcher)' /\ Held(batcher)' = Held(batcher) \ ToSet(Batch)
  BY <1>2, <1>4 DEF BatcherOnce, Held
<1>0. Reported' = Reported /\ Buffered' = Buffered
  BY SameEntries
<1>6. /\ Way = Buffered \cup enqueuing \cup Held(batcher)
      /\ Way' = Buffered \cup enqueuing \cup (Held(batcher) \ ToSet(Batch))
  BY <1>0, <1>5, WayIs
<1>7. /\ Way \subseteq Reported /\ Buffered \cap enqueuing = {}
      /\ (Buffered \cup enqueuing) \cap Held(batcher) = {}
  BY DEF Tracked, OnceOnTheWay
<1>. HIDE DEF suiteVars
<1>9. /\ Reported \ Way' = (Reported \ Way) \cup ToSet(Batch)
      /\ ToSet(Batch) \cap (Reported \ Way) = {}
  BY <1>4, <1>6, <1>7
<1>10. OnceOnTheWay'
  BY <1>5, <1>6, <1>7, <1>0 DEF OnceOnTheWay, suiteVars
<1>11. Cardinality((Reported \ Way) \cup ToSet(Batch)) = Cardinality(Reported \ Way) + Len(Batch)
  <2>1. IsFiniteSet(Reported \ Way)
    BY ReportedFinite
  <2>2. (Reported \ Way) \cap ToSet(Batch) = {}
    BY <1>9
  <2>3. Cardinality((Reported \ Way) \cup ToSet(Batch))
          = Cardinality(Reported \ Way) + Cardinality(ToSet(Batch)) - Cardinality({})
    <3>1. PICK A, B : A = Reported \ Way /\ B = ToSet(Batch)
      OBVIOUS
    <3>2. Cardinality(A \cup B) = Cardinality(A) + Cardinality(B) - Cardinality(A \cap B)
      BY <1>4, <2>1, <3>1, FS_Union
    <3>. QED BY <2>2, <3>1, <3>2
  <2>4. Cardinality({}) = 0 /\ Cardinality(Reported \ Way) \in Nat
        /\ Cardinality(ToSet(Batch)) \in Nat
    BY <1>4, <2>1, FS_EmptySet, FS_CardinalityType
  <2>. QED BY <1>4, <2>3, <2>4
<1>12. CountsFollow'
  <2>1. tally'.streamed + tally'.failed = Cardinality(Reported \ Way) + Len(Batch)
    BY DEF Tracked, CountsFollow
  <2>. QED BY <1>0, <1>9, <1>11, <2>1 DEF CountsFollow
<1>. QED BY <1>0, <1>9, <1>10, <1>12

\* A test that reports again while it is buffered takes its entry further; if
\* it was over, or had not reported, it gets a new one.
LEMMA TestEndTracked ==
    ASSUME StreamTypes, EntriesFollow, Tracked, NEW t \in Tests,
           NEW done \in BOOLEAN, onTestEnd(t, done)
    PROVE  Tracked'
<1>. USE DEF suiteVars, artifactVars, statusVars
<1>. DEFINE L == LastEntry(t)
            N == NextEntry(t)
            D == IF t \in pending THEN {L} ELSE {}
<1>1. /\ attempts' = [attempts EXCEPT ![t] = @ + 1] /\ EndAt("none")
      /\ \/ /\ done /\ pending' = pending \ {t}
            /\ enqueuing' = enqueuing \cup {N} /\ ended' = ended \cup {N}
         \/ /\ ~done /\ pending' = pending \cup {t}
            /\ enqueuing' = enqueuing /\ ended' = ended
      /\ UNCHANGED <<batcher, tally, uploads>>
  BY DEF onTestEnd, EndAt
<1>2. attempts \in [Tests -> Nat] /\ pending \subseteq Tests
  BY DEF StreamTypes
<1>3. /\ LastEntry(t)' = N /\ attempts'[t] > 0 /\ attempts[t] \in Nat
      /\ \A x \in Tests : x # t =>
            LastEntry(x)' = LastEntry(x) /\ attempts'[x] = attempts[x]
  BY <1>1, <1>2 DEF LastEntry, NextEntry
<1>4. \A x \in Tests : LastEntry(x) # N /\ (x # t => LastEntry(x) # L)
  BY <1>3 DEF LastEntry, NextEntry
<1>5. N \notin ended
  BY <1>3 DEF EntriesFollow, NextEntry
<1>6. /\ t \in pending => L \notin ended /\ attempts[t] > 0
      /\ t \notin pending /\ attempts[t] > 0 => L \in ended
  BY <1>1 DEF EntriesFollow
<1>7. /\ Way \subseteq Reported /\ Buffered \cap enqueuing = {}
      /\ (Buffered \cup enqueuing) \cap Held(batcher) = {} /\ BatcherOnce(batcher)
  BY DEF Tracked, OnceOnTheWay
<1>8. Held(batcher)' = Held(batcher) /\ BatcherOnce(batcher)'
  BY <1>1, <1>7 DEF Held, BatcherOnce
<1>. HIDE DEF L, N
<1>9. Buffered' = (Buffered \ D) \cup (IF done THEN {} ELSE {N})
  <2>1. \A x \in pending : x # t => LastEntry(x) \notin D
    BY <1>2, <1>4
  <2>2. t \in pending => L \in Buffered
    BY DEF Buffered, L
  <2>3. ASSUME NEW e \in Buffered'
        PROVE  e \in (Buffered \ D) \cup (IF done THEN {} ELSE {N})
    <3>1. PICK x \in pending' : e = LastEntry(x)'
      BY DEF Buffered
    <3>2. CASE x = t
      BY <1>1, <1>3, <3>1, <3>2
    <3>3. CASE x # t
      <4>1. x \in pending /\ e = LastEntry(x)
        BY <1>1, <1>2, <1>3, <3>1, <3>3
      <4>. QED BY <2>1, <3>3, <4>1 DEF Buffered
    <3>. QED BY <3>2, <3>3
  <2>4. ASSUME NEW e \in Buffered, e \notin D PROVE e \in Buffered'
    <3>1. PICK x \in pending : e = LastEntry(x)
      BY DEF Buffered
    <3>2. x # t
      BY <2>4, <3>1 DEF L
    <3>3. x \in pending' /\ e = LastEntry(x)'
      BY <1>1, <1>2, <1>3, <3>1, <3>2
    <3>. QED BY <3>3 DEF Buffered
  <2>5. ~done => N \in Buffered'
    BY <1>1, <1>3 DEF Buffered
  <2>. HIDE DEF D
  <2>. QED BY <2>3, <2>4, <2>5
<1>10. Reported' = (Reported \ D) \cup {N}
  <2>1. ASSUME NEW e \in Reported' PROVE e \in (Reported \ D) \cup {N}
    <3>1. CASE e \in ended'
      BY <1>1, <1>6, <3>1 DEF Reported
    <3>2. CASE e \notin ended'
      <4>1. PICK x \in Tests : e = LastEntry(x)' /\ attempts'[x] > 0
        BY <2>1, <3>2 DEF Reported
      <4>2. x # t => e = LastEntry(x) /\ attempts[x] > 0 /\ LastEntry(x) # L
        BY <1>3, <1>4, <4>1
      <4>. QED BY <1>3, <4>1, <4>2 DEF Reported
    <3>. QED BY <3>1, <3>2
  <2>2. ASSUME NEW e \in Reported, e \notin D PROVE e \in Reported'
    <3>1. CASE e \in ended
      BY <1>1, <3>1 DEF Reported
    <3>2. CASE e \notin ended
      <4>1. PICK x \in Tests : e = LastEntry(x) /\ attempts[x] > 0
        BY <2>2, <3>2 DEF Reported
      <4>2. x # t
        <5>1. x = t => e = L
          BY <4>1 DEF L
        <5>. QED BY <1>6, <2>2, <3>2, <4>1, <5>1
      <4>3. e = LastEntry(x)' /\ attempts'[x] > 0
        BY <1>3, <4>1, <4>2
      <4>. QED BY <4>3 DEF Reported
    <3>. QED BY <3>1, <3>2
  <2>3. N \in Reported'
    BY <1>3 DEF Reported
  <2>. HIDE DEF D
  <2>. QED BY <2>1, <2>2, <2>3
<1>11. N \notin Reported
  BY <1>4, <1>5 DEF Reported
<1>12. D \subseteq Buffered
  BY DEF Buffered, L
<1>. HIDE DEF D
<1>13. Way' = (Way \ D) \cup {N}
  <2>1. N \notin Buffered /\ N \notin enqueuing /\ N \notin Held(batcher)
    BY <1>7, <1>11, WayIs
  <2>2. enqueuing' = enqueuing \cup (IF done THEN {N} ELSE {})
    BY <1>1
  <2>. QED BY <1>7, <1>8, <1>9, <1>12, <2>1, <2>2, WayIs
<1>14. OnceOnTheWay'
  <2>1. Way' \subseteq Reported'
    BY <1>7, <1>10, <1>13
  <2>2. N \notin Buffered /\ N \notin enqueuing /\ N \notin Held(batcher)
    BY <1>7, <1>11, WayIs
  <2>3. enqueuing' = enqueuing \cup (IF done THEN {N} ELSE {})
    BY <1>1
  <2>4. Buffered' \cap enqueuing' = {}
    BY <1>7, <1>9, <2>2, <2>3
  <2>5. (Buffered' \cup enqueuing') \cap Held(batcher) = {}
    BY <1>7, <1>9, <2>2, <2>3
  <2>. QED BY <1>8, <2>1, <2>4, <2>5 DEF OnceOnTheWay
<1>15. Reported' \ Way' = Reported \ Way
  BY <1>7, <1>10, <1>11, <1>12, <1>13, WayIs
<1>. QED BY <1>1, <1>14, <1>15, SameUploads, Moved

LEMMA EnqueueTracked ==
    ASSUME StreamTypes, EntriesFollow, Tracked, NEW e \in enqueuing, enqueueDone(e)
    PROVE  Tracked'
<1>. USE DEF suiteVars, artifactVars, statusVars
<1>1. /\ e \in enqueuing /\ enqueuing' = enqueuing \ {e} /\ pending' = pending
      /\ attempts' = attempts /\ ended' = ended /\ uploads' = uploads
      /\ \/ batcher' = Enqueued(batcher, e) /\ tally' = tally
         \/ tally' = [tally EXCEPT !.failed = @ + 1] /\ batcher' = batcher
  BY DEF enqueueDone
<1>2. /\ Way \subseteq Reported /\ Buffered \cap enqueuing = {}
      /\ (Buffered \cup enqueuing) \cap Held(batcher) = {} /\ BatcherOnce(batcher)
  BY DEF Tracked, OnceOnTheWay
<1>3. Reported' = Reported /\ Buffered' = Buffered /\ e \notin Held(batcher) /\ e \notin Buffered /\ e \in Way
  BY <1>1, <1>2, SameEntries, WayIs
<1>4. CASE batcher' = Enqueued(batcher, e) /\ tally' = tally
  <2>1. PICK d : d = Enqueued(batcher, e)
    OBVIOUS
  <2>2. Held(d) = Held(batcher) \cup {e} /\ BatcherOnce(d)
    BY <1>2, <1>3, <2>1, EnqueuedOnce DEF StreamTypes
  <2>3. Held(batcher)' = Held(batcher) \cup {e} /\ BatcherOnce(batcher)'
    BY <1>4, <2>1, <2>2 DEF Held, BatcherOnce
  <2>4. Way' = Way
    BY <1>1, <1>3, <2>3, WayIs
  <2>5. OnceOnTheWay'
    <3>1. Buffered' \cap enqueuing' = {}
          /\ (Buffered' \cup enqueuing') \cap (Held(batcher) \cup {e}) = {}
      BY <1>1, <1>2, <1>3
    <3>. QED BY <1>2, <1>3, <2>3, <2>4, <3>1 DEF OnceOnTheWay
  <2>. QED BY <1>1, <1>3, <1>4, <2>4, <2>5, SameUploads, Moved
<1>5. CASE tally' = [tally EXCEPT !.failed = @ + 1] /\ batcher' = batcher
  <2>1. Held(batcher)' = Held(batcher) /\ BatcherOnce(batcher)'
    BY <1>2, <1>5 DEF Held, BatcherOnce
  <2>2. Way' = Way \ {e}
    BY <1>1, <1>3, <2>1, WayIs
  <2>3. OnceOnTheWay'
    <3>1. Buffered' \cap enqueuing' = {}
          /\ (Buffered' \cup enqueuing') \cap Held(batcher) = {}
      BY <1>1, <1>2, <1>3
    <3>. QED BY <1>2, <1>3, <2>1, <2>2, <3>1 DEF OnceOnTheWay
  <2>4. PICK A : A = Reported \ Way
    OBVIOUS
  <2>5. Reported' \ Way' = A \cup {e} /\ e \notin A
    BY <1>2, <1>3, <2>2, <2>4
  <2>6. IsFiniteSet(A) /\ Cardinality(A \cup {e}) = Cardinality(A) + 1
        /\ Cardinality(A) \in Nat
    <3>1. IsFiniteSet(A)
      BY <2>4, ReportedFinite
    <3>2. Cardinality(A \cup {e}) = Cardinality(A) + 1
      BY <2>5, <3>1, FS_AddElement
    <3>. QED BY <3>1, <3>2, FS_CardinalityType
  <2>7. tally'.streamed + tally'.failed = tally.streamed + tally.failed + 1
    BY <1>5 DEF StreamTypes
  <2>8. CountsFollow'
    <3>1. tally.streamed + tally.failed = Cardinality(A)
      BY <2>4 DEF Tracked, CountsFollow
    <3>. QED BY <2>5, <2>6, <2>7, <3>1 DEF CountsFollow
  <2>9. TasksTellApart'
    <3>1. UploadIds' = UploadIds
      BY <1>1 DEF UploadIds
    <3>. QED BY <1>1, <2>4, <2>5, <3>1 DEF Tracked, TasksTellApart
  <2>. QED BY <2>3, <2>8, <2>9 DEF Tracked
<1>. QED BY <1>1, <1>4, <1>5

LEMMA DropTracked ==
    ASSUME StreamTypes, EntriesFollow, Tracked, Flushing, BatchSettled,
           UNCHANGED suiteVars,
           uploads' = uploads, NEW why, tally' = Dropped(why)
    PROVE  Tracked'
<1>1. tally'.streamed + tally'.failed = tally.streamed + tally.failed + Len(Batch)
  <2>1. Len(Batch) \in Nat
    BY BatchType
  <2>. QED BY <2>1 DEF Dropped, StreamTypes
<1>2. OnceOnTheWay' /\ CountsFollow' /\ Reported' \ Way' = (Reported \ Way) \cup ToSet(Batch)
  BY <1>1, BatchCounted
<1>3. UploadIds' = UploadIds
  BY DEF UploadIds
<1>4. TasksTellApart'
  BY <1>2, <1>3 DEF Tracked, TasksTellApart
<1>. QED BY <1>2, <1>4 DEF Tracked

LEMMA AcceptTracked ==
    ASSUME StreamTypes, EntriesFollow, Tracked, resultsAccepted
    PROVE  Tracked'
<1>1. Flushing /\ BatchSettled /\ UNCHANGED suiteVars
      /\ tally' = [tally EXCEPT !.streamed = @ + Len(Batch)]
  BY DEF resultsAccepted, Posting
<1>2. tally'.streamed + tally'.failed = tally.streamed + tally.failed + Len(Batch)
  <2>1. Len(Batch) \in Nat
    BY <1>1, BatchType
  <2>. QED BY <1>1, <2>1 DEF StreamTypes
<1>3. OnceOnTheWay' /\ CountsFollow' /\ Reported' \ Way' = (Reported \ Way) \cup ToSet(Batch)
      /\ ToSet(Batch) \cap (Reported \ Way) = {}
  BY <1>1, <1>2, BatchCounted
<1>4. Batch[1] \in ToSet(Batch)
  <2>1. Batch \in Seq(Entries) /\ Len(Batch) > 0 /\ Len(Batch) \in Nat
    BY <1>1, BatchType
  <2>2. 1 \in DOMAIN Batch
    BY <2>1
  <2>. QED BY <2>2 DEF ToSet
<1>5. PICK mapped :
          LET files == correlateUploads(Batch, mapped) IN
          uploads' = IF files = <<>> THEN uploads
                     ELSE uploads \cup {[id |-> Batch[1], pc |-> "register",
                                         rows |-> files, files |-> files]}
  BY DEF resultsAccepted
<1>6. PICK new : new.id = Batch[1] /\ uploads' \in {uploads, uploads \cup {new}}
  <2>1. PICK files : uploads' = IF files = <<>> THEN uploads
                     ELSE uploads \cup {[id |-> Batch[1], pc |-> "register",
                                         rows |-> files, files |-> files]}
    BY <1>5
  <2>2. PICK new : new = [id |-> Batch[1], pc |-> "register",
                          rows |-> files, files |-> files]
    OBVIOUS
  <2>3. new.id = Batch[1] /\ uploads' \in {uploads, uploads \cup {new}}
    BY <2>1, <2>2
  <2>. QED BY <2>3
<1>7. UploadIds \subseteq Reported \ Way /\ \A u, v \in uploads : u.id = v.id => u = v
  BY DEF Tracked, TasksTellApart
<1>8. Batch[1] \notin UploadIds
  BY <1>3, <1>4, <1>7
<1>9. UploadIds' \subseteq Reported' \ Way'
  <2>1. UploadIds' \subseteq UploadIds \cup {Batch[1]}
    BY <1>6 DEF UploadIds
  <2>. QED BY <1>3, <1>4, <1>7, <2>1
<1>10. \A u, v \in uploads' : u.id = v.id => u = v
  BY <1>6, <1>7, <1>8 DEF UploadIds
<1>. QED BY <1>3, <1>9, <1>10 DEF Tracked, TasksTellApart

LEMMA TrackedHold ==
    ASSUME StreamTypes, EntriesFollow, Tracked, StreamNext
    PROVE  Tracked'
<1>. USE DEF suiteVars, artifactVars, statusVars
<1>0. BatcherOnce(batcher)
  BY DEF Tracked, OnceOnTheWay
<1>1. ASSUME Held(batcher)' = Held(batcher), BatcherOnce(batcher)',
             UNCHANGED <<attempts, ended, pending, enqueuing, tally>>, uploads' \subseteq uploads
      PROVE  Tracked'
  BY <1>1, StayedPut, SameUploads
<1>2. ASSUME \/ batcher' = batcher
             \/ /\ batcher'.queue = batcher.queue
                /\ batcher'.chain = batcher.chain
      PROVE  Held(batcher)' = Held(batcher) /\ BatcherOnce(batcher)'
  BY <1>0, <1>2 DEF Held, BatcherOnce
<1>3. ASSUME batcher' = Triggered(batcher)
      PROVE  Held(batcher)' = Held(batcher) /\ BatcherOnce(batcher)'
  <2>1. PICK d : d = Triggered(batcher)
    OBVIOUS
  <2>2. Held(d) = Held(batcher) /\ BatcherOnce(d)
    BY <1>0, <2>1, TriggeredOnce DEF StreamTypes
  <2>. QED BY <1>3, <2>1, <2>2 DEF Held, BatcherOnce
<1>4. ASSUME NEW u \in uploads, NEW v, v.id = u.id,
             UNCHANGED <<attempts, ended, pending, enqueuing, tally, batcher>>,
             uploads' = (uploads \ {u}) \cup {v}
      PROVE  Tracked'
  <2>1. UploadIds' \subseteq UploadIds
    BY <1>4 DEF UploadIds
  <2>2. \A x, y \in uploads' : x.id = y.id => x = y
    BY <1>4 DEF Tracked, TasksTellApart
  <2>3. Held(batcher)' = Held(batcher) /\ BatcherOnce(batcher)'
    BY <1>2, <1>4
  <2>. QED BY <1>4, <2>1, <2>2, <2>3, StayedPut
<1>5. ASSUME flushTimer \/ startDrain PROVE Tracked'
  <2>1. batcher' = Triggered(batcher)
        /\ UNCHANGED <<attempts, ended, pending, enqueuing, tally, uploads>>
    BY <1>5 DEF flushTimer, startDrain
  <2>. QED BY <1>1, <1>3, <2>1
<1>6. ASSUME openSettles \/ awaitDrain \/ awaitUploads \/ awaitOpen \/ completeRun
             \/ budgetPasses \/ signalHandled
      PROVE  Tracked'
  <2>1. UNCHANGED <<attempts, ended, pending, enqueuing, tally, uploads, batcher>>
    BY <1>6 DEF openSettles, awaitDrain, awaitUploads, awaitOpen, completeRun,
                budgetPasses, signalHandled
  <2>. QED BY <1>1, <1>2, <2>1
<1>7. ASSUME NEW kind, signalled(kind) PROVE Tracked'
  BY <1>1, <1>2, <1>7 DEF signalled
<1>8. ASSUME NEW u \in uploads, registered(u) PROVE Tracked'
  <2>1. [u EXCEPT !.pc = "put"].id = u.id
    BY DEF StreamTypes, UploadRecord
  <2>. QED BY <1>4, <1>8, <2>1 DEF registered
<1>9. ASSUME NEW u \in uploads, registerTooLarge(u) PROVE Tracked'
  <2>1. PICK v : v = [u EXCEPT !.pc = "again", !.rows = At(u.rows, Kept(u)),
                               !.files = KeptFiles(u)]
    OBVIOUS
  <2>2. v.id = u.id
    BY <2>1 DEF StreamTypes, UploadRecord
  <2>3. uploads' = (uploads \ {u}) \cup (IF Kept(u) = <<>> THEN {} ELSE {v})
        /\ UNCHANGED <<attempts, ended, pending, enqueuing, tally, batcher>>
    BY <1>9, <2>1 DEF registerTooLarge
  <2>4. CASE Kept(u) = <<>>
    BY <1>1, <1>2, <2>3, <2>4
  <2>5. CASE Kept(u) # <<>>
    BY <1>4, <2>2, <2>3, <2>5
  <2>. QED BY <2>4, <2>5
<1>10. ASSUME NEW u \in uploads, registerFails(u) PROVE Tracked'
  BY <1>1, <1>2, <1>10 DEF registerFails
<1>11. ASSUME NEW put \in slots.holding, putEnds(put) PROVE Tracked'
  BY <1>1, <1>2, <1>11 DEF putEnds
<1>12. ASSUME onEnd PROVE Tracked'
  <2>1. UNCHANGED <<attempts, ended, tally, uploads, batcher>>
    BY <1>12 DEF onEnd
  <2>2. Held(batcher)' = Held(batcher) /\ BatcherOnce(batcher)'
    BY <1>2, <2>1
  <2>3. \/ pending' = pending /\ enqueuing' = enqueuing
        \/ pending' = {} /\ enqueuing' = enqueuing \cup Buffered
    BY <1>12 DEF onEnd, Buffered
  <2>4. \/ Buffered' = Buffered /\ enqueuing' = enqueuing
        \/ Buffered' = {} /\ enqueuing' = enqueuing \cup Buffered
    <3>1. pending' = {} => Buffered' = {}
      BY DEF Buffered
    <3>. QED BY <2>1, <2>3, <3>1, SameEntries
  <2>5. Way' = Way /\ Reported' = Reported
    BY <2>1, <2>2, <2>4, WayIs, SameEntries
  <2>6. OnceOnTheWay'
    BY <2>2, <2>4, <2>5 DEF Tracked, OnceOnTheWay
  <2>. QED BY <2>1, <2>5, <2>6, SameUploads, Moved
<1>13. ASSUME flushDropped PROVE Tracked'
  BY <1>13, DropTracked DEF flushDropped
<1>14. ASSUME NEW why, resultsRejected(why) PROVE Tracked'
  BY <1>14, DropTracked DEF resultsRejected, Posting
<1>15. ASSUME resultsLost PROVE Tracked'
  <2>1. CASE batcher.tries < MaxRetries
    <3>1. batcher' = [batcher EXCEPT !.tries = batcher.tries + 1]
          /\ UNCHANGED <<attempts, ended, pending, enqueuing, uploads, tally>>
      BY <1>15, <2>1 DEF resultsLost
    <3>2. batcher'.queue = batcher.queue /\ batcher'.chain = batcher.chain
      BY <3>1 DEF StreamTypes, BatcherRecord
    <3>. QED BY <1>1, <1>2, <3>1, <3>2
  <2>2. CASE ~(batcher.tries < MaxRetries)
    BY <1>15, <2>2, DropTracked DEF resultsLost, Posting
  <2>. QED BY <2>1, <2>2
<1>. HIDE DEF suiteVars, artifactVars, statusVars
<1>. QED
  BY <1>5, <1>6, <1>7, <1>8, <1>9, <1>10, <1>11, <1>12, <1>13, <1>14, <1>15,
     TestEndTracked, EnqueueTracked, AcceptTracked DEF StreamNext, reporter

-----------------------------------------------------------------------------
(* The inductive invariant, and the theorems *)

LEMMA InvStart == StreamInit => StreamInv
BY TypesStart, StagesStart, PutsStart, EntriesStart, TrackedStart DEF StreamInv, Tracked

LEMMA InvHolds ==
    ASSUME StreamInv, [StreamNext]_streamVars
    PROVE  StreamInv'
<1>1. CASE StreamNext
  <2>1. /\ StreamTypes /\ StagesFollow /\ ListsParallel /\ TasksTellApart
        /\ SemaphoreFits /\ PutsHaveTasks /\ EntriesFollow /\ Tracked
    BY DEF StreamInv, Tracked
  <2>2. StreamTypes' /\ StagesFollow'
    BY <1>1, <2>1, TypesHold, StagesHold
  <2>3. SemaphoreFits' /\ PutsHaveTasks' /\ ListsParallel'
    BY <1>1, <2>1, PutsHold
  <2>4. EntriesFollow' /\ Tracked'
    BY <1>1, <2>1, EntriesHold, TrackedHold
  <2>. QED BY <2>2, <2>3, <2>4 DEF StreamInv, Tracked
<1>2. CASE UNCHANGED streamVars
  <2>. USE <1>2 DEF streamVars, suiteVars, artifactVars, statusVars
  <2>1. StreamTypes'
    BY DEF StreamInv, StreamTypes
  <2>2. StagesFollow'
    BY DEF StreamInv, StagesFollow, EndAt, UploadIds
  <2>3. ListsParallel' /\ SemaphoreFits' /\ PutsHaveTasks'
    BY DEF StreamInv, ListsParallel, FilesToOwnRows, SemaphoreFits, PutsHaveTasks,
           PutsOf
  <2>4. Held(batcher)' = Held(batcher) /\ BatcherOnce(batcher)'
    BY DEF StreamInv, OnceOnTheWay, Held, BatcherOnce
  <2>5. Tracked'
    BY <2>4, StayedPut, SameUploads DEF StreamInv, Tracked
  <2>6. EntriesFollow'
    BY DEF StreamInv, EntriesFollow, LastEntry, EndAt
  <2>. QED BY <2>1, <2>2, <2>3, <2>5, <2>6 DEF StreamInv, Tracked
<1>. QED BY <1>1, <1>2

\* The reporter's inductive invariant: types, stages of the end, places of the
\* entries, counts and the semaphore, for any suite, serial groups, retries,
\* batch size and files.
THEOREM StreamInvariant == StreamSpec => []StreamInv
<1>. QED BY InvStart, InvHolds, PTL DEF StreamSpec

\* The summary line adds up: streamed, dropped, buffered and still on their
\* way are the entries made of the attempts that Playwright reported.
THEOREM EveryEntryIsCounted == StreamSpec => []SummaryAddsUp
<1>1. StreamInv => SummaryAddsUp
  <2>. SUFFICES ASSUME StreamInv PROVE SummaryAddsUp
    OBVIOUS
  <2>1. PICK A, B, C, R :
            A = Reported \ Way /\ B = Buffered /\ C = Unsettled /\ R = Reported
    OBVIOUS
  <2>2. C = enqueuing \cup Held(batcher)
    BY <2>1 DEF Unsettled, Chained, Held, ChainSet
  <2>3. B \cap C = {} /\ R = A \cup (B \cup C) /\ A \cap (B \cup C) = {}
    BY <2>1, <2>2 DEF StreamInv, OnceOnTheWay, Way
  <2>4. IsFiniteSet(A) /\ IsFiniteSet(B) /\ IsFiniteSet(C)
    <3>1. IsFiniteSet(R)
      BY <2>1, ReportedFinite DEF StreamInv
    <3>2. A \subseteq R /\ B \subseteq R /\ C \subseteq R
      BY <2>3
    <3>. QED BY <3>1, <3>2, FS_Subset
  <2>5. Cardinality(B \cup C) = Cardinality(B) + Cardinality(C) - Cardinality({})
        /\ IsFiniteSet(B \cup C)
    BY <2>3, <2>4, FS_Union
  <2>6. Cardinality(A \cup (B \cup C))
          = Cardinality(A) + Cardinality(B \cup C) - Cardinality({})
    BY <2>3, <2>4, <2>5, FS_Union
  <2>7. Cardinality({}) = 0 /\ Cardinality(A) \in Nat /\ Cardinality(B) \in Nat
        /\ Cardinality(C) \in Nat
    BY <2>4, FS_EmptySet, FS_CardinalityType
  <2>8. tally.streamed + tally.failed = Cardinality(A)
    BY <2>1 DEF StreamInv, CountsFollow
  <2>9. Cardinality(R) = Cardinality(A) + Cardinality(B) + Cardinality(C)
    BY <2>3, <2>5, <2>6, <2>7
  <2>10. Cardinality(pending) = Cardinality(B)
    BY <2>1, BufferedCount DEF StreamInv
  <2>11. tally.streamed + tally.failed + Cardinality(pending)
             + Cardinality(Unsettled) = Cardinality(Reported)
    BY <2>1, <2>7, <2>8, <2>9, <2>10
  <2>. QED BY <2>11 DEF SummaryAddsUp
<1>. QED BY <1>1, StreamInvariant, PTL

\* Unless its budget ran out, /complete is sent when no result, batch or upload
\* is on its way.
THEOREM CompleteIsLast == StreamSpec => []CompleteComesLast
<1>1. StreamInv => CompleteComesLast
  <2>. SUFFICES ASSUME StreamInv, EndAt("complete"), ~end.abandoned
                PROVE  pending = {} /\ Unsettled \cup UploadIds = {}
    BY DEF CompleteComesLast
  <2>1. pending = {} /\ enqueuing = {} /\ batcher.queue = <<>>
        /\ batcher.chain = <<>> /\ uploads = {}
    BY DEF StreamInv, StagesFollow, EndAt
  <2>. QED BY <2>1 DEF Unsettled, Chained, UploadIds, ToSet
<1>. QED BY <1>1, StreamInvariant, PTL

\* No more PUTs at once than the cap, over all batches, and no file waits while
\* a slot is free.
THEOREM CapOnPuts == StreamSpec => []PutsCapped
<1>1. StreamInv => PutsCapped
  BY DEF StreamInv, SemaphoreFits, SlotsFit, PutsCapped
<1>. QED BY <1>1, StreamInvariant, PTL

\* A file is put to the URL of its own row, whatever was dropped between the
\* two registrations.
THEOREM FilesGoToOwnRows == StreamSpec => []FilesToOwnRows
<1>1. StreamInv => FilesToOwnRows
  BY DEF StreamInv, ListsParallel
<1>. QED BY <1>1, StreamInvariant, PTL
=============================================================================
