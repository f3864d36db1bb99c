------------------------- MODULE GithubSurfaceProofs -------------------------
(***************************************************************************)
(* Proofs about GithubSurface, for any number of posters and runs and any  *)
(* time to live: claims overlap only when one has expired, and from that,  *)
(* what the row and the comments may show.                                 *)
(***************************************************************************)
EXTENDS GithubSurface, SetLemmas

RowRecord == [id : Nat, run : Runs \cup {0}, claim : 0 .. MaxTime]
PostedRecord == [live : BOOLEAN, maker : Posters, cause : Causes,
                 stray : BOOLEAN, body : BodyRecord]

-----------------------------------------------------------------------------
(* The inductive invariant *)

\* What a poster's record says of how far it went.
Holding(p) == post[p].claim # 0 /\ post[p].pc \notin Ended
PostersInStep ==
    \A p \in Posters :
        /\ post[p].req # "none" =>
               post[p].pc \in {"sent", "release", "failed", "dead"}
        /\ surface = "comment" /\ post[p].pc \in
               {"held", "list", "patch", "create", "sent", "persist"} =>
               post[p].claim # 0
        /\ surface = "comment" => post[p].pc # "readId"
        /\ post[p].pc # "new" => post[p].run # 0

\* A holder that lost the claim had outlived it, and so has what is there.
ClaimsFollow ==
    /\ row.claim <= clock
    /\ \A p \in Posters : Holding(p) =>
           /\ post[p].claim <= clock
           /\ \/ StillHeld(p)
              \/ /\ post[p].claim + ClaimTTL < clock
                 /\ row.claim = 0 \/ post[p].claim + ClaimTTL < row.claim

\* Under the mutex, nothing newer is recorded.
HolderIsNewest ==
    surface = "comment" =>
        \A p \in Posters :
            /\ post[p].pc \in {"list", "patch", "create", "sent", "persist"}
            /\ StillHeld(p)
            => row.run <= post[p].run

\* Under the mutex, a poster that found no comment creates one only where every
\* other is explained.
Creating(p) == \/ PosterAt(p, "create")
               \/ PosterAt(p, "sent") /\ post[p].req = "create"
CreatesTheFirst ==
    surface = "comment" =>
        \A p \in Posters : Creating(p) /\ StillHeld(p) /\ post[p].cause = "first" =>
            \A c \in Live : posted[c].stray \/ posted[c].cause # "first"

\* What was created in time is recorded, or about to be, or lost.
MakersMoved ==
    \A c \in DOMAIN posted : ~posted[c].stray =>
        LET m == posted[c].maker IN
        /\ post[m].claim # 0
        /\ post[m].pc \in {"persist", "done", "missed", "release", "failed",
                           "dead"}
CheckRecorded ==
    surface = "check" =>
        /\ row.id # 0 => row.claim = 0
        /\ \A c \in DOMAIN posted : Unexplained(c) =>
               LET m == posted[c].maker IN
               \/ row.id = c /\ PosterAt(m, "done")
               \/ /\ PosterAt(m, "persist") /\ StillHeld(m)
                  /\ post[m].target = c

\* What a comment shows is recorded, or about to be, or lost.
BodiesFollow ==
    surface = "comment" =>
        \A c \in DOMAIN posted :
            LET q == posted[c].body.by IN
            /\ posted[c].body.run = post[q].run
            /\ \/ post[q].pc \in {"persist", "release", "failed", "missed",
                                  "dead"}
               \/ PosterAt(q, "done") /\ posted[c].body.run <= row.run

SurfaceInv ==
    /\ SurfaceTypeOK
    /\ PostersInStep
    /\ ClaimsFollow
    /\ HoldersOverlapOnlyExpired
    /\ HolderIsNewest
    /\ CreatesTheFirst
    /\ OneOfEach
    /\ MakersMoved
    /\ CheckRecorded
    /\ BodiesFollow

-----------------------------------------------------------------------------
LEMMA Bounds ==
    /\ Surfaces \subseteq {"check", "comment"}
    /\ Runs \subseteq Nat \ {0}
    /\ \A n \in Runs \cup {0} : n \in Nat
    /\ ClaimTTL \in Nat /\ MaxRev \in Nat /\ MaxFaults \in Nat
    /\ MaxDeletes \in Nat /\ MaxTime \in Nat \ {0}
    /\ Attempts \in Nat \ {0}
BY SurfaceKinds, SurfaceRuns, SurfaceBounds

USE Bounds

LEMMA SurfaceInitInv == SurfaceInit => SurfaceInv
<1> SUFFICES ASSUME SurfaceInit PROVE SurfaceInv
  OBVIOUS
<1> USE DEF SurfaceInit
<1>1. SurfaceTypeOK
  <2>1. NewPoster \in PosterRecord
    BY DEF NewPoster, PosterRecord, Causes, Controls, Ended
  <2> QED  BY <2>1 DEF SurfaceTypeOK
<1>2. PostersInStep /\ ClaimsFollow /\ HoldersOverlapOnlyExpired
  BY DEF PostersInStep, ClaimsFollow, HoldersOverlapOnlyExpired, Holders,
         Holding, NewPoster
<1>3. HolderIsNewest /\ CreatesTheFirst
  BY DEF HolderIsNewest, CreatesTheFirst, Creating, PosterAt, NewPoster
<1>4. DOMAIN posted = {} /\ Live = {}
  BY DEF Live
<1>5. OneOfEach /\ MakersMoved /\ CheckRecorded /\ BodiesFollow
  BY <1>4 DEF OneOfEach, MakersMoved, CheckRecorded, BodiesFollow
<1> QED  BY <1>1, <1>2, <1>3, <1>5 DEF SurfaceInv

LEMMA PostedTypes ==
    ASSUME SurfaceTypeOK, NEW c \in DOMAIN posted
    PROVE  /\ posted[c] \in PostedRecord
           /\ c \in Nat \ {0}
           /\ posted[c].maker \in Posters
           /\ posted[c].body \in BodyRecord
           /\ posted[c].body.by \in Posters
<1>1. posted \in Seq(PostedRecord)
  BY DEF SurfaceTypeOK, PostedRecord
<1>2. DOMAIN posted = 1 .. Len(posted) /\ Len(posted) \in Nat
  BY <1>1
<1>3. posted[c] \in PostedRecord /\ c \in Nat \ {0}
  BY <1>1, <1>2
<1> QED  BY <1>3 DEF PostedRecord, BodyRecord

-----------------------------------------------------------------------------
(* Steps that change one poster's record and nothing it has written *)

\* Where a poster has not been answered.
Early == {"new", "context", "claim", "readId", "read", "held", "list",
          "patch", "create", "sent", "leave"}
Typed == /\ rev' \in [Runs -> 0 .. MaxRev]
         /\ faults' \in 0 .. MaxFaults

EarlyMove(p, r) ==
    /\ r \in PosterRecord
    /\ SetPoster(p, r) /\ Typed
    /\ UNCHANGED <<surface, clock, row, posted, deletes>>
    /\ post[p].pc \in Early
    /\ r.claim # 0 => r.claim = post[p].claim
    /\ r.run # 0
    /\ r.req # "none" => r.pc \in {"sent", "release", "failed", "dead"}
    /\ surface = "comment" =>
           /\ r.pc # "readId"
           /\ r.pc \in {"held", "list", "patch", "create", "sent",
                        "persist"} => r.claim # 0
           /\ r.pc \in {"list", "patch", "create", "sent", "persist"}
              /\ row.claim = r.claim => row.run <= r.run
           /\ (r.pc = "create" \/ (r.pc = "sent" /\ r.req = "create"))
              /\ row.claim = r.claim /\ r.cause = "first" =>
                 \A c \in Live : posted[c].stray \/ posted[c].cause # "first"

LEMMA EarlyStep ==
    ASSUME SurfaceInv, NEW p \in Posters, NEW r, EarlyMove(p, r)
    PROVE  SurfaceInv'
<1> USE DEF SurfaceInv, EarlyMove
<1>1. /\ post \in [Posters -> PosterRecord]
      /\ post' = [post EXCEPT ![p] = r]
      /\ post' \in [Posters -> PosterRecord]
      /\ \A q \in Posters : q # p => post'[q] = post[q]
      /\ post'[p] = r
  BY DEF SurfaceTypeOK, SetPoster
<1>2. SurfaceTypeOK'
  BY <1>1 DEF SurfaceTypeOK, Typed
<1>3. PostersInStep'
  BY <1>1 DEF PostersInStep
<1>4. \A q \in Posters : Holding(q)' =>
          Holding(q) /\ post'[q].claim = post[q].claim
  BY <1>1 DEF Holding, Early, Ended
<1>5. ClaimsFollow'
  BY <1>1, <1>4 DEF ClaimsFollow, StillHeld
<1>6. HoldersOverlapOnlyExpired'
  BY <1>1, <1>4 DEF HoldersOverlapOnlyExpired, Holders, Holding
<1>7. HolderIsNewest'
  BY <1>1 DEF HolderIsNewest, StillHeld
<1>8. CreatesTheFirst'
  BY <1>1 DEF CreatesTheFirst, Creating, PosterAt, StillHeld, Live
<1>9. \A c \in DOMAIN posted : /\ posted[c].maker \in Posters
                               /\ posted[c].body.by \in Posters
  BY PostedTypes
<1>10. \A c \in DOMAIN posted :
           ~posted[c].stray => posted[c].maker \in Posters \ {p}
  BY <1>1, <1>9 DEF MakersMoved, Early
<1>11. \A c \in DOMAIN posted : Unexplained(c)' <=> Unexplained(c)
  BY <1>1, <1>10 DEF Unexplained, Strayed, StillHeld
<1>12. OneOfEach' /\ MakersMoved' /\ CheckRecorded'
  <2>1. OneOfEach'
    BY <1>11 DEF OneOfEach, Live
  <2>2. MakersMoved'
    BY <1>1, <1>10 DEF MakersMoved
  <2>3. CheckRecorded'
    BY <1>1, <1>10, <1>11 DEF CheckRecorded, Unexplained, PosterAt, StillHeld
  <2> QED  BY <2>1, <2>2, <2>3
<1>13. BodiesFollow'
  <2>1. surface = "comment" =>
            \A c \in DOMAIN posted : posted[c].body.by # p
    BY DEF BodiesFollow, PosterAt, Early
  <2> QED  BY <1>1, <1>9, <2>1 DEF BodiesFollow, PosterAt
<1> QED  BY <1>2, <1>3, <1>5, <1>6, <1>7, <1>8, <1>12, <1>13

\* Where a poster may have been served and will not record what it wrote.
Lost == {"release", "failed", "missed", "dead"}

LossMove(p, r) ==
    /\ r \in PosterRecord
    /\ SetPoster(p, r) /\ Typed
    /\ UNCHANGED <<surface, clock, row, posted, deletes>>
    /\ post[p].pc \in Lost \cup {"persist"}
    /\ r.pc \in Lost
    /\ r.pc \notin Ended => post[p].pc \notin Ended
    /\ r.req # "none" => r.req = post[p].req /\ r.pc # "missed"
    /\ r.claim = post[p].claim /\ r.run = post[p].run

LEMMA LossStep ==
    ASSUME SurfaceInv, NEW p \in Posters, NEW r, LossMove(p, r)
    PROVE  SurfaceInv'
<1> USE DEF SurfaceInv, Lost, LossMove
<1>1. /\ post \in [Posters -> PosterRecord]
      /\ post' = [post EXCEPT ![p] = r]
      /\ post' \in [Posters -> PosterRecord]
      /\ \A q \in Posters : q # p => post'[q] = post[q]
      /\ post'[p] = r
  BY DEF SurfaceTypeOK, SetPoster
<1>2. SurfaceTypeOK'
  BY <1>1 DEF SurfaceTypeOK, Typed
<1>3. PostersInStep'
  BY <1>1 DEF PostersInStep
<1>4. \A q \in Posters : Holding(q)' =>
          Holding(q) /\ post'[q].claim = post[q].claim
  BY <1>1 DEF Holding, Ended
<1>5. ClaimsFollow'
  BY <1>1, <1>4 DEF ClaimsFollow, StillHeld
<1>6. HoldersOverlapOnlyExpired'
  BY <1>1, <1>4 DEF HoldersOverlapOnlyExpired, Holders, Holding
<1>7. HolderIsNewest' /\ CreatesTheFirst'
  BY <1>1 DEF HolderIsNewest, CreatesTheFirst, Creating, PosterAt, StillHeld,
              Live
<1>8. \A c \in DOMAIN posted : /\ posted[c].maker \in Posters
                               /\ posted[c].body.by \in Posters
  BY PostedTypes
<1>9. \A c \in DOMAIN posted : Unexplained(c)' => Unexplained(c)
  BY <1>1, <1>8 DEF Unexplained, Strayed, StillHeld
<1>10. OneOfEach'
  BY <1>9 DEF OneOfEach, Live
<1>11. MakersMoved'
  BY <1>1, <1>8 DEF MakersMoved
<1>12. CheckRecorded'
  BY <1>1, <1>8, <1>9 DEF CheckRecorded, Unexplained, Strayed, PosterAt,
                          StillHeld
<1>13. BodiesFollow'
  BY <1>1, <1>8 DEF BodiesFollow, PosterAt
<1> QED  BY <1>2, <1>3, <1>5, <1>6, <1>7, <1>10, <1>11, <1>12, <1>13

USE DEF PosterRecord, Causes

LEMMA RecordOf ==
    ASSUME SurfaceTypeOK, NEW p \in Posters
    PROVE  post[p] \in PosterRecord
BY DEF SurfaceTypeOK

LEMMA NewPosterType == NewPoster \in PosterRecord
BY DEF NewPoster, Controls, Ended

LEMMA TryAgainType ==
    ASSUME NEW s \in PosterRecord
    PROVE  TryAgain(s) \in PosterRecord
<1>1. s.attempt + 1 < Attempts => s.attempt + 1 \in 0 .. Attempts - 1
  OBVIOUS
<1> QED  BY <1>1 DEF Controls, Ended, TryAgain

LEMMA ReadSteps ==
    ASSUME SurfaceInv, NEW p \in Posters,
           \/ \E n \in Runs : completed(p, n)
           \/ resolveContext(p) \/ readId(p) \/ readSticky(p)
           \/ rereadSticky(p)
    PROVE  SurfaceInv'
<1> USE DEF Controls, Ended, Early, PosterAt, Typed
<1>0. SurfaceTypeOK /\ post[p] \in PosterRecord /\ PostersInStep
  BY RecordOf DEF SurfaceInv
<1>a. row.id \in Nat /\ row.run \in Nat /\ post[p].run \in Nat
  BY <1>0 DEF SurfaceTypeOK
<1>1. ASSUME NEW n \in Runs, completed(p, n) PROVE SurfaceInv'
  <2> DEFINE r == [NewPoster EXCEPT !.pc = "context", !.run = n]
  <2>1. r \in PosterRecord
    BY NewPosterType
  <2>2. SetPoster(p, r) /\ post[p].pc = "new"
    BY <1>1 DEF completed
  <2>3. Typed
    <3>1. rev \in [Runs -> 0 .. MaxRev] /\ rev[n] \in 0 .. MaxRev
      BY <1>0 DEF SurfaceTypeOK
    <3>2. /\ rev[n] < MaxRev
          /\ rev' = [rev EXCEPT ![n] = @ + 1] /\ faults' = faults
      BY <1>1 DEF completed
    <3>3. rev[n] + 1 \in 0 .. MaxRev
      BY <3>1, <3>2
    <3> QED  BY <1>0, <3>1, <3>2, <3>3 DEF SurfaceTypeOK
  <2>4. r.pc = "context" /\ r.claim = 0 /\ r.req = "none" /\ r.run # 0
    BY DEF NewPoster
  <2> HIDE DEF r
  <2> EarlyMove(p, r)
    BY <1>1, <2>1, <2>2, <2>3, <2>4 DEF completed, EarlyMove
  <2> QED  BY EarlyStep
<1>2. CASE resolveContext(p)
  <2> DEFINE s == [post[p] EXCEPT !.rev = rev[post[p].run]]
             r == IF surface = "comment" THEN [s EXCEPT !.pc = "read"]
                  ELSE IF row.id = 0 THEN [s EXCEPT !.pc = "claim"]
                  ELSE [s EXCEPT !.pc = "patch", !.target = row.id]
  <2>1. post[p].run \in Runs
    BY <1>0, <1>2 DEF PostersInStep, resolveContext
  <2>2. rev[post[p].run] \in 0 .. MaxRev /\ row.id \in Nat
    BY <1>0, <1>a, <2>1 DEF SurfaceTypeOK
  <2>3. r \in PosterRecord
    BY <1>0, <2>2
  <2>4. /\ r.pc \in {"read", "claim", "patch"}
        /\ surface = "comment" => r.pc = "read"
        /\ r.claim = post[p].claim /\ r.req = post[p].req
        /\ r.run = post[p].run
    BY <1>0
  <2>5. SetPoster(p, r) /\ post[p].pc = "context" /\ Typed
    BY <1>0, <1>2 DEF resolveContext, SurfaceTypeOK
  <2> HIDE DEF r
  <2> EarlyMove(p, r)
    BY <1>0, <1>2, <2>3, <2>4, <2>5 DEF resolveContext, PostersInStep, EarlyMove
  <2> QED  BY EarlyStep
<1>3. CASE readId(p)
  <2> DEFINE r == IF row.id = 0 THEN [post[p] EXCEPT !.pc = "skipped"]
                  ELSE [post[p] EXCEPT !.pc = "patch", !.target = row.id]
  <2>1. r \in PosterRecord
    BY <1>0 DEF SurfaceTypeOK
  <2>2. /\ r.pc \in {"skipped", "patch"}
        /\ r.claim = post[p].claim /\ r.req = post[p].req
        /\ r.run = post[p].run
    BY <1>0
  <2>3. SetPoster(p, r) /\ post[p].pc = "readId" /\ Typed
    BY <1>0, <1>3 DEF readId, SurfaceTypeOK
  <2> HIDE DEF r
  <2> EarlyMove(p, r)
    BY <1>0, <1>3, <2>1, <2>2, <2>3 DEF readId, PostersInStep, EarlyMove
  <2> QED  BY EarlyStep
<1>4. CASE readSticky(p)
  <2> DEFINE s == [post[p] EXCEPT !.initial = IF @ = -1 THEN row.run ELSE @]
             r == [s EXCEPT !.pc = IF Superseded(s, row.run)
                                   THEN "skipped" ELSE "claim"]
  <2>1. /\ s \in PosterRecord
        /\ s.claim = post[p].claim /\ s.req = post[p].req
        /\ s.run = post[p].run
    <3>1. row.run \in Runs \cup {0}
      BY <1>0 DEF SurfaceTypeOK
    <3> QED  BY <1>0, <3>1
  <2>2. /\ r \in PosterRecord
        /\ r.pc \in {"skipped", "claim"}
        /\ r.claim = post[p].claim /\ r.req = post[p].req
        /\ r.run = post[p].run
    <3> DEFINE label == IF Superseded(s, row.run) THEN "skipped" ELSE "claim"
    <3>1. label \in {"skipped", "claim"}
      OBVIOUS
    <3> HIDE DEF s, label
    <3>2. [s EXCEPT !.pc = label] \in PosterRecord
      BY <2>1, <3>1
    <3>3. r = [s EXCEPT !.pc = label]
      BY DEF label
    <3> HIDE DEF r
    <3> QED  BY <2>1, <3>1, <3>2, <3>3
  <2>4. SetPoster(p, r) /\ post[p].pc = "read" /\ Typed
    BY <1>0, <1>4 DEF readSticky, SurfaceTypeOK
  <2> HIDE DEF r
  <2> EarlyMove(p, r)
    BY <1>0, <1>4, <2>2, <2>4 DEF readSticky, PostersInStep, EarlyMove
  <2> QED  BY EarlyStep
<1>5. CASE rereadSticky(p)
  <2> DEFINE r == IF PassedMeanwhile(post[p], row.run)
                  THEN [post[p] EXCEPT !.pc = "leave"]
                  ELSE [post[p] EXCEPT !.pc = FirstRequest(row.id),
                                       !.target = row.id]
  <2>1. FirstRequest(row.id) \in {"list", "patch"} /\ row.id \in Nat
    BY <1>a DEF FirstRequest
  <2>2. r \in PosterRecord
    BY <1>0, <2>1
  <2>3. /\ r.pc \in {"leave", "list", "patch"}
        /\ r.pc # "leave" => row.run <= r.run
        /\ r.claim = post[p].claim /\ r.req = post[p].req
        /\ r.run = post[p].run
    BY <1>0, <1>a, <2>1 DEF PassedMeanwhile, Superseded
  <2>4. SetPoster(p, r) /\ post[p].pc = "held" /\ Typed
    BY <1>0, <1>5 DEF rereadSticky, SurfaceTypeOK
  <2> HIDE DEF r
  <2> EarlyMove(p, r)
    BY <1>0, <1>5, <2>2, <2>3, <2>4 DEF rereadSticky, PostersInStep, EarlyMove
  <2> QED  BY EarlyStep
<1> QED  BY <1>1, <1>2, <1>3, <1>4, <1>5

\* Whether the listing shows the comment or not, the request is next, and
\* only a poster that found no comment there creates the first.
LEMMA ListingMoves ==
    ASSUME SurfaceTypeOK, NEW p \in Posters, findMarkerComment(p)
    PROVE  \E r \in PosterRecord :
              /\ post' = [post EXCEPT ![p] = r]
              /\ r.pc \in {"create", "patch"}
              /\ r.pc = "create" /\ r.cause = "first" => Live = {}
              /\ r.claim = post[p].claim /\ r.req = post[p].req
              /\ r.run = post[p].run
<1>0. post[p] \in PosterRecord
  BY RecordOf
<1>1. Live # {} => Min(Live) \in Nat
  <2>1. \A c \in Live : c \in Nat
    BY PostedTypes DEF Live
  <2> QED  BY <2>1, MinIn
<1>2. CASE /\ Live # {}
           /\ SetPoster(p, [post[p] EXCEPT !.pc = "patch",
                                           !.target = Min(Live)])
  <2> DEFINE r == [post[p] EXCEPT !.pc = "patch", !.target = Min(Live)]
  <2>1. /\ r \in PosterRecord /\ r.pc = "patch"
        /\ r.claim = post[p].claim /\ r.req = post[p].req
        /\ r.run = post[p].run
    BY <1>0, <1>1, <1>2 DEF Controls, Ended
  <2>2. post' = [post EXCEPT ![p] = r]
    BY <1>2 DEF SetPoster
  <2> HIDE DEF r
  <2> QED  BY <2>1, <2>2
<1>3. CASE SetPoster(p, [post[p] EXCEPT !.pc = "create",
                        !.cause = IF Live = {} THEN "first" ELSE "unseen"])
  <2> DEFINE r == [post[p] EXCEPT !.pc = "create",
                      !.cause = IF Live = {} THEN "first" ELSE "unseen"]
  <2>1. /\ r \in PosterRecord /\ r.pc = "create"
        /\ r.cause = "first" => Live = {}
        /\ r.claim = post[p].claim /\ r.req = post[p].req
        /\ r.run = post[p].run
    BY <1>0 DEF Controls, Ended
  <2>2. post' = [post EXCEPT ![p] = r]
    BY <1>3 DEF SetPoster
  <2> HIDE DEF r
  <2> QED  BY <2>1, <2>2
<1> QED  BY <1>2, <1>3 DEF findMarkerComment

LEMMA RequestSteps ==
    ASSUME SurfaceInv, NEW p \in Posters,
           findMarkerComment(p) \/ sendRequest(p) \/ patchMissed(p)
    PROVE  SurfaceInv'
<1> USE DEF Controls, Ended, Early, PosterAt, Typed
<1>0. SurfaceTypeOK /\ post[p] \in PosterRecord /\ PostersInStep
  BY RecordOf DEF SurfaceInv
<1>a. /\ row.run \in Nat /\ post[p].run \in Nat
      /\ rev \in [Runs -> 0 .. MaxRev] /\ faults \in 0 .. MaxFaults
  BY <1>0 DEF SurfaceTypeOK
<1>b. surface = "comment" /\ StillHeld(p)
      /\ post[p].pc \in {"list", "patch", "create", "sent"} =>
          row.run <= post[p].run
  BY DEF SurfaceInv, HolderIsNewest
<1>1. CASE findMarkerComment(p)
  <2>2. PICK r \in PosterRecord :
          /\ post' = [post EXCEPT ![p] = r]
          /\ r.pc \in {"create", "patch"}
          /\ r.pc = "create" /\ r.cause = "first" => Live = {}
          /\ r.claim = post[p].claim /\ r.req = post[p].req
          /\ r.run = post[p].run
    BY <1>0, <1>1, ListingMoves
  <2>4. SetPoster(p, r) /\ post[p].pc = "list" /\ Typed
    BY <1>1, <1>a, <2>2 DEF findMarkerComment, SetPoster
  <2> EarlyMove(p, r)
    BY <1>0, <1>1, <1>b, <2>2, <2>4
       DEF findMarkerComment, PostersInStep, EarlyMove, StillHeld
  <2> QED  BY EarlyStep
<1>2. CASE sendRequest(p)
  <2> DEFINE r == [post[p] EXCEPT !.pc = "sent", !.req = post[p].pc]
  <2>1. r \in PosterRecord
    BY <1>0, <1>2 DEF sendRequest
  <2>2. /\ r.pc = "sent" /\ r.req = post[p].pc /\ r.claim = post[p].claim
        /\ r.run = post[p].run /\ r.cause = post[p].cause
    BY <1>0
  <2>3. SetPoster(p, r) /\ post[p].pc \in {"patch", "create"} /\ Typed
    BY <1>2, <1>a DEF sendRequest
  <2>4. surface = "comment" /\ post[p].pc = "create" /\ StillHeld(p)
        /\ post[p].cause = "first" =>
            \A c \in Live : posted[c].stray \/ posted[c].cause # "first"
    BY DEF SurfaceInv, CreatesTheFirst, Creating
  <2> HIDE DEF r
  <2> EarlyMove(p, r)
    BY <1>0, <1>2, <1>b, <2>1, <2>2, <2>3, <2>4
       DEF sendRequest, PostersInStep, EarlyMove, StillHeld
  <2> QED  BY EarlyStep
<1>3. CASE patchMissed(p) /\ Waiting(p)
  <2> DEFINE r == [post[p] EXCEPT !.pc = "create", !.req = "none",
                                  !.target = 0, !.cause = "deleted"]
  <2>1. r \in PosterRecord
    BY <1>0
  <2>2. /\ r.pc = "create" /\ r.req = "none" /\ r.claim = post[p].claim
        /\ r.run = post[p].run /\ r.cause = "deleted"
    BY <1>0
  <2>3. SetPoster(p, r) /\ post[p].pc = "sent" /\ Typed
    BY <1>3, <1>a DEF patchMissed, Waiting
  <2> HIDE DEF r
  <2> EarlyMove(p, r)
    BY <1>0, <1>3, <1>b, <2>1, <2>2, <2>3
       DEF patchMissed, PostersInStep, EarlyMove, StillHeld
  <2> QED  BY EarlyStep
<1>4. CASE patchMissed(p) /\ ~Waiting(p)
  <2> DEFINE r == [post[p] EXCEPT !.req = "none"]
  <2>1. r \in PosterRecord
    BY <1>0
  <2>2. /\ r.pc = post[p].pc /\ r.req = "none" /\ r.claim = post[p].claim
        /\ r.run = post[p].run
    BY <1>0
  <2>3. SetPoster(p, r) /\ Typed
    BY <1>4, <1>a DEF patchMissed
  <2>4. post[p].pc \in {"release", "failed", "dead"}
    BY <1>0, <1>4 DEF patchMissed, Waiting, PostersInStep
  <2> HIDE DEF r
  <2> LossMove(p, r)
    BY <1>4, <2>1, <2>2, <2>3, <2>4 DEF patchMissed, LossMove, Lost
  <2> QED  BY LossStep
<1> QED  BY <1>1, <1>2, <1>3, <1>4

LEMMA FaultSteps ==
    ASSUME SurfaceInv, NEW p \in Posters, requestFails(p) \/ posterDies(p)
    PROVE  SurfaceInv'
<1> USE DEF Controls, Ended, Early, PosterAt, Typed, GoTo
<1>0. SurfaceTypeOK /\ post[p] \in PosterRecord /\ PostersInStep
  BY RecordOf DEF SurfaceInv
<1> DEFINE r == [post[p] EXCEPT !.pc = IF requestFails(p) THEN "release"
                                       ELSE "dead"]
<1>1. r \in PosterRecord
  BY <1>0
<1>2. /\ r.pc \in {"release", "dead"} /\ r.req = post[p].req
      /\ r.claim = post[p].claim /\ r.run = post[p].run
      /\ r.pc = "release" => requestFails(p)
  BY <1>0
<1>3. /\ SetPoster(p, r)
      /\ UNCHANGED <<surface, clock, rev, row, posted, deletes>>
      /\ post[p].pc \in Early \cup {"persist", "release"}
      /\ post[p].pc # "new"
      /\ requestFails(p) => post[p].pc \in {"list", "sent", "persist"}
  BY <1>0 DEF requestFails, posterDies
<1>4. Typed
  <2>1. rev \in [Runs -> 0 .. MaxRev] /\ faults \in 0 .. MaxFaults
    BY <1>0 DEF SurfaceTypeOK
  <2>2. faults < MaxFaults /\ faults' = faults + 1
    BY DEF requestFails, posterDies
  <2> QED  BY <1>3, <2>1, <2>2
<1> HIDE DEF r
<1>5. CASE post[p].pc \in Early
  <2>1. r.run # 0
    BY <1>0, <1>2, <1>3 DEF PostersInStep
  <2> EarlyMove(p, r)
    BY <1>1, <1>2, <1>3, <1>4, <1>5, <2>1 DEF EarlyMove
  <2> QED  BY EarlyStep
<1>6. CASE post[p].pc \in {"persist", "release"}
  <2> LossMove(p, r)
    BY <1>1, <1>2, <1>3, <1>4, <1>6 DEF LossMove, Lost
  <2> QED  BY LossStep
<1> QED  BY <1>3, <1>5, <1>6

-----------------------------------------------------------------------------
(* Claims, the time and deletions *)

LEMMA ClaimWon ==
    ASSUME SurfaceInv, NEW p \in Posters, ClaimFree,
           row' = [row EXCEPT !.claim = clock],
           \/ /\ surface = "check" /\ row.id = 0
              /\ SetPoster(p, [post[p] EXCEPT !.pc = "create",
                                              !.claim = clock])
           \/ /\ surface = "comment"
              /\ SetPoster(p, [post[p] EXCEPT !.pc = "held",
                                              !.claim = clock]),
           PosterAt(p, "claim"),
           UNCHANGED <<surface, clock, rev, posted, faults, deletes>>
    PROVE  SurfaceInv'
<1> USE DEF PosterAt
<1>0. /\ SurfaceTypeOK /\ post[p] \in PosterRecord /\ PostersInStep
      /\ ClaimsFollow
  BY RecordOf DEF SurfaceInv
<1> DEFINE r == [post[p] EXCEPT
                    !.pc = IF surface = "check" THEN "create" ELSE "held",
                    !.claim = clock]
<1>1. /\ post \in [Posters -> PosterRecord]
      /\ post' = [post EXCEPT ![p] = r]
      /\ r \in PosterRecord
      /\ r.pc = IF surface = "check" THEN "create" ELSE "held"
      /\ r.claim = clock /\ r.req = post[p].req /\ r.run = post[p].run
  <2>1. post \in [Posters -> PosterRecord]
    BY <1>0 DEF SurfaceTypeOK
  <2>a. clock \in 1 .. MaxTime
    BY <1>0 DEF SurfaceTypeOK
  <2>b. clock \in 0 .. MaxTime
    BY <2>a
  <2>2. r \in PosterRecord
    BY <1>0, <2>b DEF Controls
  <2>3. post' = [post EXCEPT ![p] = r]
    BY DEF SetPoster
  <2> QED  BY <1>0, <2>1, <2>2, <2>3
<1> HIDE DEF r
<1>2. /\ post' \in [Posters -> PosterRecord]
      /\ \A q \in Posters : q # p => post'[q] = post[q]
      /\ post'[p] = r
  BY <1>1
<1>3. /\ row \in RowRecord /\ row' \in RowRecord /\ row'.claim = clock
      /\ row'.id = row.id /\ row'.run = row.run
      /\ clock \in Nat \ {0} /\ clock <= MaxTime
      /\ row.claim = 0 \/ row.claim + ClaimTTL < clock
  <2>1. row.claim \in Nat /\ clock \in 1 .. MaxTime
    BY <1>0 DEF SurfaceTypeOK
  <2>2. row \in RowRecord
    BY <1>0 DEF SurfaceTypeOK, RowRecord
  <2> QED  BY <2>1, <2>2 DEF RowRecord, ClaimFree
<1>4. SurfaceTypeOK'
  BY <1>0, <1>2, <1>3 DEF SurfaceTypeOK, RowRecord
<1>5. PostersInStep'
  BY <1>0, <1>1, <1>2, <1>3 DEF PostersInStep
<1>6. \A q \in Posters : q # p =>
          /\ Holding(q)' <=> Holding(q)
          /\ Holding(q) => post[q].claim + ClaimTTL < clock
          /\ post[q].claim \in Nat
  <2> TAKE q \in Posters
  <2>1. post[q].claim \in Nat
    BY <1>1
  <2>2. Holding(q) => post[q].claim + ClaimTTL < clock
    BY <1>0, <1>3, <2>1 DEF ClaimsFollow, StillHeld, Holding
  <2> QED  BY <1>2, <2>1, <2>2 DEF Holding
<1>7. ClaimsFollow'
  BY <1>1, <1>2, <1>3, <1>6 DEF ClaimsFollow, StillHeld
<1>8. HoldersOverlapOnlyExpired'
  <2>1. HoldersOverlapOnlyExpired
    BY DEF SurfaceInv
  <2> QED  BY <1>1, <1>2, <1>6, <2>1
           DEF HoldersOverlapOnlyExpired, Holders, Holding
\* Whoever held the row before does not any more.
<1>9. \A q \in Posters : q # p /\ Holding(q) => ~StillHeld(q)'
  BY <1>2, <1>3, <1>6 DEF StillHeld
<1>10. HolderIsNewest' /\ CreatesTheFirst'
  <2>1. \A q \in Posters :
            surface = "comment" /\ post'[q].pc \in
                {"list", "patch", "create", "sent", "persist"}
            => q # p /\ Holding(q)
    BY <1>0, <1>1, <1>2 DEF PostersInStep, Holding, Ended
  <2> QED  BY <1>9, <2>1 DEF HolderIsNewest, CreatesTheFirst, Creating
<1>11. \A c \in DOMAIN posted :
          /\ posted[c].maker \in Posters /\ posted[c].body.by \in Posters
          /\ c # 0
          /\ ~posted[c].stray => posted[c].maker # p
          /\ surface = "comment" => posted[c].body.by # p
  <2>1. \A c \in DOMAIN posted : /\ posted[c].maker \in Posters
                                 /\ posted[c].body.by \in Posters
                                 /\ c # 0
    BY <1>0, PostedTypes
  <2>2. MakersMoved /\ BodiesFollow
    BY DEF SurfaceInv
  <2> QED  BY <2>1, <2>2 DEF MakersMoved, BodiesFollow
<1>12. MakersMoved'
  <2>1. MakersMoved
    BY DEF SurfaceInv
  <2> QED  BY <1>2, <1>11, <2>1 DEF MakersMoved
<1>13. ASSUME NEW c \in DOMAIN posted, Unexplained(c)'
       PROVE  Unexplained(c) /\ surface = "comment"
  <2> DEFINE m == posted[c].maker
  <2>1. CASE surface = "comment"
    BY <1>13, <2>1 DEF Unexplained
  <2>2. CASE surface # "comment"
    <3>1. ~posted[c].stray /\ m \in Posters \ {p} /\ ~Strayed(m)'
      BY <1>11, <1>13, <2>2 DEF Unexplained
    <3>2. /\ post[m].claim # 0
          /\ post[m].pc \in {"persist", "done", "missed", "release",
                             "failed", "dead"}
      BY <3>1 DEF SurfaceInv, MakersMoved
    <3>3. post[m].pc # "persist"
      BY <1>2, <1>9, <3>1, <3>2 DEF Strayed, Holding, Ended
    <3>4. ~Strayed(m)
      BY <1>2, <3>1, <3>2, <3>3 DEF Strayed
    <3>5. Unexplained(c) /\ surface = "check"
      BY <1>0, <2>2, <3>1, <3>4 DEF Unexplained, SurfaceTypeOK
    <3>6. row.id = c
      BY <3>3, <3>5 DEF SurfaceInv, CheckRecorded
    <3> QED  BY <1>11, <3>5, <3>6
  <2> QED  BY <2>1, <2>2
<1>14. OneOfEach' /\ CheckRecorded'
  <2>1. OneOfEach
    BY DEF SurfaceInv
  <2>2. surface = "check" => row'.id = 0
    BY <1>3
  <2> QED  BY <1>13, <2>1, <2>2 DEF OneOfEach, CheckRecorded, Live
<1>15. BodiesFollow'
  <2>1. BodiesFollow
    BY DEF SurfaceInv
  <2> QED  BY <1>2, <1>3, <1>11, <2>1 DEF BodiesFollow
<1> QED  BY <1>4, <1>5, <1>7, <1>8, <1>10, <1>12, <1>14, <1>15
         DEF SurfaceInv

LEMMA ClaimSteps ==
    ASSUME SurfaceInv, NEW p \in Posters,
           claimCheckRunSlot(p) \/ claimPrCommentSlot(p)
    PROVE  SurfaceInv'
<1> USE DEF PosterAt
<1>0. SurfaceTypeOK /\ post[p] \in PosterRecord /\ PostersInStep
  BY RecordOf DEF SurfaceInv
<1>1. CASE claimCheckRunSlot(p) /\ row.id = 0 /\ ClaimFree
  BY <1>1, ClaimWon DEF claimCheckRunSlot
<1>2. CASE claimPrCommentSlot(p) /\ ClaimFree
  BY <1>2, ClaimWon DEF claimPrCommentSlot
<1>3. CASE claimCheckRunSlot(p) /\ ~(row.id = 0 /\ ClaimFree)
  <2> DEFINE r == [post[p] EXCEPT !.pc = "readId"]
  <2>1. r \in PosterRecord
    BY <1>0 DEF Controls
  <2>2. /\ r.pc = "readId" /\ r.claim = post[p].claim
        /\ r.req = post[p].req /\ r.run = post[p].run
    BY <1>0
  <2>3. /\ SetPoster(p, r) /\ Typed /\ surface = "check"
        /\ post[p].pc = "claim"
        /\ UNCHANGED <<surface, clock, row, posted, deletes>>
    BY <1>0, <1>3 DEF claimCheckRunSlot, GoTo, Typed, SurfaceTypeOK
  <2> HIDE DEF r
  <2> EarlyMove(p, r)
    BY <1>0, <2>1, <2>2, <2>3 DEF PostersInStep, EarlyMove, Early
  <2> QED  BY EarlyStep
<1>4. CASE claimPrCommentSlot(p) /\ ~ClaimFree
  <2> DEFINE r == TryAgain(post[p])
  <2>1. r \in PosterRecord
    BY <1>0, TryAgainType
  <2>2. /\ r.pc \in {"read", "busy"} /\ r.claim = post[p].claim
        /\ r.req = post[p].req /\ r.run = post[p].run
    BY <1>0 DEF TryAgain
  <2>3. /\ SetPoster(p, r) /\ Typed /\ post[p].pc = "claim"
        /\ UNCHANGED <<surface, clock, row, posted, deletes>>
    BY <1>0, <1>4 DEF claimPrCommentSlot, Typed, SurfaceTypeOK
  <2> HIDE DEF r
  <2> EarlyMove(p, r)
    BY <1>0, <2>1, <2>2, <2>3 DEF PostersInStep, EarlyMove, Early
  <2> QED  BY EarlyStep
<1> QED  BY <1>1, <1>2, <1>3, <1>4

LEMMA TickStep == SurfaceInv /\ surfaceTick => SurfaceInv'
<1> SUFFICES ASSUME SurfaceInv, surfaceTick PROVE SurfaceInv'
  OBVIOUS
<1>1. /\ clock < MaxTime /\ clock' = clock + 1
      /\ UNCHANGED <<surface, rev, row, posted, post, faults, deletes>>
  BY DEF surfaceTick
<1>2. clock \in 1 .. MaxTime /\ row.claim \in 0 .. MaxTime
  BY DEF SurfaceInv, SurfaceTypeOK
<1>3. clock' \in 1 .. MaxTime
  BY <1>1, <1>2
<1>4. SurfaceTypeOK'
  BY <1>1, <1>3 DEF SurfaceInv, SurfaceTypeOK
<1>5. PostersInStep' /\ HolderIsNewest' /\ HoldersOverlapOnlyExpired'
  BY <1>1 DEF SurfaceInv, PostersInStep, HolderIsNewest, StillHeld,
              HoldersOverlapOnlyExpired, Holders
<1>6. ClaimsFollow'
  <2>1. \A p \in Posters : post[p].claim \in 0 .. MaxTime
    BY RecordOf DEF SurfaceInv
  <2> QED  BY <1>1, <1>2, <2>1
           DEF SurfaceInv, ClaimsFollow, Holding, StillHeld
<1>7. CreatesTheFirst' /\ MakersMoved' /\ BodiesFollow'
  BY <1>1 DEF SurfaceInv, CreatesTheFirst, Creating, PosterAt, StillHeld,
              Live, MakersMoved, BodiesFollow
<1>8. OneOfEach' /\ CheckRecorded'
  BY <1>1 DEF SurfaceInv, OneOfEach, CheckRecorded, Unexplained, Strayed,
              PosterAt, StillHeld, Live
<1> QED  BY <1>4, <1>5, <1>6, <1>7, <1>8 DEF SurfaceInv

LEMMA DeleteStep ==
    ASSUME SurfaceInv, NEW c \in DOMAIN posted, commentDeleted(c)
    PROVE  SurfaceInv'
<1>0. SurfaceTypeOK
  BY DEF SurfaceInv
<1>1. /\ surface = "comment" /\ deletes < MaxDeletes
      /\ deletes' = deletes + 1
      /\ posted' = [posted EXCEPT ![c].live = FALSE]
      /\ UNCHANGED <<surface, clock, rev, row, post, faults>>
  BY DEF commentDeleted
<1>2. posted \in Seq(PostedRecord) /\ deletes \in 0 .. MaxDeletes
  BY <1>0 DEF SurfaceTypeOK, PostedRecord
<1>3. posted[c] \in PostedRecord
  BY <1>0, PostedTypes
<1>4. /\ posted' \in Seq(PostedRecord)
      /\ DOMAIN posted' = DOMAIN posted
      /\ \A d \in DOMAIN posted :
            /\ posted'[d].live => posted[d].live
            /\ posted'[d].maker = posted[d].maker
            /\ posted'[d].cause = posted[d].cause
            /\ posted'[d].stray = posted[d].stray
            /\ posted'[d].body = posted[d].body
  <2>1. [posted[c] EXCEPT !.live = FALSE] \in PostedRecord
    BY <1>3 DEF PostedRecord
  <2>2. posted' = [posted EXCEPT ![c] = [posted[c] EXCEPT !.live = FALSE]]
    BY <1>1
  <2>3. posted' \in Seq(PostedRecord)
    BY <1>2, <2>1, <2>2
  <2>4. /\ DOMAIN posted' = DOMAIN posted
        /\ posted'[c] = [posted[c] EXCEPT !.live = FALSE]
        /\ \A d \in DOMAIN posted : d # c => posted'[d] = posted[d]
    BY <1>2, <2>2
  <2> QED  BY <1>3, <2>3, <2>4 DEF PostedRecord
<1>5. deletes' \in 0 .. MaxDeletes
  BY <1>1, <1>2
<1>6. SurfaceTypeOK'
  BY <1>0, <1>1, <1>4, <1>5 DEF SurfaceTypeOK, PostedRecord
<1>7. /\ PostersInStep' /\ ClaimsFollow' /\ HoldersOverlapOnlyExpired'
      /\ HolderIsNewest'
  BY <1>1 DEF SurfaceInv, PostersInStep, ClaimsFollow, Holding, StillHeld,
              HoldersOverlapOnlyExpired, Holders, HolderIsNewest
<1>8. Live' \subseteq Live
  BY <1>4 DEF Live
<1>9. CreatesTheFirst'
  BY <1>1, <1>4, <1>8 DEF SurfaceInv, CreatesTheFirst, Creating, PosterAt,
                          StillHeld, Live
<1>10. MakersMoved' /\ BodiesFollow'
  BY <1>1, <1>4 DEF SurfaceInv, MakersMoved, BodiesFollow, PosterAt
<1>11. OneOfEach' /\ CheckRecorded'
  <2>1. \A d \in DOMAIN posted : Unexplained(d)' => Unexplained(d)
    BY <1>1, <1>4 DEF Unexplained
  <2> QED  BY <1>1, <1>4, <1>8, <2>1
           DEF SurfaceInv, OneOfEach, CheckRecorded, Live
<1> QED  BY <1>6, <1>7, <1>9, <1>10, <1>11 DEF SurfaceInv

-----------------------------------------------------------------------------
(* What is written *)

\* Whoever holds the row is the only one with that claim.
LEMMA OneHolds ==
    ASSUME SurfaceInv, NEW p \in Posters, Holding(p), StillHeld(p),
           NEW q \in Posters, Holding(q), StillHeld(q)
    PROVE  p = q
<1>1. post[p].claim = post[q].claim /\ post[p].claim \in Nat
  BY RecordOf DEF SurfaceInv, StillHeld
<1>2. p \in Holders /\ q \in Holders
  BY DEF Holding, Holders
<1>3. \/ p = q
      \/ post[p].claim + ClaimTTL < post[q].claim
      \/ post[q].claim + ClaimTTL < post[p].claim
  BY <1>2 DEF SurfaceInv, HoldersOverlapOnlyExpired
<1> QED  BY <1>1, <1>3

\* The holder of the row gives it back and ends.
LEMMA ClaimReleased ==
    ASSUME SurfaceInv, NEW p \in Posters, Holding(p), StillHeld(p),
           post[p].pc \in {"persist", "release", "leave"},
           row' \in RowRecord, row'.claim = 0,
           NEW label \in {"done", "failed", "skipped"},
           label = "done" => post[p].pc = "persist",
           label = "failed" => post[p].pc = "release",
           label = "skipped" => post[p].pc = "leave",
           GoTo(p, label),
           UNCHANGED <<surface, clock, rev, posted, faults, deletes>>
    PROVE  /\ SurfaceTypeOK' /\ PostersInStep' /\ ClaimsFollow'
           /\ HoldersOverlapOnlyExpired' /\ HolderIsNewest'
           /\ CreatesTheFirst'
           /\ \A q \in Posters : q # p => post'[q] = post[q]
           /\ post'[p] = [post[p] EXCEPT !.pc = label]
           /\ post[p] \in PosterRecord
           /\ \A q \in Posters : q # p /\ Holding(q) => ~StillHeld(q)
<1>0. SurfaceTypeOK /\ PostersInStep /\ ClaimsFollow
  BY DEF SurfaceInv
<1> DEFINE r == [post[p] EXCEPT !.pc = label]
<1>1. /\ post \in [Posters -> PosterRecord] /\ post[p] \in PosterRecord
      /\ r \in PosterRecord
      /\ r.pc = label /\ r.claim = post[p].claim /\ r.req = post[p].req
      /\ r.run = post[p].run
      /\ post' = [post EXCEPT ![p] = r]
  <2>1. post \in [Posters -> PosterRecord] /\ post[p] \in PosterRecord
    BY <1>0 DEF SurfaceTypeOK
  <2> QED  BY <2>1 DEF GoTo, SetPoster, Controls, Ended
<1>2. /\ post' \in [Posters -> PosterRecord]
      /\ \A q \in Posters : q # p => post'[q] = post[q]
      /\ post'[p] = r
  <2> HIDE DEF r
  <2> QED  BY <1>1
<1>3. \A q \in Posters : q # p /\ Holding(q) => ~StillHeld(q)
  BY OneHolds
<1>4. SurfaceTypeOK'
  BY <1>0, <1>2 DEF SurfaceTypeOK, RowRecord
<1> HIDE DEF r
<1>5. PostersInStep'
  BY <1>0, <1>1, <1>2 DEF PostersInStep
<1>6. \A q \in Posters : Holding(q)' => q # p /\ Holding(q)
  BY <1>1, <1>2 DEF Holding, Ended
<1>7. ClaimsFollow'
  <2>1. clock \in Nat
    BY <1>0 DEF SurfaceTypeOK
  <2> QED  BY <1>0, <1>2, <1>3, <1>6, <2>1 DEF ClaimsFollow
<1>8. HoldersOverlapOnlyExpired'
  BY <1>2, <1>6 DEF SurfaceInv, HoldersOverlapOnlyExpired, Holders, Holding
<1>9. HolderIsNewest' /\ CreatesTheFirst'
  <2>1. \A q \in Posters :
            surface = "comment" /\ post'[q].pc \in
                {"list", "patch", "create", "sent", "persist"}
            => ~StillHeld(q)'
    BY <1>5 DEF PostersInStep, StillHeld
  <2> QED  BY <2>1 DEF HolderIsNewest, CreatesTheFirst, Creating, PosterAt
<1> QED  BY <1>1, <1>2, <1>3, <1>4, <1>5, <1>7, <1>8, <1>9 DEF r

LEMMA MakersAndAuthors ==
    ASSUME SurfaceInv, NEW c \in DOMAIN posted
    PROVE  /\ posted[c].maker \in Posters /\ posted[c].body.by \in Posters
           /\ c # 0
           /\ ~posted[c].stray =>
                 /\ post[posted[c].maker].claim # 0
                 /\ post[posted[c].maker].pc \in
                        {"persist", "done", "missed", "release", "failed",
                         "dead"}
           /\ surface = "comment" =>
                 post[posted[c].body.by].pc \in
                     {"persist", "done", "missed", "release", "failed",
                      "dead"}
BY PostedTypes DEF SurfaceInv, MakersMoved, BodiesFollow, PosterAt

\* While somebody holds the row of a check run, none is recorded.
LEMMA HeldCheck ==
    ASSUME SurfaceInv, surface = "check", NEW p \in Posters, Holding(p),
           StillHeld(p), NEW c \in DOMAIN posted, Unexplained(c)
    PROVE  /\ posted[c].maker = p /\ PosterAt(p, "persist")
           /\ post[p].target = c
<1> DEFINE m == posted[c].maker
<1>1. m \in Posters /\ c # 0 /\ post[m].claim # 0
  BY MakersAndAuthors DEF Unexplained
<1>2. row.claim # 0
  BY DEF Holding, StillHeld
<1>3. PosterAt(m, "persist") /\ StillHeld(m) /\ post[m].target = c
  BY <1>1, <1>2 DEF SurfaceInv, CheckRecorded
<1>4. Holding(m)
  BY <1>1, <1>3 DEF Holding, PosterAt, Ended
<1>5. m = p
  BY <1>1, <1>3, <1>4, OneHolds
<1> QED  BY <1>3, <1>5

LEMMA PersistStep ==
    ASSUME SurfaceInv, NEW p \in Posters, persistId(p)
    PROVE  SurfaceInv'
<1> USE DEF PosterAt, Ended
<1>0. /\ SurfaceTypeOK /\ post[p] \in PosterRecord /\ PostersInStep
      /\ post[p].pc = "persist"
  BY RecordOf DEF SurfaceInv, persistId
<1>1. CASE post[p].claim # 0 /\ ~MayPersist(p)
  <2> DEFINE r == [post[p] EXCEPT !.pc = "missed"]
  <2>1. r \in PosterRecord
    BY <1>0 DEF Controls
  <2>2. /\ r.pc = "missed" /\ r.claim = post[p].claim
        /\ r.req = "none" /\ r.run = post[p].run
    BY <1>0 DEF PostersInStep
  <2>3. /\ SetPoster(p, r) /\ Typed
        /\ UNCHANGED <<surface, clock, row, posted, deletes>>
    BY <1>0, <1>1 DEF persistId, GoTo, Typed, SurfaceTypeOK
  <2> HIDE DEF r
  <2> LossMove(p, r)
    BY <1>0, <2>1, <2>2, <2>3 DEF LossMove, Lost
  <2> QED  BY LossStep
<1>2. CASE post[p].claim = 0
  <2>1. surface = "check"
    BY <1>0, <1>2, SurfaceKinds DEF PostersInStep, SurfaceTypeOK
  <2> DEFINE r == [post[p] EXCEPT !.pc = "done"]
  <2>2. /\ r \in PosterRecord /\ r.pc = "done" /\ r.req = "none"
        /\ r.claim = 0 /\ r.run = post[p].run /\ r.run # 0
    BY <1>0, <1>2 DEF Controls, PostersInStep
  <2>3. /\ post' = [post EXCEPT ![p] = r]
        /\ UNCHANGED <<surface, clock, rev, row, posted, faults, deletes>>
    BY <1>2 DEF persistId, GoTo, SetPoster
  <2> HIDE DEF r
  <2>4. /\ post' \in [Posters -> PosterRecord]
        /\ \A q \in Posters : q # p => post'[q] = post[q]
        /\ post'[p] = r
    BY <1>0, <2>2, <2>3 DEF SurfaceTypeOK
  <2>5. SurfaceTypeOK' /\ PostersInStep'
    BY <1>0, <2>1, <2>2, <2>3, <2>4 DEF SurfaceTypeOK, PostersInStep
  <2>6. \A q \in Posters : Holding(q)' => q # p /\ Holding(q)
    BY <2>2, <2>4 DEF Holding
  <2>7. ClaimsFollow' /\ HoldersOverlapOnlyExpired'
    BY <2>3, <2>4, <2>6 DEF SurfaceInv, ClaimsFollow, StillHeld,
                            HoldersOverlapOnlyExpired, Holders, Holding
  <2>8. HolderIsNewest' /\ CreatesTheFirst' /\ BodiesFollow'
    BY <2>1, <2>3 DEF HolderIsNewest, CreatesTheFirst, BodiesFollow
  <2>9. \A c \in DOMAIN posted : ~posted[c].stray =>
            posted[c].maker \in Posters \ {p}
    BY <1>2, MakersAndAuthors
  <2>10. \A c \in DOMAIN posted : Unexplained(c)' <=> Unexplained(c)
    BY <2>3, <2>4, <2>9 DEF Unexplained, Strayed, StillHeld
  <2>11. MakersMoved'
    BY <2>3, <2>4, <2>9 DEF SurfaceInv, MakersMoved
  <2>12. OneOfEach'
    BY <2>3, <2>10 DEF SurfaceInv, OneOfEach, Live
  <2>13. CheckRecorded'
    BY <2>3, <2>4, <2>9, <2>10
       DEF SurfaceInv, CheckRecorded, Unexplained, StillHeld
  <2> QED  BY <2>5, <2>7, <2>8, <2>11, <2>12, <2>13 DEF SurfaceInv
<1>3. CASE post[p].claim # 0 /\ StillHeld(p)
  <2>1. /\ row' = [id |-> post[p].target, claim |-> 0,
                   run |-> IF surface = "comment" THEN post[p].run
                           ELSE row.run]
        /\ GoTo(p, "done")
        /\ UNCHANGED <<surface, clock, rev, posted, faults, deletes>>
    BY <1>3 DEF persistId, MayPersist
  <2>2. Holding(p)
    BY <1>0, <1>3 DEF Holding
  <2>3. row' \in RowRecord /\ row.run \in Nat /\ post[p].run \in Nat
    <3>1. /\ row.run \in Runs \cup {0} /\ post[p].run \in Runs \cup {0}
          /\ post[p].target \in Nat /\ 0 \in 0 .. MaxTime
      BY <1>0 DEF SurfaceTypeOK
    <3> QED  BY <2>1, <3>1 DEF RowRecord
  <2>4. row'.claim = 0
    BY <2>1
  <2>5. /\ SurfaceTypeOK' /\ PostersInStep' /\ ClaimsFollow'
        /\ HoldersOverlapOnlyExpired' /\ HolderIsNewest'
        /\ CreatesTheFirst'
        /\ \A q \in Posters : q # p => post'[q] = post[q]
        /\ post'[p] = [post[p] EXCEPT !.pc = "done"]
    BY <1>0, <1>3, <2>1, <2>2, <2>3, <2>4, ClaimReleased
  <2>6. /\ post'[p].pc = "done" /\ post'[p].claim = post[p].claim
        /\ post'[p].run = post[p].run
    BY <1>0, <2>5
  <2>7. MakersMoved'
    <3>1. ASSUME NEW c \in DOMAIN posted, ~posted[c].stray
          PROVE  LET m == posted[c].maker IN
                 /\ post'[m].claim # 0
                 /\ post'[m].pc \in {"persist", "done", "missed", "release",
                                     "failed", "dead"}
      <4> DEFINE m == posted[c].maker
      <4>1. /\ m \in Posters /\ post[m].claim # 0
            /\ post[m].pc \in {"persist", "done", "missed", "release",
                               "failed", "dead"}
        BY <3>1, MakersAndAuthors
      <4>2. CASE m = p
        BY <1>3, <2>6, <4>2
      <4>3. CASE m # p
        BY <2>5, <4>1, <4>3
      <4> QED  BY <4>2, <4>3
    <3> QED  BY <2>1, <3>1 DEF MakersMoved
  <2>8. ASSUME NEW c \in DOMAIN posted, Unexplained(c)'
        PROVE  Unexplained(c)
    <3> DEFINE m == posted[c].maker
    <3>1. CASE surface = "comment"
      BY <2>1, <2>8, <3>1 DEF Unexplained
    <3>2. CASE surface # "comment"
      <4>1. ~posted[c].stray /\ ~Strayed(m)'
        BY <2>1, <2>8, <3>2 DEF Unexplained
      <4>2. m \in Posters /\ post[m].claim # 0
        BY <4>1, MakersAndAuthors
      <4>3. ~Strayed(m)
        <5>1. CASE m = p
          BY <1>0, <1>3, <5>1 DEF Strayed
        <5>2. CASE m # p
          <6>1. ~StillHeld(m)'
            BY <2>1, <2>4, <2>5, <4>2, <5>2 DEF StillHeld
          <6> QED  BY <2>1, <2>5, <4>1, <4>2, <5>2, <6>1 DEF Strayed
        <5> QED  BY <5>1, <5>2
      <4> QED  BY <3>2, <4>1, <4>3 DEF Unexplained
    <3> QED  BY <3>1, <3>2
  <2>9. OneOfEach'
    BY <2>1, <2>8 DEF SurfaceInv, OneOfEach, Live
  <2>10. CheckRecorded'
    <3>1. ASSUME surface = "check", NEW c \in DOMAIN posted, Unexplained(c)'
          PROVE  posted[c].maker = p /\ post[p].target = c
      BY <1>3, <2>2, <2>8, <3>1, HeldCheck
    <3> QED  BY <2>1, <2>4, <2>6, <3>1 DEF CheckRecorded
  <2>11. BodiesFollow'
    <3>1. CASE surface = "comment"
      <4>1. row.run <= post[p].run /\ row'.run = post[p].run
        BY <1>0, <1>3, <2>1, <3>1 DEF SurfaceInv, HolderIsNewest
      <4>2. ASSUME NEW c \in DOMAIN posted
            PROVE  LET q == posted[c].body.by IN
                   /\ posted[c].body.run = post'[q].run
                   /\ \/ post'[q].pc \in {"persist", "release", "failed",
                                          "missed", "dead"}
                      \/ post'[q].pc = "done" /\ posted[c].body.run <= row'.run
        <5> DEFINE q == posted[c].body.by
        <5>1. q \in Posters
          BY MakersAndAuthors
        <5>2. /\ posted[c].body.run = post[q].run
              /\ \/ post[q].pc \in {"persist", "release", "failed",
                                    "missed", "dead"}
                 \/ post[q].pc = "done" /\ posted[c].body.run <= row.run
          BY <3>1 DEF SurfaceInv, BodiesFollow
        <5>3. CASE q = p
          BY <2>3, <2>6, <4>1, <5>2, <5>3
        <5>4. CASE q # p
          <6>1. post[q].run \in Nat
            BY <1>0, <5>1, RecordOf
          <6> QED  BY <2>3, <2>5, <4>1, <5>1, <5>2, <5>4, <6>1
        <5> QED  BY <5>3, <5>4
      <4> QED  BY <2>1, <4>2 DEF BodiesFollow
    <3>2. CASE surface # "comment"
      BY <2>1, <3>2 DEF BodiesFollow
    <3> QED  BY <3>1, <3>2
  <2> QED  BY <2>5, <2>7, <2>9, <2>10, <2>11 DEF SurfaceInv
<1> QED  BY <1>1, <1>2, <1>3 DEF MayPersist

LEMMA ReleaseSteps ==
    ASSUME SurfaceInv, NEW p \in Posters, releaseClaim(p)
    PROVE  SurfaceInv'
<1> USE DEF PosterAt, Ended
<1>0. /\ SurfaceTypeOK /\ post[p] \in PosterRecord /\ PostersInStep
      /\ post[p].pc \in {"release", "leave"}
      /\ UNCHANGED <<surface, clock, rev, posted, faults, deletes>>
  BY RecordOf DEF SurfaceInv, releaseClaim
<1> DEFINE label == IF PosterAt(p, "leave") THEN "skipped" ELSE "failed"
           r == [post[p] EXCEPT !.pc = label]
<1>1. /\ label \in {"failed", "skipped"} /\ SetPoster(p, r) /\ GoTo(p, label)
      /\ label = "failed" => post[p].pc = "release"
      /\ label = "skipped" => post[p].pc = "leave"
  BY <1>0 DEF releaseClaim, GoTo
<1>2. /\ r \in PosterRecord /\ r.pc = label /\ r.claim = post[p].claim
      /\ r.req = post[p].req /\ r.run = post[p].run
  BY <1>0 DEF Controls
<1> HIDE DEF r, label
<1>3. CASE ~(post[p].claim # 0 /\ StillHeld(p))
  <2>1. row' = row
    BY <1>3 DEF releaseClaim
  <2>2. Typed
    BY <1>0 DEF Typed, SurfaceTypeOK
  <2>3. CASE post[p].pc = "leave"
    <3>1. label = "skipped"
      BY <1>1, <2>3
    <3> EarlyMove(p, r)
      BY <1>0, <1>1, <1>2, <2>1, <2>2, <2>3, <3>1
         DEF PostersInStep, EarlyMove, Early
    <3> QED  BY EarlyStep
  <2>4. CASE post[p].pc = "release"
    <3>1. label = "failed"
      BY <1>1, <2>4
    <3> LossMove(p, r)
      BY <1>0, <1>1, <1>2, <2>1, <2>2, <2>4, <3>1 DEF LossMove, Lost
    <3> QED  BY LossStep
  <2> QED  BY <1>0, <2>3, <2>4
<1>4. CASE post[p].claim # 0 /\ StillHeld(p)
  <2>1. row' = [row EXCEPT !.claim = 0]
    BY <1>4 DEF releaseClaim
  <2>2. Holding(p)
    BY <1>0, <1>4 DEF Holding
  <2>3. /\ row' \in RowRecord /\ row'.claim = 0 /\ row'.id = row.id
        /\ row'.run = row.run
    <3>1. row \in RowRecord /\ 0 \in 0 .. MaxTime
      BY <1>0 DEF SurfaceTypeOK, RowRecord
    <3> QED  BY <2>1, <3>1 DEF RowRecord
  <2>4. /\ SurfaceTypeOK' /\ PostersInStep' /\ ClaimsFollow'
        /\ HoldersOverlapOnlyExpired' /\ HolderIsNewest'
        /\ CreatesTheFirst'
        /\ \A q \in Posters : q # p => post'[q] = post[q]
        /\ post'[p] = [post[p] EXCEPT !.pc = label]
    <3>1. label \in {"done", "failed", "skipped"} /\ label # "done"
      BY <1>1
    <3>2. post[p].pc \in {"persist", "release", "leave"}
      BY <1>0
    <3>3. /\ GoTo(p, label)
          /\ label = "failed" => post[p].pc = "release"
          /\ label = "skipped" => post[p].pc = "leave"
      BY <1>1
    <3>4. UNCHANGED <<surface, clock, rev, posted, faults, deletes>>
      BY <1>0
    <3> QED  BY <1>4, <2>2, <2>3, <3>1, <3>2, <3>3, <3>4, ClaimReleased,
                ZenonT(30)
  <2>5. /\ post'[p].pc = label /\ post'[p].claim = post[p].claim
        /\ post'[p].run = post[p].run
    BY <1>0, <2>4
  <2>6. /\ \A c \in DOMAIN posted : ~posted[c].stray /\ posted[c].maker = p
                                    => label = "failed"
        /\ surface = "comment" =>
              \A c \in DOMAIN posted : posted[c].body.by = p
                                       => label = "failed"
    BY <1>0, <1>1, MakersAndAuthors
  <2>7. MakersMoved'
    BY <1>0, <2>4, <2>5, <2>6, MakersAndAuthors DEF MakersMoved
  <2>8. ASSUME NEW c \in DOMAIN posted, Unexplained(c)'
        PROVE  Unexplained(c) /\ surface = "comment"
    <3> DEFINE m == posted[c].maker
    <3>1. CASE surface = "comment"
      BY <1>0, <2>8, <3>1 DEF Unexplained
    <3>2. CASE surface # "comment"
      <4>1. ~posted[c].stray /\ ~Strayed(m)'
        BY <1>0, <2>8, <3>2 DEF Unexplained
      <4>2. m \in Posters /\ post[m].claim # 0
        BY <4>1, MakersAndAuthors
      <4>3. m # p
        BY <1>0, <2>5, <2>6, <4>1 DEF Strayed
      <4>4. ~StillHeld(m)'
        BY <1>0, <2>3, <2>4, <4>2, <4>3 DEF StillHeld
      <4>5. ~Strayed(m)
        BY <1>0, <2>4, <4>1, <4>2, <4>3, <4>4 DEF Strayed
      <4>6. Unexplained(c) /\ surface = "check"
        BY <1>0, <3>2, <4>1, <4>5, SurfaceKinds
           DEF Unexplained, SurfaceTypeOK
      <4> QED  BY <1>4, <2>2, <4>3, <4>6, HeldCheck
    <3> QED  BY <3>1, <3>2
  <2>9. OneOfEach'
    BY <1>0, <2>8 DEF SurfaceInv, OneOfEach, Live
  <2>10. CheckRecorded'
    BY <1>0, <2>3, <2>8 DEF CheckRecorded
  <2>11. BodiesFollow'
    <3>1. \A c \in DOMAIN posted : posted[c].body.by \in Posters
      BY MakersAndAuthors
    <3> QED  BY <1>0, <2>3, <2>4, <2>5, <2>6, <3>1
             DEF SurfaceInv, BodiesFollow
  <2> QED  BY <2>4, <2>7, <2>9, <2>10, <2>11 DEF SurfaceInv
<1> QED  BY <1>3, <1>4

\* What the poster keeps of a request that was served.
LEMMA ServedRecord ==
    ASSUME SurfaceInv, NEW p \in Posters, post[p].req # "none",
           NEW r \in PosterRecord,
           r.pc = IF Waiting(p) THEN "persist" ELSE post[p].pc,
           r.req = "none", r.claim = post[p].claim, r.run = post[p].run,
           r.cause = post[p].cause, ~Waiting(p) => r.target = post[p].target,
           SetPoster(p, r),
           UNCHANGED <<surface, clock, rev, row, faults, deletes>>
    PROVE  /\ post' \in [Posters -> PosterRecord]
           /\ post'[p] = r
           /\ \A q \in Posters : q # p => post'[q] = post[q]
           /\ post[p].pc \in {"sent", "release", "failed", "dead"}
           /\ PostersInStep' /\ ClaimsFollow' /\ HoldersOverlapOnlyExpired'
           /\ HolderIsNewest'
           /\ \A q \in Posters : /\ Strayed(q)' <=> Strayed(q)
                                 /\ Creating(q)' => q # p /\ Creating(q)
<1> USE DEF PosterAt, Waiting
<1>0. /\ SurfaceTypeOK /\ post[p] \in PosterRecord /\ PostersInStep
  BY RecordOf DEF SurfaceInv
<1>1. post[p].pc \in {"sent", "release", "failed", "dead"}
  BY <1>0 DEF PostersInStep
<1>2. /\ post' \in [Posters -> PosterRecord]
      /\ post'[p] = r
      /\ \A q \in Posters : q # p => post'[q] = post[q]
  BY <1>0 DEF SurfaceTypeOK, SetPoster
<1>3. PostersInStep'
  BY <1>0, <1>1, <1>2 DEF PostersInStep
<1>4. \A q \in Posters : /\ Holding(q)' <=> Holding(q)
                         /\ post'[q].claim = post[q].claim
  BY <1>1, <1>2 DEF Holding, Ended
<1>5. ClaimsFollow'
  BY <1>4 DEF SurfaceInv, ClaimsFollow, StillHeld
<1>6. HoldersOverlapOnlyExpired'
  BY <1>4 DEF SurfaceInv, HoldersOverlapOnlyExpired, Holders, Holding
<1>7. HolderIsNewest'
  BY <1>1, <1>2 DEF SurfaceInv, HolderIsNewest, StillHeld
<1>8. \A q \in Posters : /\ Strayed(q)' <=> Strayed(q)
                         /\ Creating(q)' => q # p /\ Creating(q)
  <2>1. \A q \in Posters : StillHeld(q)' <=> StillHeld(q)
    BY <1>4 DEF StillHeld
  <2> QED  BY <1>1, <1>2, <2>1 DEF Strayed, Creating
<1> QED  BY <1>1, <1>2, <1>3, <1>5, <1>6, <1>7, <1>8

LEMMA PatchServedStep ==
    ASSUME SurfaceInv, NEW p \in Posters, patchServed(p)
    PROVE  SurfaceInv'
<1>0. /\ SurfaceTypeOK /\ post[p] \in PosterRecord /\ PostersInStep
  BY RecordOf DEF SurfaceInv
<1> DEFINE c == post[p].target
           r == [post[p] EXCEPT !.req = "none",
                    !.pc = IF Waiting(p) THEN "persist" ELSE @]
<1>1. /\ post[p].req # "none" /\ c \in Live /\ SetPoster(p, r)
      /\ posted' = [posted EXCEPT ![c].body = Body(p)]
      /\ UNCHANGED <<surface, clock, rev, row, faults, deletes>>
  BY DEF patchServed
<1>2. /\ r \in PosterRecord
      /\ r.pc = IF Waiting(p) THEN "persist" ELSE post[p].pc
      /\ r.req = "none" /\ r.claim = post[p].claim /\ r.run = post[p].run
      /\ r.cause = post[p].cause /\ r.target = post[p].target
  BY <1>0 DEF Controls
<1>3. c \in DOMAIN posted
  BY <1>1 DEF Live
<1> HIDE DEF r, c
<1>4. /\ post' \in [Posters -> PosterRecord]
      /\ post'[p] = r
      /\ \A q \in Posters : q # p => post'[q] = post[q]
      /\ post[p].pc \in {"sent", "release", "failed", "dead"}
      /\ PostersInStep' /\ ClaimsFollow' /\ HoldersOverlapOnlyExpired'
      /\ HolderIsNewest'
      /\ \A q \in Posters : /\ Strayed(q)' <=> Strayed(q)
                            /\ Creating(q)' => q # p /\ Creating(q)
  BY <1>1, <1>2, ServedRecord
<1>5. Body(p) \in BodyRecord
  <2>1. (~InTime(p)) \in BOOLEAN
    OBVIOUS
  <2> HIDE DEF InTime
  <2> QED  BY <1>0, <2>1 DEF Body, BodyRecord
<1>6. /\ posted' \in Seq(PostedRecord)
      /\ DOMAIN posted' = DOMAIN posted
      /\ posted'[c].body = Body(p)
      /\ \A d \in DOMAIN posted :
            /\ posted'[d].live = posted[d].live
            /\ posted'[d].maker = posted[d].maker
            /\ posted'[d].cause = posted[d].cause
            /\ posted'[d].stray = posted[d].stray
            /\ d # c => posted'[d].body = posted[d].body
  <2>1. posted \in Seq(PostedRecord)
    BY <1>0 DEF SurfaceTypeOK, PostedRecord
  <2>2. posted[c] \in PostedRecord
    BY <1>0, <1>3, PostedTypes
  <2> DEFINE e == [posted[c] EXCEPT !.body = Body(p)]
  <2>3. e \in PostedRecord
    BY <1>5, <2>2 DEF PostedRecord
  <2>4. /\ e.body = Body(p) /\ e.live = posted[c].live
        /\ e.maker = posted[c].maker /\ e.cause = posted[c].cause
        /\ e.stray = posted[c].stray
    BY <2>2 DEF PostedRecord
  <2>5. posted' = [posted EXCEPT ![c] = e]
    BY <1>1
  <2> HIDE DEF e
  <2>6. posted' \in Seq(PostedRecord)
    BY <1>3, <2>1, <2>3, <2>5
  <2>7. /\ DOMAIN posted' = DOMAIN posted /\ posted'[c] = e
        /\ \A d \in DOMAIN posted : d # c => posted'[d] = posted[d]
    BY <1>3, <2>1, <2>5
  <2> QED  BY <2>4, <2>6, <2>7
<1>7. SurfaceTypeOK'
  BY <1>0, <1>1, <1>4, <1>6 DEF SurfaceTypeOK, PostedRecord
<1>8. Live' = Live
  BY <1>6 DEF Live
<1>9. CreatesTheFirst'
  <2>1. ASSUME surface = "comment", NEW q \in Posters,
               Creating(q)', StillHeld(q)', post'[q].cause = "first", NEW d \in Live
        PROVE  posted'[d].stray \/ posted'[d].cause # "first"
    <3>1. Creating(q) /\ StillHeld(q) /\ post[q].cause = "first"
      BY <1>1, <1>4, <2>1 DEF StillHeld
    <3>2. posted[d].stray \/ posted[d].cause # "first"
      BY <2>1, <3>1 DEF SurfaceInv, CreatesTheFirst
    <3> QED  BY <1>6, <2>1, <3>2 DEF Live
  <2> QED  BY <1>1, <1>8, <2>1 DEF CreatesTheFirst
<1>10. \A d \in DOMAIN posted : Unexplained(d)' <=> Unexplained(d)
  BY <1>1, <1>4, <1>6, MakersAndAuthors DEF Unexplained
<1>11. OneOfEach'
  BY <1>6, <1>8, <1>10 DEF SurfaceInv, OneOfEach, Live
<1>12. \A d \in DOMAIN posted :
          ~posted[d].stray =>
              LET m == posted[d].maker IN
              /\ m \in Posters
              /\ post'[m].claim = post[m].claim /\ post'[m].pc = post[m].pc
              /\ post'[m].target = post[m].target
  BY <1>2, <1>4, MakersAndAuthors DEF Waiting, PosterAt
<1>13. MakersMoved'
  BY <1>6, <1>12 DEF SurfaceInv, MakersMoved
<1>14. CheckRecorded'
  BY <1>1, <1>6, <1>10, <1>12
     DEF SurfaceInv, CheckRecorded, Unexplained, PosterAt, StillHeld
<1>15. BodiesFollow'
  <2>1. Body(p).by = p /\ Body(p).run = post[p].run
    BY DEF Body
  <2>2. post'[p].run = post[p].run /\ post'[p].pc \in
            {"persist", "release", "failed", "dead"}
    BY <1>2, <1>4 DEF Waiting, PosterAt
  <2>3. surface = "comment" => \A d \in DOMAIN posted :
            LET q == posted[d].body.by IN
            post'[q].run = post[q].run /\ post'[q].pc = post[q].pc
    BY <1>2, <1>4, MakersAndAuthors DEF Waiting, PosterAt
  <2>4. ASSUME surface = "comment", NEW d \in DOMAIN posted
        PROVE  LET q == posted'[d].body.by IN
               /\ posted'[d].body.run = post'[q].run
               /\ \/ post'[q].pc \in {"persist", "release", "failed",
                                      "missed", "dead"}
                  \/ post'[q].pc = "done" /\ posted'[d].body.run <= row.run
    <3>1. CASE d = c
      BY <1>6, <2>1, <2>2, <3>1
    <3>2. CASE d # c
      <4> DEFINE q == posted[d].body.by
      <4>1. posted'[d].body = posted[d].body
        BY <1>6, <3>2
      <4>2. /\ posted[d].body.run = post[q].run
            /\ \/ post[q].pc \in {"persist", "release", "failed", "missed",
                                  "dead"}
               \/ post[q].pc = "done" /\ posted[d].body.run <= row.run
        BY <2>4 DEF SurfaceInv, BodiesFollow, PosterAt
      <4> QED  BY <2>3, <2>4, <4>1, <4>2
    <3> QED  BY <3>1, <3>2
  <2> QED  BY <1>1, <1>6, <2>4 DEF BodiesFollow, PosterAt
<1> QED  BY <1>4, <1>7, <1>9, <1>11, <1>13, <1>14, <1>15 DEF SurfaceInv

LEMMA CreateServedStep ==
    ASSUME SurfaceInv, NEW p \in Posters, createServed(p)
    PROVE  SurfaceInv'
<1>0. /\ SurfaceTypeOK /\ post[p] \in PosterRecord /\ PostersInStep
  BY RecordOf DEF SurfaceInv
<1>b. posted \in Seq(PostedRecord)
  BY <1>0 DEF SurfaceTypeOK, PostedRecord
<1>a. PICK n \in Nat \ {0} : n = Len(posted) + 1
  BY <1>b
<1> DEFINE e == [live |-> TRUE, maker |-> p, cause |-> post[p].cause,
                 stray |-> ~InTime(p), body |-> Body(p)]
           r == IF Waiting(p)
                THEN [post[p] EXCEPT !.pc = "persist", !.req = "none",
                                     !.target = n]
                ELSE [post[p] EXCEPT !.req = "none"]
<1>1. /\ post[p].req = "create" /\ SetPoster(p, r)
      /\ posted' = Append(posted, e)
      /\ UNCHANGED <<surface, clock, rev, row, faults, deletes>>
  BY <1>a DEF createServed
<1>2. /\ r \in PosterRecord
      /\ r.pc = IF Waiting(p) THEN "persist" ELSE post[p].pc
      /\ r.req = "none" /\ r.claim = post[p].claim /\ r.run = post[p].run
      /\ r.cause = post[p].cause
      /\ r.target = IF Waiting(p) THEN n ELSE post[p].target
  BY <1>0, <1>a DEF Controls
<1>3. /\ e \in PostedRecord /\ e.live /\ e.maker = p
      /\ e.cause = post[p].cause /\ e.stray = ~InTime(p)
      /\ e.body.by = p /\ e.body.run = post[p].run
  <2>1. (~InTime(p)) \in BOOLEAN
    OBVIOUS
  <2>2. Body(p) \in BodyRecord /\ Body(p).by = p /\ Body(p).run = post[p].run
    BY <1>0, <2>1 DEF Body, BodyRecord
  <2> HIDE DEF InTime
  <2> QED  BY <1>0, <2>1, <2>2 DEF PostedRecord
<1> HIDE DEF e, r
<1>4. /\ post' \in [Posters -> PosterRecord]
      /\ post'[p] = r
      /\ \A q \in Posters : q # p => post'[q] = post[q]
      /\ post[p].pc \in {"sent", "release", "failed", "dead"}
      /\ PostersInStep' /\ ClaimsFollow' /\ HoldersOverlapOnlyExpired'
      /\ HolderIsNewest'
      /\ \A q \in Posters : /\ Strayed(q)' <=> Strayed(q)
                            /\ Creating(q)' => q # p /\ Creating(q)
  BY <1>1, <1>2, ServedRecord
<1>5. /\ posted' \in Seq(PostedRecord)
      /\ DOMAIN posted' = DOMAIN posted \cup {n} /\ n \notin DOMAIN posted
      /\ posted'[n] = e
      /\ \A d \in DOMAIN posted : posted'[d] = posted[d]
  BY <1>a, <1>b, <1>1, <1>3
<1>6. SurfaceTypeOK'
  BY <1>0, <1>1, <1>4, <1>5 DEF SurfaceTypeOK, PostedRecord
<1>7. Live' = Live \cup {n}
  BY <1>3, <1>5 DEF Live
<1>8. ~e.stray => /\ PosterAt(p, "sent") /\ Holding(p) /\ StillHeld(p)
                  /\ Creating(p) /\ post'[p].pc = "persist"
                  /\ post'[p].target = n
  BY <1>1, <1>2, <1>3, <1>4
     DEF InTime, Waiting, Holding, Creating, PosterAt, Ended
<1>9. \A d \in DOMAIN posted :
          /\ posted[d].maker \in Posters /\ posted[d].body.by \in Posters
          /\ ~posted[d].stray =>
                LET m == posted[d].maker IN
                /\ post'[m].claim = post[m].claim
                /\ post'[m].pc = post[m].pc
                /\ post'[m].target = post[m].target
                /\ ~PosterAt(p, "sent") \/ m # p
          /\ surface = "comment" =>
                LET q == posted[d].body.by IN
                post'[q].run = post[q].run /\ post'[q].pc = post[q].pc
  BY <1>2, <1>4, MakersAndAuthors DEF Waiting, PosterAt
<1>10. CreatesTheFirst'
  <2>1. ASSUME surface = "comment", NEW q \in Posters,
               Creating(q)', StillHeld(q)', post'[q].cause = "first",
               NEW d \in Live'
        PROVE  posted'[d].stray \/ posted'[d].cause # "first"
    <3>1. /\ q # p /\ Creating(q) /\ StillHeld(q) /\ post[q].cause = "first"
      BY <1>1, <1>4, <2>1 DEF StillHeld
    <3>2. CASE d \in Live
      BY <1>5, <2>1, <3>1, <3>2 DEF SurfaceInv, CreatesTheFirst, Live
    <3>3. CASE d = n
      <4>1. Holding(q)
        BY <1>0, <2>1, <3>1
           DEF PostersInStep, Holding, Creating, PosterAt, Ended
      <4> QED  BY <1>5, <1>8, <3>1, <3>3, <4>1, OneHolds
    <3> QED  BY <1>7, <2>1, <3>2, <3>3
  <2> QED  BY <1>1, <2>1 DEF CreatesTheFirst
<1>11. \A d \in DOMAIN posted : Unexplained(d)' <=> Unexplained(d)
  BY <1>1, <1>4, <1>5, <1>9 DEF Unexplained
\* Nothing that is explained by nothing was there before.
<1>12. ASSUME Unexplained(n)', NEW d \in Live, Unexplained(d)
       PROVE  FALSE
  <2>1. ~e.stray
    BY <1>5, <1>12 DEF Unexplained
  <2>2. d \in DOMAIN posted /\ ~posted[d].stray
    BY <1>12 DEF Live, Unexplained
  <2>3. CASE surface = "comment"
    <3>1. post[p].cause = "first" /\ posted[d].cause = "first"
      BY <1>1, <1>3, <1>5, <1>12, <2>3 DEF Unexplained
    <3> QED  BY <1>8, <1>12, <2>1, <2>2, <2>3, <3>1
             DEF SurfaceInv, CreatesTheFirst
  <2>4. CASE surface = "check"
    BY <1>8, <1>12, <2>1, <2>2, <2>4, HeldCheck DEF PosterAt
  <2> QED  BY <1>0, <2>3, <2>4, SurfaceKinds DEF SurfaceTypeOK
<1>13. OneOfEach'
  <2>1. Live \subseteq DOMAIN posted
    BY DEF Live
  <2>2. OneOfEach
    BY DEF SurfaceInv
  <2> QED  BY <1>7, <1>11, <1>12, <2>1, <2>2 DEF OneOfEach
<1>14. MakersMoved'
  <2>1. ~e.stray => post'[p].claim # 0
    BY <1>2, <1>4, <1>8 DEF Holding
  <2> QED  BY <1>3, <1>5, <1>8, <1>9, <2>1 DEF SurfaceInv, MakersMoved
<1>15. CheckRecorded'
  <2>1. ASSUME surface = "check", NEW d \in DOMAIN posted', Unexplained(d)'
        PROVE  LET m == posted'[d].maker IN
               \/ row'.id = d /\ post'[m].pc = "done"
               \/ /\ post'[m].pc = "persist" /\ row'.claim = post'[m].claim
                  /\ post'[m].target = d
    <3>1. CASE d = n
      <4>1. ~e.stray
        BY <1>5, <2>1, <3>1 DEF Unexplained
      <4> QED  BY <1>1, <1>2, <1>3, <1>4, <1>5, <1>8, <3>1, <4>1
               DEF StillHeld
    <3>2. CASE d \in DOMAIN posted
      <4>1. Unexplained(d) /\ ~posted[d].stray
        BY <1>11, <2>1, <3>2 DEF Unexplained
      <4> QED  BY <1>1, <1>5, <1>9, <2>1, <3>2, <4>1
               DEF SurfaceInv, CheckRecorded, PosterAt, StillHeld
    <3> QED  BY <1>5, <2>1, <3>1, <3>2
  <2>2. surface = "check" /\ row'.id # 0 => row'.claim = 0
    BY <1>1 DEF SurfaceInv, CheckRecorded
  <2> QED  BY <1>1, <2>1, <2>2 DEF CheckRecorded, PosterAt, StillHeld
<1>16. BodiesFollow'
  <2>1. post'[p].run = post[p].run /\ post'[p].pc \in
            {"persist", "release", "failed", "dead"}
    BY <1>2, <1>4 DEF Waiting, PosterAt
  <2> QED  BY <1>1, <1>3, <1>5, <1>9, <2>1
           DEF SurfaceInv, BodiesFollow, PosterAt
<1> QED  BY <1>4, <1>6, <1>10, <1>13, <1>14, <1>15, <1>16 DEF SurfaceInv

-----------------------------------------------------------------------------
(* The invariant, and what it is for *)

LEMMA SurfaceNextInv == SurfaceInv /\ [SurfaceNext]_surfaceVars => SurfaceInv'
<1> SUFFICES ASSUME SurfaceInv, [SurfaceNext]_surfaceVars PROVE SurfaceInv'
  OBVIOUS
<1>1. CASE surfaceTick
  BY <1>1, TickStep
<1>2. ASSUME NEW p \in Posters, NEW n \in Runs, completed(p, n)
      PROVE  SurfaceInv'
  BY <1>2, ReadSteps
<1>3. ASSUME NEW p \in Posters, poster(p) PROVE SurfaceInv'
  BY <1>3, ReadSteps, ClaimSteps, RequestSteps, PersistStep, ReleaseSteps
     DEF poster
<1>4. ASSUME NEW p \in Posters,
             \/ createServed(p) \/ patchServed(p) \/ patchMissed(p)
             \/ requestFails(p) \/ posterDies(p)
      PROVE  SurfaceInv'
  BY <1>4, CreateServedStep, PatchServedStep, RequestSteps, FaultSteps
<1>5. ASSUME NEW c \in DOMAIN posted, commentDeleted(c) PROVE SurfaceInv'
  BY <1>5, DeleteStep
<1>6. CASE UNCHANGED surfaceVars
  <2>1. /\ UNCHANGED <<surface, clock, rev, row, posted, post, faults, deletes>>
        /\ \A p \in Posters : /\ StillHeld(p)' <=> StillHeld(p)
                              /\ Holding(p)' <=> Holding(p)
                              /\ Creating(p)' <=> Creating(p)
    BY <1>6 DEF surfaceVars, StillHeld, Holding, Creating, PosterAt
  <2>2. SurfaceTypeOK' /\ PostersInStep'
    BY <2>1 DEF SurfaceInv, SurfaceTypeOK, PostersInStep
  <2>3. ClaimsFollow' /\ HoldersOverlapOnlyExpired'
    BY <2>1 DEF SurfaceInv, ClaimsFollow, HoldersOverlapOnlyExpired, Holders
  <2>4. HolderIsNewest' /\ CreatesTheFirst' /\ MakersMoved' /\ BodiesFollow'
    BY <2>1 DEF SurfaceInv, HolderIsNewest, CreatesTheFirst, Live,
                MakersMoved, BodiesFollow, PosterAt
  <2>5. OneOfEach' /\ CheckRecorded'
    BY <2>1 DEF SurfaceInv, OneOfEach, CheckRecorded, Unexplained, Strayed,
                StillHeld, PosterAt, Live
  <2> QED  BY <2>2, <2>3, <2>4, <2>5 DEF SurfaceInv
<1> QED  BY <1>1, <1>2, <1>3, <1>4, <1>5, <1>6 DEF SurfaceNext

\* Claims, what their holders may do, and what is there follow one another.
THEOREM SurfaceInvariant == SurfaceSpec => []SurfaceInv
<1>1. SurfaceInit => SurfaceInv
  BY SurfaceInitInv
<1>2. SurfaceInv /\ [SurfaceNext]_surfaceVars => SurfaceInv'
  BY SurfaceNextInv
<1> QED  BY <1>1, <1>2, PTL DEF SurfaceSpec

\* Every variable keeps its type, posters that died or were answered late
\* included.
THEOREM SurfaceTypes == SurfaceSpec => []SurfaceTypeOK
<1>1. SurfaceInv => SurfaceTypeOK
  BY DEF SurfaceInv
<1> QED  BY <1>1, SurfaceInvariant, PTL

\* The claim slot excludes: for any time to live, two posters are between
\* their claim and its end together only when one has outlived its own.
THEOREM ClaimsExclude == SurfaceSpec => []HoldersOverlapOnlyExpired
<1>1. SurfaceInv => HoldersOverlapOnlyExpired
  BY DEF SurfaceInv
<1> QED  BY <1>1, SurfaceInvariant, PTL

\* A pull request has one comment and a run one check run, but for those that
\* a lost claim or reply, a deletion, or a listing that did not show the
\* comment explains.
THEOREM PostsOnce == SurfaceSpec => []OneOfEach
<1>1. SurfaceInv => OneOfEach
  BY DEF SurfaceInv
<1> QED  BY <1>1, SurfaceInvariant, PTL

LEMMA RecordStep ==
    SurfaceInv /\ [SurfaceNext]_surfaceVars => row'.run >= row.run
<1> SUFFICES ASSUME SurfaceInv, [SurfaceNext]_surfaceVars
             PROVE  row'.run >= row.run
  OBVIOUS
<1>1. row \in RowRecord /\ row.run \in Nat
  BY DEF SurfaceInv, SurfaceTypeOK, RowRecord
<1>2. ASSUME NEW p \in Posters, persistId(p) PROVE row'.run >= row.run
  <2>1. post[p].run \in Nat
    BY RecordOf DEF SurfaceInv
  <2>2. surface = "comment" /\ StillHeld(p) => row.run <= post[p].run
    BY <1>2 DEF SurfaceInv, HolderIsNewest, persistId, PosterAt
  <2> QED  BY <1>1, <1>2, <2>1, <2>2 DEF persistId, MayPersist
<1>3. ASSUME NEW p \in Posters, poster(p), ~persistId(p)
      PROVE  row'.run = row.run
  BY <1>1, <1>3 DEF poster, resolveContext, claimCheckRunSlot, readId,
     readSticky, claimPrCommentSlot, rereadSticky, findMarkerComment,
     sendRequest, releaseClaim, RowRecord
<1>4. \/ UNCHANGED row
      \/ \E p \in Posters : poster(p)
  BY DEF SurfaceNext, surfaceVars, surfaceTick, completed, createServed,
         patchServed, patchMissed, requestFails, posterDies, commentDeleted
<1> QED  BY <1>1, <1>2, <1>3, <1>4

\* The recorded run never goes back to an older one, whatever posters outlive
\* their claims.
THEOREM RecordsGoForward == SurfaceSpec => RecordNeverGoesBack
<1>1. SurfaceInv /\ [SurfaceNext]_surfaceVars => [row'.run >= row.run]_surfaceVars
  BY RecordStep
<1>2. SurfaceSpec => [][SurfaceNext]_surfaceVars
  BY PTL DEF SurfaceSpec
<1> QED  BY <1>1, <1>2, SurfaceInvariant, PTL DEF RecordNeverGoesBack

LEMMA PatchGoesForward ==
    ASSUME SurfaceInv, surface = "comment", NEW p \in Posters, InTime(p),
           NEW c \in DOMAIN posted
    PROVE  \/ posted[c].body.run <= post[p].run
           \/ Strayed(posted[c].body.by)
<1> DEFINE q == posted[c].body.by
<1>1. q \in Posters /\ row.run \in Nat /\ post[p].run \in Nat
      /\ post[q].run \in Nat
  BY MakersAndAuthors, RecordOf DEF SurfaceInv, SurfaceTypeOK
<1>2. row.run <= post[p].run
  BY DEF SurfaceInv, HolderIsNewest, InTime, Waiting, PosterAt
<1>3. /\ posted[c].body.run = post[q].run
      /\ \/ post[q].pc \in {"persist", "release", "failed", "missed", "dead"}
         \/ posted[c].body.run <= row.run
  BY DEF SurfaceInv, BodiesFollow
<1>4. CASE post[q].pc = "persist" /\ StillHeld(q)
  <2>1. Holding(p) /\ StillHeld(p) /\ post[p].pc = "sent"
    BY DEF InTime, Waiting, PosterAt, Holding, Ended
  <2>2. Holding(q)
    BY <1>1, <1>4 DEF SurfaceInv, PostersInStep, Holding, Ended
  <2> QED  BY <1>1, <1>4, <2>1, <2>2, OneHolds
<1> QED  BY <1>1, <1>2, <1>3, <1>4 DEF Strayed

LEMMA CommentStep ==
    ASSUME SurfaceInv, [SurfaceNext]_surfaceVars, surface = "comment",
           NEW c \in DOMAIN posted
    PROVE  \/ posted'[c].body.run >= posted[c].body.run
           \/ posted'[c].body.late
           \/ Strayed(posted[c].body.by)
<1> USE PostedTypes DEF SurfaceInv
<1>1. posted[c].body.run \in Nat /\ posted \in Seq(PostedRecord)
  BY DEF BodyRecord, SurfaceTypeOK, PostedRecord
<1>2. ASSUME posted'[c].body = posted[c].body
      PROVE  posted'[c].body.run >= posted[c].body.run
  BY <1>1, <1>2
<1>3. ASSUME NEW p \in Posters, patchServed(p)
      PROVE  \/ posted'[c].body = posted[c].body
             \/ posted'[c].body = Body(p)
  BY <1>1, <1>3 DEF patchServed, PostedRecord
<1>4. ASSUME NEW p \in Posters, posted'[c].body = Body(p)
      PROVE  \/ posted'[c].body.run >= posted[c].body.run
             \/ posted'[c].body.late
             \/ Strayed(posted[c].body.by)
  <2>1. post[p].run \in Nat
    BY RecordOf
  <2>2. Body(p).run = post[p].run /\ (Body(p).late \/ InTime(p))
    BY DEF Body
  <2> QED  BY <1>1, <1>4, <2>1, <2>2, PatchGoesForward
<1>5. ASSUME NEW p \in Posters, createServed(p)
      PROVE  posted'[c].body = posted[c].body
  BY <1>1, <1>5 DEF createServed
<1>6. ASSUME NEW d \in DOMAIN posted, commentDeleted(d)
      PROVE  posted'[c].body = posted[c].body
  <2>1. posted[c] \in PostedRecord
    BY PostedTypes
  <2> QED  BY <1>1, <1>6, <2>1 DEF commentDeleted, PostedRecord
<1>7. \/ UNCHANGED posted
      \/ \E p \in Posters : createServed(p) \/ patchServed(p)
      \/ \E d \in DOMAIN posted : commentDeleted(d)
  BY DEF SurfaceNext, surfaceVars, surfaceTick, completed, patchMissed,
         requestFails, posterDies, poster, resolveContext,
         claimCheckRunSlot, readId, readSticky, claimPrCommentSlot,
         rereadSticky, findMarkerComment, sendRequest, persistId,
         releaseClaim
<1> QED  BY <1>2, <1>3, <1>4, <1>5, <1>6, <1>7

\* A comment shows an older run again only when the older poster was served
\* after its claim was over or the newer one lost what it wrote.
THEOREM CommentsGoForward == SurfaceSpec => GoesBackOnlyAfterLoss
<1> DEFINE Forward ==
        surface = "comment" =>
          \A c \in DOMAIN posted :
             \/ posted'[c].body.run >= posted[c].body.run
             \/ posted'[c].body.late
             \/ Strayed(posted[c].body.by)
<1>1. SurfaceInv /\ [SurfaceNext]_surfaceVars => [Forward]_surfaceVars
  BY CommentStep
<1>2. SurfaceSpec => [][SurfaceNext]_surfaceVars
  BY PTL DEF SurfaceSpec
<1> QED  BY <1>1, <1>2, SurfaceInvariant, PTL DEF GoesBackOnlyAfterLoss


-----------------------------------------------------------------------------
(* What is shown when every poster went to its end *)

\* What is recorded, or about to be, was created.
TargetsExist ==
    /\ row.id # 0 => row.id \in DOMAIN posted
    /\ \A p \in Posters : PosterAt(p, "persist") => post[p].target \in DOMAIN posted

\* A claim in the row is that of a poster that did not go to its end.
ClaimsHaveOwners ==
    /\ row.claim # 0 =>
           \E q \in Posters : /\ post[q].claim = row.claim
                              /\ post[q].pc \notin {"done", "skipped"}
    /\ \A p \in Posters :
           post[p].pc \in {"new", "context", "claim", "readId", "read"}
               => post[p].claim = 0

\* Runs that completed are those that have a poster.
RunsHavePosters ==
    /\ \A r \in Completed : \E p \in Posters : post[p].run = r
    /\ \A p \in Posters : /\ PosterAt(p, "new") => post[p].run = 0
                          /\ post[p].run # 0 => post[p].run \in Completed
    /\ row.run # 0 => row.run \in Completed

\* A poster of the comment ends well only when its run or a newer one is
\* recorded.
EndsCovered ==
    surface = "comment" =>
        /\ row.run # 0 => row.id # 0
        /\ \A p \in Posters : post[p].pc \in {"done", "skipped", "leave"}
               => post[p].run <= row.run

\* A poster of the check run ends well only when a check run is recorded, or
\* another had claimed the slot before.
CheckCovered ==
    surface = "check" =>
        /\ \A c \in DOMAIN posted : posted[c].body.run = 1
        /\ \A p \in Posters :
              /\ post[p].run \in {0, 1}
              /\ post[p].pc \notin {"read", "held", "list", "leave"}
              /\ IF post[p].claim = 0
                 THEN /\ post[p].pc \in {"patch", "create", "sent", "persist",
                                         "done"} => row.id # 0
                      /\ post[p].pc \in {"readId", "skipped"} =>
                             \/ row.id # 0
                             \/ \E q \in Posters : post[q].claim # 0
                 ELSE /\ post[p].pc # "skipped"
                      /\ PosterAt(p, "done") => row.id # 0

\* Who wrote last at the comment a holder is about to record has not ended
\* well, unless it is the holder; so whoever ended well and wrote last at the
\* recorded comment is the one that was recorded.
Unsettled == {"persist", "release", "failed", "missed", "dead"}
LastWriterRecorded ==
    surface = "comment" =>
        /\ \A p \in Posters : PosterAt(p, "persist") /\ StillHeld(p) =>
               LET b == posted[post[p].target].body.by
               IN  b = p \/ post[b].pc \in Unsettled
        /\ row.id # 0 =>
               \/ post[posted[row.id].body.by].pc \in Unsettled
               \/ posted[row.id].body.run = row.run

ShownInv ==
    /\ TargetsExist
    /\ ClaimsHaveOwners
    /\ RunsHavePosters
    /\ EndsCovered
    /\ CheckCovered
    /\ LastWriterRecorded


\* A move of one poster that writes neither the row nor at GitHub.
QuietMove(p, r) ==
    /\ r \in PosterRecord
    /\ SetPoster(p, r)
    /\ UNCHANGED <<surface, rev, row, posted>>
    /\ ~PosterAt(p, "new") /\ r.pc \notin {"new", "persist"}
    /\ r.claim = post[p].claim /\ r.run = post[p].run
    /\ r.pc \in {"done", "skipped"} => r.claim = 0 \/ ~StillHeld(p)
    /\ r.pc \in {"context", "claim", "readId", "read"} => r.claim = 0
    /\ surface = "comment" =>
           /\ r.pc \in {"done", "skipped", "leave"} => r.run <= row.run
           /\ post[p].pc \in Unsettled => r.pc \in Unsettled
    /\ surface = "check" =>
           /\ r.pc \notin {"read", "held", "list", "leave"}
           /\ IF r.claim = 0
              THEN /\ r.pc \in {"patch", "create", "sent", "done"}
                          => row.id # 0
                   /\ r.pc \in {"readId", "skipped"} =>
                          \/ row.id # 0
                          \/ \E q \in Posters : post[q].claim # 0
              ELSE /\ r.pc # "skipped"
                   /\ r.pc = "done" => row.id # 0

LEMMA PosterMoved ==
    ASSUME SurfaceInv, NEW p \in Posters, NEW r, SetPoster(p, r)
    PROVE  /\ post'[p] = r
           /\ \A q \in Posters : q # p => post'[q] = post[q]
BY DEF SurfaceInv, SurfaceTypeOK, SetPoster

LEMMA QuietStep ==
    ASSUME SurfaceInv, ShownInv, NEW p \in Posters, NEW r, QuietMove(p, r)
    PROVE  ShownInv'
<1>. USE DEF PosterAt
<1>1. /\ post'[p] = r
      /\ \A q \in Posters : q # p => post'[q] = post[q]
      /\ UNCHANGED <<surface, rev, row, posted>>
  BY PosterMoved DEF QuietMove
<1>2. TargetsExist'
  BY <1>1 DEF ShownInv, TargetsExist, QuietMove
<1>3. ClaimsHaveOwners'
  <2>1. ASSUME row.claim # 0
        PROVE  \E q \in Posters : /\ post'[q].claim = row.claim
                                  /\ post'[q].pc \notin {"done", "skipped"}
    <3>1. PICK q \in Posters : /\ post[q].claim = row.claim
                               /\ post[q].pc \notin {"done", "skipped"}
      BY <2>1 DEF ShownInv, ClaimsHaveOwners
    <3>2. CASE q = p
      BY <1>1, <2>1, <3>1, <3>2 DEF QuietMove, StillHeld
    <3>3. CASE q # p
      BY <1>1, <3>1, <3>3
    <3>. QED BY <3>2, <3>3
  <2>2. \A q \in Posters :
           post'[q].pc \in {"new", "context", "claim", "readId", "read"}
               => post'[q].claim = 0
    BY <1>1 DEF ShownInv, ClaimsHaveOwners, QuietMove
  <2>. QED BY <1>1, <2>1, <2>2 DEF ClaimsHaveOwners
<1>4. RunsHavePosters'
  BY <1>1 DEF ShownInv, RunsHavePosters, QuietMove, Completed
<1>5. EndsCovered'
  BY <1>1 DEF ShownInv, EndsCovered, QuietMove
<1>6. CheckCovered'
  BY <1>1 DEF ShownInv, CheckCovered, QuietMove
<1>7. LastWriterRecorded'
  <2>1. ASSUME surface = "comment"
        PROVE  \A q \in Posters : post[q].pc \in Unsettled
                                     => post'[q].pc \in Unsettled
    BY <1>1, <2>1 DEF QuietMove
  <2>2. ASSUME surface = "comment", NEW q \in Posters, post'[q].pc = "persist",
               row.claim = post'[q].claim
        PROVE  /\ post[q].pc = "persist" /\ StillHeld(q)
               /\ post'[q].target = post[q].target
    BY <1>1, <2>2 DEF QuietMove, StillHeld
  <2>3. \A c \in DOMAIN posted : posted[c].body.by \in Posters
    BY PostedTypes DEF SurfaceInv
  <2>4. ASSUME surface = "comment", NEW q \in Posters, post'[q].pc = "persist",
               row.claim = post'[q].claim
        PROVE  LET b == posted[post'[q].target].body.by
               IN  b = q \/ post'[b].pc \in Unsettled
    <3>1. PICK b : b = posted[post[q].target].body.by
      OBVIOUS
    <3>2. b \in Posters /\ (b = q \/ post[b].pc \in Unsettled)
      BY <2>2, <2>3, <2>4, <3>1 DEF ShownInv, TargetsExist, LastWriterRecorded
    <3>3. b = posted[post'[q].target].body.by
      BY <2>2, <2>4, <3>1
    <3>4. b = q \/ post'[b].pc \in Unsettled
      BY <2>1, <2>4, <3>2
    <3>. QED BY <3>3, <3>4
  <2>5. ASSUME surface = "comment", row.id # 0
        PROVE  \/ post'[posted[row.id].body.by].pc \in Unsettled
               \/ posted[row.id].body.run = row.run
    <3>1. posted[row.id].body.by \in Posters
      BY <2>3, <2>5 DEF ShownInv, TargetsExist
    <3>2. \/ post[posted[row.id].body.by].pc \in Unsettled
          \/ posted[row.id].body.run = row.run
      BY <2>5 DEF ShownInv, LastWriterRecorded
    <3>. QED BY <2>1, <2>5, <3>1, <3>2
  <2>. QED BY <1>1, <2>4, <2>5 DEF LastWriterRecorded, StillHeld
<1>. QED BY <1>2, <1>3, <1>4, <1>5, <1>6, <1>7 DEF ShownInv


\* Reads, refusals, lost replies and deaths are quiet moves.
LEMMA QuietSteps ==
    ASSUME SurfaceInv, ShownInv, NEW p \in Posters,
           \/ resolveContext(p) \/ readId(p) \/ readSticky(p)
           \/ rereadSticky(p) \/ findMarkerComment(p) \/ sendRequest(p)
           \/ patchMissed(p) \/ requestFails(p) \/ posterDies(p)
    PROVE  ShownInv'
<1>. USE DEF PosterAt, Controls, Ended, Unsettled
<1>0. /\ SurfaceTypeOK /\ post[p] \in PosterRecord /\ PostersInStep
      /\ surface \in {"check", "comment"}
      /\ row.run \in Nat /\ post[p].run \in Nat /\ row.id \in Nat
  BY RecordOf DEF SurfaceInv, SurfaceTypeOK
<1>a. post[p].pc \in {"new", "context", "claim", "readId", "read"}
          => post[p].claim = 0
  BY DEF ShownInv, ClaimsHaveOwners
<1>b. surface = "comment" =>
          /\ post[p].pc \in {"done", "skipped", "leave"} => post[p].run <= row.run
          /\ post[p].pc \in {"held", "list", "patch", "create", "sent", "persist"}
                 => post[p].claim # 0
  BY <1>0 DEF ShownInv, EndsCovered, PostersInStep
<1>c. surface = "check" =>
          /\ post[p].pc \notin {"read", "held", "list", "leave"}
          /\ IF post[p].claim = 0
             THEN /\ post[p].pc \in {"patch", "create", "sent", "persist",
                                     "done"} => row.id # 0
                  /\ post[p].pc \in {"readId", "skipped"} =>
                         \/ row.id # 0
                         \/ \E q \in Posters : post[q].claim # 0
             ELSE /\ post[p].pc # "skipped"
                  /\ post[p].pc = "done" => row.id # 0
  BY DEF ShownInv, CheckCovered
<1>1. CASE resolveContext(p)
  <2>. DEFINE s == [post[p] EXCEPT !.rev = rev[post[p].run]]
              r == IF surface = "comment" THEN [s EXCEPT !.pc = "read"]
                   ELSE IF row.id = 0 THEN [s EXCEPT !.pc = "claim"]
                   ELSE [s EXCEPT !.pc = "patch", !.target = row.id]
  <2>1. post[p].run # 0 /\ post[p].run \in Runs
    BY <1>0, <1>1 DEF PostersInStep, resolveContext
  <2>2. rev[post[p].run] \in 0 .. MaxRev
    BY <1>0, <2>1 DEF SurfaceTypeOK
  <2>3. s \in PosterRecord /\ s.claim = post[p].claim /\ s.run = post[p].run
    BY <1>0, <2>2
  <2>. HIDE DEF s
  <2>4. /\ r \in PosterRecord
        /\ r.claim = post[p].claim /\ r.run = post[p].run
        /\ IF surface = "comment" THEN r.pc = "read"
           ELSE IF row.id = 0 THEN r.pc = "claim" ELSE r.pc = "patch"
    BY <1>0, <2>3
  <2>5. /\ SetPoster(p, r) /\ post[p].pc = "context"
        /\ UNCHANGED <<surface, rev, row, posted>>
    BY <1>1 DEF resolveContext, s
  <2>. HIDE DEF r
  <2>6. QuietMove(p, r)
    BY <1>0, <1>a, <2>4, <2>5 DEF QuietMove
  <2>. QED BY <2>6, QuietStep
<1>2. CASE readId(p)
  <2>. DEFINE r == IF row.id = 0 THEN [post[p] EXCEPT !.pc = "skipped"]
                   ELSE [post[p] EXCEPT !.pc = "patch", !.target = row.id]
  <2>1. /\ r \in PosterRecord
        /\ r.claim = post[p].claim /\ r.run = post[p].run
        /\ IF row.id = 0 THEN r.pc = "skipped" ELSE r.pc = "patch"
    BY <1>0
  <2>2. /\ SetPoster(p, r) /\ post[p].pc = "readId" /\ surface = "check"
        /\ UNCHANGED <<surface, rev, row, posted>>
    BY <1>0, <1>2 DEF readId, PostersInStep
  <2>. HIDE DEF r
  <2>3. QuietMove(p, r)
    BY <1>a, <1>c, <2>1, <2>2 DEF QuietMove
  <2>. QED BY <2>3, QuietStep
<1>3. CASE readSticky(p)
  <2>. DEFINE s == [post[p] EXCEPT !.initial = IF @ = -1 THEN row.run ELSE @]
              r == [s EXCEPT !.pc = IF Superseded(s, row.run)
                                    THEN "skipped" ELSE "claim"]
  <2>1. /\ s \in PosterRecord /\ s.claim = post[p].claim
        /\ s.run = post[p].run
    <3>1. row.run \in Runs \cup {0}
      BY <1>0 DEF SurfaceTypeOK
    <3>. QED BY <1>0, <3>1
  <2>. HIDE DEF s
  <2>2. /\ r \in PosterRecord
        /\ r.claim = post[p].claim /\ r.run = post[p].run
        /\ r.pc \in {"skipped", "claim"}
        /\ r.pc = "skipped" => Superseded(s, row.run)
    BY <2>1
  <2>3. r.pc = "skipped" => r.run <= row.run
    BY <1>0, <2>1, <2>2 DEF Superseded
  <2>4. /\ SetPoster(p, r) /\ post[p].pc = "read" /\ surface = "comment"
        /\ UNCHANGED <<surface, rev, row, posted>>
    BY <1>0, <1>c, <1>3 DEF readSticky, s
  <2>. HIDE DEF r
  <2>5. QuietMove(p, r)
    BY <1>a, <2>2, <2>3, <2>4 DEF QuietMove
  <2>. QED BY <2>5, QuietStep
<1>4. CASE rereadSticky(p)
  <2>. DEFINE r == IF PassedMeanwhile(post[p], row.run)
                   THEN [post[p] EXCEPT !.pc = "leave"]
                   ELSE [post[p] EXCEPT !.pc = FirstRequest(row.id),
                                        !.target = row.id]
  <2>1. FirstRequest(row.id) \in {"list", "patch"}
    BY DEF FirstRequest
  <2>2. /\ r \in PosterRecord
        /\ r.claim = post[p].claim /\ r.run = post[p].run
        /\ r.pc \in {"leave", "list", "patch"}
        /\ r.pc = "leave" => PassedMeanwhile(post[p], row.run)
    BY <1>0, <2>1
  <2>3. r.pc = "leave" => r.run <= row.run
    BY <1>0, <2>2 DEF PassedMeanwhile, Superseded
  <2>4. /\ SetPoster(p, r) /\ post[p].pc = "held" /\ surface = "comment"
        /\ UNCHANGED <<surface, rev, row, posted>>
    BY <1>0, <1>c, <1>4 DEF rereadSticky
  <2>. HIDE DEF r
  <2>5. QuietMove(p, r)
    BY <2>2, <2>3, <2>4 DEF QuietMove
  <2>. QED BY <2>5, QuietStep
<1>5. CASE findMarkerComment(p)
  <2>2. PICK r \in PosterRecord :
          /\ post' = [post EXCEPT ![p] = r]
          /\ r.pc \in {"create", "patch"}
          /\ r.claim = post[p].claim /\ r.run = post[p].run
    BY <1>0, <1>5, ListingMoves
  <2>3. /\ SetPoster(p, r) /\ post[p].pc = "list" /\ surface = "comment"
        /\ UNCHANGED <<surface, rev, row, posted>>
    BY <1>0, <1>c, <1>5, <2>2 DEF findMarkerComment, SetPoster
  <2>4. QuietMove(p, r)
    BY <2>2, <2>3 DEF QuietMove
  <2>. QED BY <2>4, QuietStep
<1>6. CASE sendRequest(p)
  <2>. DEFINE r == [post[p] EXCEPT !.pc = "sent", !.req = post[p].pc]
  <2>1. /\ SetPoster(p, r) /\ post[p].pc \in {"patch", "create"}
        /\ UNCHANGED <<surface, rev, row, posted>>
    BY <1>6 DEF sendRequest
  <2>2. /\ r \in PosterRecord
        /\ r.claim = post[p].claim /\ r.run = post[p].run
        /\ r.pc = "sent"
    BY <1>0, <2>1
  <2>. HIDE DEF r
  <2>3. QuietMove(p, r)
    BY <1>c, <2>1, <2>2 DEF QuietMove
  <2>. QED BY <2>3, QuietStep
<1>7. CASE patchMissed(p)
  <2>. DEFINE r == IF Waiting(p)
                   THEN [post[p] EXCEPT !.pc = "create", !.req = "none",
                                        !.target = 0, !.cause = "deleted"]
                   ELSE [post[p] EXCEPT !.req = "none"]
  <2>1. /\ SetPoster(p, r) /\ post[p].req # "none"
        /\ UNCHANGED <<surface, rev, row, posted>>
    BY <1>7 DEF patchMissed
  <2>2. post[p].pc \in {"sent", "release", "failed", "dead"}
    BY <1>0, <2>1 DEF PostersInStep
  <2>3. /\ r \in PosterRecord
        /\ r.claim = post[p].claim /\ r.run = post[p].run
        /\ r.pc = IF post[p].pc = "sent" THEN "create" ELSE post[p].pc
    BY <1>0 DEF Waiting
  <2>. HIDE DEF r
  <2>4. QuietMove(p, r)
    BY <1>b, <1>c, <2>1, <2>2, <2>3 DEF QuietMove
  <2>. QED BY <2>4, QuietStep
<1>8. CASE requestFails(p)
  <2>. DEFINE r == [post[p] EXCEPT !.pc = "release"]
  <2>1. /\ SetPoster(p, r) /\ post[p].pc \in {"list", "sent", "persist"}
        /\ UNCHANGED <<surface, rev, row, posted>>
    BY <1>8 DEF requestFails, GoTo
  <2>2. /\ r \in PosterRecord
        /\ r.claim = post[p].claim /\ r.run = post[p].run
        /\ r.pc = "release"
    BY <1>0
  <2>. HIDE DEF r
  <2>3. QuietMove(p, r)
    BY <1>c, <2>1, <2>2 DEF QuietMove
  <2>. QED BY <2>3, QuietStep
<1>9. CASE posterDies(p)
  <2>. DEFINE r == [post[p] EXCEPT !.pc = "dead"]
  <2>1. /\ SetPoster(p, r) /\ post[p].pc # "new"
        /\ UNCHANGED <<surface, rev, row, posted>>
    BY <1>9 DEF posterDies, GoTo
  <2>2. /\ r \in PosterRecord
        /\ r.claim = post[p].claim /\ r.run = post[p].run
        /\ r.pc = "dead"
    BY <1>0
  <2>. HIDE DEF r
  <2>3. QuietMove(p, r)
    BY <1>c, <2>1, <2>2 DEF QuietMove
  <2>. QED BY <2>3, QuietStep
<1>. QED BY <1>1, <1>2, <1>3, <1>4, <1>5, <1>6, <1>7, <1>8, <1>9


\* A completion starts a poster of its run.
LEMMA CompletionShown ==
    ASSUME SurfaceInv, ShownInv, NEW p \in Posters, NEW n \in Runs,
           completed(p, n)
    PROVE  ShownInv'
<1>. DEFINE r == [NewPoster EXCEPT !.pc = "context", !.run = n]
<1>1. /\ r.pc = "context" /\ r.run = n /\ r.claim = 0
  BY DEF NewPoster
<1>2. /\ SetPoster(p, r) /\ post[p].pc = "new" /\ n # 0
      /\ surface = "check" => n = 1
      /\ UNCHANGED <<surface, row, posted>>
  BY DEF completed, PosterAt
<1>. HIDE DEF r
<1>3. /\ post'[p] = r
      /\ \A q \in Posters : q # p => post'[q] = post[q]
  BY <1>2, PosterMoved
<1>4. post[p].claim = 0 /\ post[p].run = 0
  BY <1>2 DEF ShownInv, ClaimsHaveOwners, RunsHavePosters, PosterAt
<1>5. Completed' = Completed \cup {n}
  <2>1. /\ rev \in [Runs -> 0 .. MaxRev]
        /\ rev' = [rev EXCEPT ![n] = @ + 1]
    BY DEF SurfaceInv, SurfaceTypeOK, completed
  <2>. QED BY <2>1 DEF Completed
<1>6. TargetsExist'
  BY <1>1, <1>2, <1>3 DEF ShownInv, TargetsExist, PosterAt
<1>7. ClaimsHaveOwners'
  <2>1. ASSUME row.claim # 0
        PROVE  \E q \in Posters : /\ post'[q].claim = row.claim
                                  /\ post'[q].pc \notin {"done", "skipped"}
    <3>1. PICK q \in Posters : /\ post[q].claim = row.claim
                               /\ post[q].pc \notin {"done", "skipped"}
      BY <2>1 DEF ShownInv, ClaimsHaveOwners
    <3>. QED BY <1>3, <1>4, <2>1, <3>1
  <2>. QED BY <1>1, <1>2, <1>3, <2>1 DEF ShownInv, ClaimsHaveOwners
<1>8. RunsHavePosters'
  <2>1. \A m \in Completed \cup {n} : \E q \in Posters : post'[q].run = m
    <3>. SUFFICES ASSUME NEW m \in Completed, m # n
                  PROVE  \E q \in Posters : post'[q].run = m
      BY <1>1, <1>3
    <3>1. PICK q \in Posters : post[q].run = m
      BY DEF ShownInv, RunsHavePosters
    <3>2. m # 0
      BY DEF Completed
    <3>. QED BY <1>3, <1>4, <3>1, <3>2
  <2>2. \A q \in Posters :
           /\ post'[q].pc = "new" => post'[q].run = 0
           /\ post'[q].run # 0 => post'[q].run \in Completed \cup {n}
    BY <1>1, <1>3 DEF ShownInv, RunsHavePosters, PosterAt
  <2>3. row'.run # 0 => row'.run \in Completed \cup {n}
    BY <1>2 DEF ShownInv, RunsHavePosters
  <2>. QED BY <1>5, <2>1, <2>2, <2>3 DEF RunsHavePosters, PosterAt
<1>9. EndsCovered'
  BY <1>1, <1>2, <1>3 DEF ShownInv, EndsCovered
<1>10. CheckCovered'
  <2>1. (\E q \in Posters : post[q].claim # 0)
            => \E q \in Posters : post'[q].claim # 0
    BY <1>3, <1>4
  <2>. QED BY <1>1, <1>2, <1>3, <2>1 DEF ShownInv, CheckCovered, PosterAt
<1>11. LastWriterRecorded'
  <2>1. \A q \in Posters :
           /\ post[q].pc \in Unsettled => post'[q] = post[q]
           /\ post'[q].pc = "persist" => post'[q] = post[q]
    BY <1>1, <1>2, <1>3 DEF Unsettled
  <2>2. \A c \in DOMAIN posted : posted[c].body.by \in Posters
    BY PostedTypes DEF SurfaceInv
  <2>3. ASSUME surface = "comment", NEW q \in Posters, post'[q].pc = "persist",
               row.claim = post'[q].claim
        PROVE  LET b == posted[post'[q].target].body.by
               IN  b = q \/ post'[b].pc \in Unsettled
    <3>1. /\ post[q].target \in DOMAIN posted
          /\ \/ posted[post[q].target].body.by = q
             \/ post[posted[post[q].target].body.by].pc \in Unsettled
      BY <2>1, <2>3 DEF ShownInv, TargetsExist, LastWriterRecorded, PosterAt,
         StillHeld
    <3>2. post'[q] = post[q]
      BY <2>1, <2>3
    <3>. QED BY <2>1, <2>2, <3>1, <3>2
  <2>4. ASSUME surface = "comment", row.id # 0
        PROVE  \/ post'[posted[row.id].body.by].pc \in Unsettled
               \/ posted[row.id].body.run = row.run
    BY <2>1, <2>2, <2>4 DEF ShownInv, TargetsExist, LastWriterRecorded
  <2>. QED BY <1>2, <2>3, <2>4 DEF LastWriterRecorded, PosterAt, StillHeld
<1>. QED BY <1>6, <1>7, <1>8, <1>9, <1>10, <1>11 DEF ShownInv

\* The winner of a claim owns it, and nobody else is about to record.
LEMMA ClaimShown ==
    ASSUME SurfaceInv, ShownInv, NEW p \in Posters,
           claimCheckRunSlot(p) \/ claimPrCommentSlot(p)
    PROVE  ShownInv'
<1>. USE DEF PosterAt
<1>0. /\ SurfaceTypeOK /\ post[p] \in PosterRecord /\ post[p].pc = "claim"
      /\ surface \in {"check", "comment"} /\ clock \in Nat \ {0}
      /\ row \in RowRecord /\ row.claim \in Nat
      /\ post[p].claim = 0
  <2>1. post[p].pc = "claim"
    BY DEF claimCheckRunSlot, claimPrCommentSlot
  <2>2. post[p].claim = 0
    BY <2>1 DEF ShownInv, ClaimsHaveOwners
  <2>3. row \in RowRecord /\ row.claim \in Nat /\ clock \in Nat \ {0}
    BY DEF SurfaceInv, SurfaceTypeOK, RowRecord
  <2>. QED BY <2>1, <2>2, <2>3, RecordOf DEF SurfaceInv, SurfaceTypeOK
<1>1. CASE /\ surface = "check" /\ ~(row.id = 0 /\ ClaimFree)
           /\ UNCHANGED row /\ GoTo(p, "readId")
           /\ UNCHANGED <<surface, rev, posted>>
  <2>. DEFINE r == [post[p] EXCEPT !.pc = "readId"]
  <2>1. /\ r \in PosterRecord
        /\ r.claim = post[p].claim /\ r.run = post[p].run
        /\ r.pc = "readId" /\ SetPoster(p, r)
    BY <1>0, <1>1 DEF Controls, GoTo
  <2>2. row.id # 0 \/ \E q \in Posters : post[q].claim # 0
    BY <1>1 DEF ClaimFree, ShownInv, ClaimsHaveOwners
  <2>. HIDE DEF r
  <2>3. QuietMove(p, r)
    BY <1>0, <1>1, <2>1, <2>2 DEF QuietMove, Unsettled
  <2>. QED BY <2>3, QuietStep
<1>2. CASE /\ surface = "comment"
           /\ UNCHANGED row /\ SetPoster(p, TryAgain(post[p]))
           /\ UNCHANGED <<surface, rev, posted>>
  <2>. DEFINE r == TryAgain(post[p])
  <2>1. /\ r \in PosterRecord
        /\ r.claim = post[p].claim /\ r.run = post[p].run
        /\ r.pc \in {"read", "busy"}
    <3>1. r \in PosterRecord
      BY <1>0, TryAgainType
    <3>2. /\ r.claim = post[p].claim /\ r.run = post[p].run
          /\ r.pc \in {"read", "busy"}
      BY <1>0 DEF TryAgain
    <3>. QED BY <3>1, <3>2
  <2>. HIDE DEF r
  <2>2. QuietMove(p, r)
    BY <1>0, <1>2, <2>1 DEF QuietMove, Unsettled, r
  <2>. QED BY <2>2, QuietStep
<1>3. ASSUME NEW label \in {"create", "held"}, ClaimFree,
             label = "create" <=> surface = "check",
             row' = [row EXCEPT !.claim = clock],
             SetPoster(p, [post[p] EXCEPT !.pc = label, !.claim = clock]),
             UNCHANGED <<surface, rev, posted>>
      PROVE  ShownInv'
  <2>. DEFINE r == [post[p] EXCEPT !.pc = label, !.claim = clock]
  <2>1. r.pc = label /\ r.claim = clock /\ r.run = post[p].run
    BY <1>0
  <2>. HIDE DEF r
  <2>2. /\ post'[p] = r
        /\ \A q \in Posters : q # p => post'[q] = post[q]
    BY <1>3, PosterMoved DEF r
  <2>3. row'.id = row.id /\ row'.run = row.run /\ row'.claim = clock
    BY <1>0, <1>3 DEF RowRecord
  <2>4. TargetsExist' /\ EndsCovered'
    BY <1>3, <2>1, <2>2, <2>3 DEF ShownInv, TargetsExist, EndsCovered
  <2>5. ClaimsHaveOwners'
    BY <1>0, <1>3, <2>1, <2>2, <2>3 DEF ShownInv, ClaimsHaveOwners
  <2>6. RunsHavePosters'
    BY <1>0, <1>3, <2>1, <2>2, <2>3 DEF ShownInv, RunsHavePosters, Completed
  <2>7. CheckCovered'
    BY <1>0, <1>3, <2>1, <2>2, <2>3 DEF ShownInv, CheckCovered
  <2>8. ASSUME surface = "comment", NEW q \in Posters,
               post'[q].pc = "persist", row'.claim = post'[q].claim
        PROVE  FALSE
    <3>1. q # p /\ post[q].pc = "persist" /\ post[q].claim = clock
      BY <1>3, <2>1, <2>2, <2>3, <2>8
    <3>2. Holding(q)
      BY <1>0, <3>1 DEF Holding, Ended
    <3>3. \/ row.claim = clock
          \/ clock + ClaimTTL < clock
      BY <3>1, <3>2 DEF SurfaceInv, ClaimsFollow, StillHeld
    <3>. QED BY <1>0, <1>3, <3>3 DEF ClaimFree
  <2>9. LastWriterRecorded'
    <3>1. \A c \in DOMAIN posted : posted[c].body.by \in Posters
      BY PostedTypes DEF SurfaceInv
    <3>2. \A q \in Posters : post[q].pc \in Unsettled => post'[q] = post[q]
      BY <1>0, <2>2 DEF Unsettled
    <3>3. ASSUME surface = "comment", row.id # 0
          PROVE  \/ post'[posted[row.id].body.by].pc \in Unsettled
                 \/ posted[row.id].body.run = row.run
      BY <3>1, <3>2, <3>3 DEF ShownInv, TargetsExist, LastWriterRecorded
    <3>. QED BY <1>3, <2>3, <2>8, <3>3 DEF LastWriterRecorded, StillHeld
  <2>. QED BY <2>4, <2>5, <2>6, <2>7, <2>9 DEF ShownInv
<1>4. CASE claimCheckRunSlot(p)
  BY <1>1, <1>3, <1>4 DEF claimCheckRunSlot
<1>5. CASE claimPrCommentSlot(p)
  BY <1>2, <1>3, <1>5 DEF claimPrCommentSlot
<1>. QED BY <1>4, <1>5


\* A served request writes as a poster that has yet to record, or will not.
LEMMA ServedShown ==
    ASSUME SurfaceInv, ShownInv, NEW p \in Posters,
           createServed(p) \/ patchServed(p)
    PROVE  ShownInv'
<1>. USE DEF PosterAt
<1>0. /\ SurfaceTypeOK /\ post[p] \in PosterRecord /\ PostersInStep
      /\ surface \in {"check", "comment"} /\ row.id \in Nat
      /\ posted \in Seq(PostedRecord)
      /\ \A c \in DOMAIN posted : /\ posted[c].body.by \in Posters
                                  /\ posted[c] \in PostedRecord
  BY PostedTypes, RecordOf DEF SurfaceInv, SurfaceTypeOK, PostedRecord
<1>1. /\ post[p].req # "none"
      /\ post[p].pc \in {"sent", "release", "failed", "dead"}
      /\ post[p].run # 0
  BY <1>0 DEF createServed, patchServed, PostersInStep
<1>2. /\ UNCHANGED <<surface, rev, row>>
      /\ post'[p].pc = IF post[p].pc = "sent" THEN "persist" ELSE post[p].pc
      /\ post'[p].claim = post[p].claim /\ post'[p].run = post[p].run
      /\ \A q \in Posters : q # p => post'[q] = post[q]
  <2>. DEFINE r == IF Waiting(p)
                   THEN [post[p] EXCEPT !.pc = "persist", !.req = "none",
                                        !.target = Len(posted) + 1]
                   ELSE [post[p] EXCEPT !.req = "none"]
              u == [post[p] EXCEPT !.req = "none",
                        !.pc = IF Waiting(p) THEN "persist" ELSE @]
  <2>1. /\ r.pc = IF post[p].pc = "sent" THEN "persist" ELSE post[p].pc
        /\ r.claim = post[p].claim /\ r.run = post[p].run
    BY <1>0 DEF Waiting
  <2>2. /\ u.pc = IF post[p].pc = "sent" THEN "persist" ELSE post[p].pc
        /\ u.claim = post[p].claim /\ u.run = post[p].run
    BY <1>0 DEF Waiting
  <2>3. SetPoster(p, r) \/ SetPoster(p, u)
    BY DEF createServed, patchServed
  <2>4. UNCHANGED <<surface, rev, row>>
    BY DEF createServed, patchServed
  <2>. HIDE DEF r, u
  <2>. QED BY <2>1, <2>2, <2>3, <2>4, PosterMoved
<1>3. /\ DOMAIN posted \subseteq DOMAIN posted'
      /\ post'[p].pc = "persist" => post'[p].target \in DOMAIN posted'
      /\ \A c \in DOMAIN posted' :
            \/ posted'[c].body = Body(p)
            \/ c \in DOMAIN posted /\ posted'[c].body = posted[c].body
      /\ post'[p].pc = "persist" => posted'[post'[p].target].body = Body(p)
  <2>1. CASE createServed(p)
    <3>. DEFINE e == [live |-> TRUE, maker |-> p, cause |-> post[p].cause,
                      stray |-> ~InTime(p), body |-> Body(p)]
    <3>1. posted' = Append(posted, e) /\ e.body = Body(p)
      BY <2>1 DEF createServed
    <3>. HIDE DEF e
    <3>2. /\ DOMAIN posted' = 1 .. (Len(posted) + 1)
          /\ DOMAIN posted = 1 .. Len(posted) /\ Len(posted) \in Nat
          /\ posted'[Len(posted) + 1] = e
          /\ \A c \in 1 .. Len(posted) : posted'[c] = posted[c]
      BY <1>0, <3>1
    <3>3. post'[p].pc = "persist" => post'[p].target = Len(posted) + 1
      <4>. DEFINE r == [post[p] EXCEPT !.pc = "persist", !.req = "none",
                                       !.target = Len(posted) + 1]
      <4>1. r.target = Len(posted) + 1
        BY <1>0
      <4>2. Waiting(p) => SetPoster(p, r)
        BY <2>1 DEF createServed
      <4>3. post'[p].pc = "persist" => Waiting(p)
        BY <1>1, <1>2 DEF Waiting
      <4>. HIDE DEF r
      <4>. QED BY <4>1, <4>2, <4>3, PosterMoved
    <3>. QED BY <3>1, <3>2, <3>3
  <2>2. CASE patchServed(p)
    <3>. DEFINE t == post[p].target
    <3>1. t \in DOMAIN posted /\ posted' = [posted EXCEPT ![t].body = Body(p)]
      BY <2>2 DEF patchServed, Live
    <3>2. /\ DOMAIN posted' = DOMAIN posted
          /\ posted'[t].body = Body(p)
          /\ \A c \in DOMAIN posted : c # t => posted'[c] = posted[c]
      BY <1>0, <3>1 DEF PostedRecord
    <3>3. post'[p].target = t
      <4>. DEFINE u == [post[p] EXCEPT !.req = "none",
                            !.pc = IF Waiting(p) THEN "persist" ELSE @]
      <4>1. u.target = t
        BY <1>0
      <4>2. SetPoster(p, u)
        BY <2>2 DEF patchServed
      <4>. HIDE DEF u, t
      <4>. QED BY <4>1, <4>2, PosterMoved
    <3>. HIDE DEF t
    <3>. QED BY <3>1, <3>2, <3>3
  <2>. QED BY <2>1, <2>2
<1>4. Body(p).run = post[p].run /\ Body(p).by = p
  BY DEF Body
<1>. HIDE DEF PosterRecord
<1>5. TargetsExist'
  BY <1>2, <1>3 DEF ShownInv, TargetsExist
<1>6. ClaimsHaveOwners' /\ RunsHavePosters' /\ EndsCovered'
  <2>1. ClaimsHaveOwners'
    <3>1. row.claim # 0 => \E q \in Posters :
              /\ post'[q].claim = row.claim
              /\ post'[q].pc \notin {"done", "skipped"}
      BY <1>1, <1>2 DEF ShownInv, ClaimsHaveOwners
    <3>2. \A q \in Posters :
              post'[q].pc \in {"new", "context", "claim", "readId", "read"}
                  => post'[q].claim = 0
      BY <1>1, <1>2 DEF ShownInv, ClaimsHaveOwners
    <3>. QED BY <1>2, <3>1, <3>2 DEF ClaimsHaveOwners
  <2>2. RunsHavePosters'
    BY <1>1, <1>2 DEF ShownInv, RunsHavePosters, Completed
  <2>3. EndsCovered'
    BY <1>1, <1>2 DEF ShownInv, EndsCovered
  <2>. QED BY <2>1, <2>2, <2>3
<1>7. CheckCovered'
  <2>1. surface = "check" => \A c \in DOMAIN posted' : posted'[c].body.run = 1
    BY <1>1, <1>3, <1>4 DEF ShownInv, CheckCovered
  <2>2. (\E q \in Posters : post[q].claim # 0)
            => \E q \in Posters : post'[q].claim # 0
    BY <1>2
  <2>. QED BY <1>1, <1>2, <2>1, <2>2 DEF ShownInv, CheckCovered
<1>8. LastWriterRecorded'
  <2>1. \A q \in Posters :
           /\ q = p \/ post[q].pc \in Unsettled => post'[q].pc \in Unsettled
           /\ q # p => post'[q] = post[q]
    BY <1>1, <1>2 DEF Unsettled
  <2>2. ASSUME surface = "comment", NEW q \in Posters,
               post'[q].pc = "persist", row.claim = post'[q].claim
        PROVE  LET b == posted'[post'[q].target].body.by
               IN  b = q \/ post'[b].pc \in Unsettled
    <3>1. CASE q = p
      BY <1>3, <1>4, <2>2, <3>1
    <3>2. CASE q # p
      <4>1. PICK t : t = post[q].target
        OBVIOUS
      <4>2. /\ post'[q].target = t /\ t \in DOMAIN posted
            /\ posted[t].body.by = q \/ post[posted[t].body.by].pc \in Unsettled
        BY <2>1, <2>2, <3>2, <4>1 DEF ShownInv, TargetsExist,
           LastWriterRecorded, StillHeld
      <4>3. CASE posted'[t].body = Body(p)
        BY <1>4, <2>1, <4>2, <4>3
      <4>4. CASE posted'[t].body = posted[t].body
        BY <1>0, <2>1, <4>2, <4>4
      <4>. QED BY <1>3, <4>2, <4>3, <4>4
    <3>. QED BY <3>1, <3>2
  <2>3. ASSUME surface = "comment", row.id # 0
        PROVE  \/ post'[posted'[row.id].body.by].pc \in Unsettled
               \/ posted'[row.id].body.run = row.run
    <3>1. /\ row.id \in DOMAIN posted
          /\ \/ post[posted[row.id].body.by].pc \in Unsettled
             \/ posted[row.id].body.run = row.run
      BY <2>3 DEF ShownInv, TargetsExist, LastWriterRecorded
    <3>2. CASE posted'[row.id].body = Body(p)
      BY <1>4, <2>1, <3>2
    <3>3. CASE posted'[row.id].body = posted[row.id].body
      BY <1>0, <2>1, <3>1, <3>3
    <3>. QED BY <1>3, <3>1, <3>2, <3>3
  <2>. QED BY <1>2, <2>2, <2>3 DEF LastWriterRecorded, StillHeld
<1>. QED BY <1>5, <1>6, <1>7, <1>8 DEF ShownInv


\* Who records under its claim is shown, and nothing newer was recorded.
LEMMA RecordedShown ==
    ASSUME SurfaceInv, ShownInv, NEW p \in Posters,
           persistId(p), post[p].claim # 0, StillHeld(p)
    PROVE  ShownInv'
<1>. USE DEF PosterAt
<1>0. /\ post[p] \in PosterRecord /\ post[p].pc = "persist"
      /\ surface \in {"check", "comment"}
      /\ row.run \in Nat
      /\ \A q \in Posters : post[q].run \in Nat
      /\ posted \in Seq(PostedRecord)
  BY RecordOf DEF SurfaceInv, SurfaceTypeOK, persistId, PostedRecord
<1>1. PICK t : t = post[p].target
  OBVIOUS
<1>2. t \in DOMAIN posted /\ t # 0
  <2>1. t \in DOMAIN posted
    BY <1>0, <1>1 DEF ShownInv, TargetsExist
  <2>. QED BY <2>1, PostedTypes DEF SurfaceInv
<1>3. /\ row'.id = t /\ row'.claim = 0
      /\ row'.run = IF surface = "comment" THEN post[p].run ELSE row.run
      /\ UNCHANGED <<surface, rev, posted>>
  BY <1>1 DEF persistId, MayPersist
<1>4. /\ post'[p].pc = "done" /\ post'[p].run = post[p].run
      /\ post'[p].claim = post[p].claim
      /\ \A q \in Posters : q # p => post'[q] = post[q]
  <2>. DEFINE r == [post[p] EXCEPT !.pc = "done"]
  <2>1. r.pc = "done" /\ r.claim = post[p].claim /\ r.run = post[p].run
    BY <1>0
  <2>2. SetPoster(p, r)
    BY DEF persistId, MayPersist, GoTo
  <2>. HIDE DEF r
  <2>. QED BY <2>1, <2>2, PosterMoved
<1>5. surface = "comment" => row.run <= post[p].run
  BY <1>0 DEF SurfaceInv, HolderIsNewest
<1>. HIDE DEF PosterRecord
<1>6. TargetsExist'
  BY <1>2, <1>3, <1>4 DEF ShownInv, TargetsExist
<1>7. ClaimsHaveOwners'
  BY <1>3, <1>4 DEF ShownInv, ClaimsHaveOwners
<1>8. RunsHavePosters'
  BY <1>3, <1>4 DEF ShownInv, RunsHavePosters, Completed
<1>9. EndsCovered'
  <2>1. ASSUME surface = "comment", NEW q \in Posters,
               post'[q].pc \in {"done", "skipped", "leave"}
        PROVE  post'[q].run <= post[p].run
    <3>1. CASE q = p
      BY <1>0, <1>4, <3>1
    <3>2. CASE q # p
      <4>1. post[q].run <= row.run
        BY <1>4, <2>1, <3>2 DEF ShownInv, EndsCovered
      <4>. QED BY <1>0, <1>4, <1>5, <2>1, <3>2, <4>1
    <3>. QED BY <3>1, <3>2
  <2>. QED BY <1>2, <1>3, <2>1 DEF EndsCovered
<1>10. CheckCovered'
  BY <1>0, <1>2, <1>3, <1>4 DEF ShownInv, CheckCovered
<1>11. LastWriterRecorded'
  <2>1. ASSUME surface = "comment", NEW q \in Posters,
               post'[q].pc = "persist", row'.claim = post'[q].claim
        PROVE  FALSE
    BY <1>3, <1>4, <2>1 DEF SurfaceInv, PostersInStep
  <2>2. ASSUME surface = "comment"
        PROVE  \/ post'[posted[t].body.by].pc \in Unsettled
               \/ posted[t].body.run = post[p].run
    <3>1. PICK b : b = posted[t].body.by
      OBVIOUS
    <3>2. b \in Posters /\ (b = p \/ post[b].pc \in Unsettled)
      BY <1>0, <1>1, <1>2, <2>2, <3>1, PostedTypes
         DEF SurfaceInv, ShownInv, LastWriterRecorded
    <3>3. posted[t].body.run = post[b].run
      BY <1>2, <2>2, <3>1 DEF SurfaceInv, BodiesFollow
    <3>. QED BY <1>4, <3>1, <3>2, <3>3
  <2>. QED BY <1>3, <2>1, <2>2 DEF LastWriterRecorded, StillHeld
<1>. QED BY <1>6, <1>7, <1>8, <1>9, <1>10, <1>11 DEF ShownInv

LEMMA PersistShown ==
    ASSUME SurfaceInv, ShownInv, NEW p \in Posters, persistId(p)
    PROVE  ShownInv'
<1>. USE DEF PosterAt
<1>0. /\ post[p] \in PosterRecord /\ post[p].pc = "persist"
      /\ surface \in {"check", "comment"}
      /\ surface = "comment" => post[p].claim # 0
      /\ surface = "check" /\ post[p].claim = 0 => row.id # 0
  BY RecordOf DEF SurfaceInv, SurfaceTypeOK, persistId, PostersInStep,
                  ShownInv, CheckCovered
<1>1. ASSUME NEW label \in {"done", "missed"}, GoTo(p, label), UNCHANGED row,
             label = "done" <=> post[p].claim = 0
      PROVE  ShownInv'
  <2>. DEFINE r == [post[p] EXCEPT !.pc = label]
  <2>1. /\ r \in PosterRecord
        /\ r.claim = post[p].claim /\ r.run = post[p].run /\ r.pc = label
    BY <1>0, <1>1 DEF Controls, Ended
  <2>2. SetPoster(p, r) /\ UNCHANGED <<surface, rev, row, posted>>
    BY <1>1 DEF GoTo, persistId
  <2>. HIDE DEF r
  <2>3. QuietMove(p, r)
    BY <1>0, <1>1, <2>1, <2>2 DEF QuietMove, Unsettled
  <2>. QED BY <2>3, QuietStep
<1>2. CASE post[p].claim = 0
  BY <1>1, <1>2 DEF persistId
<1>3. CASE post[p].claim # 0 /\ ~StillHeld(p)
  BY <1>1, <1>3 DEF persistId, MayPersist
<1>. QED BY <1>2, <1>3, RecordedShown

LEMMA ReleaseShown ==
    ASSUME SurfaceInv, ShownInv, NEW p \in Posters, releaseClaim(p)
    PROVE  ShownInv'
<1>. USE DEF PosterAt
<1>0. /\ post[p] \in PosterRecord
      /\ surface \in {"check", "comment"}
      /\ row \in RowRecord
      /\ post[p].pc \in {"release", "leave"}
      /\ surface = "check" => post[p].pc = "release"
      /\ surface = "comment" /\ post[p].pc = "leave"
             => post[p].run <= row.run
  BY RecordOf DEF SurfaceInv, SurfaceTypeOK, RowRecord, releaseClaim,
                  ShownInv, CheckCovered, EndsCovered
<1>1. PICK label : label = IF PosterAt(p, "leave") THEN "skipped" ELSE "failed"
  OBVIOUS
<1>. DEFINE r == [post[p] EXCEPT !.pc = label]
<1>2. /\ r \in PosterRecord
      /\ r.claim = post[p].claim /\ r.run = post[p].run /\ r.pc = label
  BY <1>0, <1>1 DEF Controls, Ended
<1>3. SetPoster(p, r) /\ UNCHANGED <<surface, rev, posted>>
  BY <1>1 DEF GoTo, releaseClaim
<1>. HIDE DEF r
<1>4. CASE post[p].claim = 0 \/ ~StillHeld(p)
  <2>1. row' = row
    BY <1>4 DEF releaseClaim
  <2>2. QuietMove(p, r)
    BY <1>0, <1>1, <1>2, <1>3, <1>4, <2>1 DEF QuietMove, Unsettled
  <2>. QED BY <2>2, QuietStep
<1>5. CASE post[p].claim # 0 /\ StillHeld(p)
  <2>1. row'.id = row.id /\ row'.run = row.run /\ row'.claim = 0
    BY <1>0, <1>5 DEF releaseClaim, RowRecord
  <2>2. /\ post'[p] = r
        /\ \A q \in Posters : q # p => post'[q] = post[q]
    BY <1>3, PosterMoved
  <2>. HIDE DEF PosterRecord
  <2>3. TargetsExist' /\ ClaimsHaveOwners'
    BY <1>1, <1>2, <1>3, <2>1, <2>2
       DEF ShownInv, TargetsExist, ClaimsHaveOwners
  <2>4. RunsHavePosters'
    BY <1>0, <1>1, <1>2, <1>3, <2>1, <2>2
       DEF ShownInv, RunsHavePosters, Completed
  <2>5. EndsCovered'
    BY <1>0, <1>1, <1>2, <1>3, <2>1, <2>2 DEF ShownInv, EndsCovered
  <2>6. CheckCovered'
    BY <1>0, <1>1, <1>2, <1>3, <1>5, <2>1, <2>2 DEF ShownInv, CheckCovered
  <2>7. LastWriterRecorded'
    <3>1. \A q \in Posters : post[q].pc \in Unsettled
                                => post'[q].pc \in Unsettled
      BY <1>0, <1>1, <1>2, <2>2 DEF Unsettled
    <3>2. ASSUME surface = "comment", NEW q \in Posters,
                 post'[q].pc = "persist", row'.claim = post'[q].claim
          PROVE  FALSE
      BY <1>1, <1>2, <2>1, <2>2, <3>2 DEF SurfaceInv, PostersInStep
    <3>3. ASSUME surface = "comment", row.id # 0
          PROVE  \/ post'[posted[row.id].body.by].pc \in Unsettled
                 \/ posted[row.id].body.run = row.run
      <4>1. /\ posted[row.id].body.by \in Posters
            /\ \/ post[posted[row.id].body.by].pc \in Unsettled
               \/ posted[row.id].body.run = row.run
        BY <3>3, PostedTypes
           DEF SurfaceInv, ShownInv, TargetsExist, LastWriterRecorded
      <4>. QED BY <3>1, <4>1
    <3>. QED BY <1>3, <2>1, <3>2, <3>3 DEF LastWriterRecorded, StillHeld
  <2>. QED BY <2>3, <2>4, <2>5, <2>6, <2>7 DEF ShownInv
<1>. QED BY <1>4, <1>5

LEMMA StillShown ==
    ASSUME SurfaceInv, ShownInv, UNCHANGED <<surface, rev, row, posted, post>>
    PROVE  ShownInv'
<1>1. TargetsExist' /\ ClaimsHaveOwners' /\ RunsHavePosters'
  BY DEF ShownInv, TargetsExist, ClaimsHaveOwners, RunsHavePosters, PosterAt,
         Completed
<1>2. EndsCovered' /\ CheckCovered' /\ LastWriterRecorded'
  BY DEF ShownInv, EndsCovered, CheckCovered, LastWriterRecorded, PosterAt,
         StillHeld
<1>. QED BY <1>1, <1>2 DEF ShownInv

LEMMA DeleteShown ==
    ASSUME SurfaceInv, ShownInv, NEW c \in DOMAIN posted, commentDeleted(c)
    PROVE  ShownInv'
<1>1. /\ posted' = [posted EXCEPT ![c].live = FALSE]
      /\ UNCHANGED <<surface, rev, row, post>>
  BY DEF commentDeleted
<1>2. /\ DOMAIN posted' = DOMAIN posted
      /\ \A d \in DOMAIN posted : posted'[d].body = posted[d].body
  <2>1. posted \in Seq(PostedRecord) /\ posted[c] \in PostedRecord
    BY PostedTypes DEF SurfaceInv, SurfaceTypeOK, PostedRecord
  <2>2. posted'[c].body = posted[c].body
    BY <1>1, <2>1 DEF PostedRecord
  <2>3. \A d \in DOMAIN posted : d # c => posted'[d] = posted[d]
    BY <1>1, <2>1
  <2>. QED BY <1>1, <2>1, <2>2, <2>3
<1>3. TargetsExist' /\ ClaimsHaveOwners' /\ RunsHavePosters'
  BY <1>1, <1>2 DEF ShownInv, TargetsExist, ClaimsHaveOwners,
                    RunsHavePosters, PosterAt, Completed
<1>4. EndsCovered' /\ CheckCovered'
  BY <1>1, <1>2 DEF ShownInv, EndsCovered, CheckCovered, PosterAt
<1>5. LastWriterRecorded'
  <2>1. row.id # 0 => row.id \in DOMAIN posted
    BY DEF ShownInv, TargetsExist
  <2>2. \A p \in Posters : PosterAt(p, "persist")
                              => post[p].target \in DOMAIN posted
    BY DEF ShownInv, TargetsExist
  <2>3. surface = "comment" => \A p \in Posters :
            PosterAt(p, "persist") /\ StillHeld(p) =>
               LET b == posted'[post[p].target].body.by
               IN  b = p \/ post[b].pc \in Unsettled
    BY <1>2, <2>2 DEF ShownInv, LastWriterRecorded
  <2>4. surface = "comment" /\ row.id # 0 =>
               \/ post[posted'[row.id].body.by].pc \in Unsettled
               \/ posted'[row.id].body.run = row.run
    BY <1>2, <2>1 DEF ShownInv, LastWriterRecorded
  <2>. QED BY <1>1, <2>3, <2>4 DEF LastWriterRecorded, PosterAt, StillHeld
<1>. QED BY <1>3, <1>4, <1>5 DEF ShownInv

LEMMA ShownInitially == SurfaceInit => ShownInv
<1>. SUFFICES ASSUME SurfaceInit PROVE ShownInv
  OBVIOUS
<1>. USE DEF SurfaceInit, NewPoster, PosterAt
<1>1. TargetsExist /\ ClaimsHaveOwners
  BY DEF TargetsExist, ClaimsHaveOwners
<1>2. RunsHavePosters
  BY DEF RunsHavePosters, Completed
<1>3. EndsCovered
  BY DEF EndsCovered
<1>4. CheckCovered
  <2>1. DOMAIN posted = {}
    OBVIOUS
  <2>. QED BY <2>1 DEF CheckCovered
<1>5. LastWriterRecorded
  BY DEF LastWriterRecorded
<1>. QED BY <1>1, <1>2, <1>3, <1>4, <1>5 DEF ShownInv

LEMMA ShownNext ==
    SurfaceInv /\ ShownInv /\ [SurfaceNext]_surfaceVars => ShownInv'
<1>. SUFFICES ASSUME SurfaceInv, ShownInv, [SurfaceNext]_surfaceVars
              PROVE  ShownInv'
  OBVIOUS
<1>1. CASE surfaceTick \/ UNCHANGED surfaceVars
  BY <1>1, StillShown DEF surfaceTick, surfaceVars
<1>2. ASSUME NEW p \in Posters, NEW n \in Runs, completed(p, n)
      PROVE  ShownInv'
  BY <1>2, CompletionShown
<1>3. ASSUME NEW p \in Posters, poster(p) PROVE ShownInv'
  BY <1>3, QuietSteps, ClaimShown, PersistShown, ReleaseShown DEF poster
<1>4. ASSUME NEW p \in Posters,
             \/ createServed(p) \/ patchServed(p) \/ patchMissed(p)
             \/ requestFails(p) \/ posterDies(p)
      PROVE  ShownInv'
  BY <1>4, QuietSteps, ServedShown
<1>5. ASSUME NEW c \in DOMAIN posted, commentDeleted(c) PROVE ShownInv'
  BY <1>5, DeleteShown
<1>. QED BY <1>1, <1>2, <1>3, <1>4, <1>5 DEF SurfaceNext

LEMMA ShownInvariant == SurfaceSpec => []ShownInv
<1>1. SurfaceInit => ShownInv
  BY ShownInitially
<1>2. SurfaceInv /\ ShownInv /\ [SurfaceNext]_surfaceVars => ShownInv'
  BY ShownNext
<1>. QED BY <1>1, <1>2, SurfaceInvariant, PTL DEF SurfaceSpec

\* However completions were repeated, delayed, overtaken or retried: when no
\* poster gave up, lost its claim or died, the row names what was created, is
\* free, and what it names shows the newest completed run.
THEOREM NewestIsShown == SurfaceSpec => []NewestRunShown
<1>1. SurfaceInv /\ ShownInv => NewestRunShown
  <2>. SUFFICES ASSUME SurfaceInv, ShownInv, AllWent, Completed # {}
                PROVE  /\ row.id \in DOMAIN posted
                       /\ row.claim = 0
                       /\ posted[row.id].body.run = Max(Completed)
    BY DEF NewestRunShown
  <2>. USE DEF PosterAt
  <2>0. /\ surface \in {"check", "comment"} /\ row.run \in Nat
        /\ Completed \subseteq Nat /\ 0 \notin Completed
    BY DEF SurfaceInv, SurfaceTypeOK, Completed
  <2>1. row.claim = 0
    BY DEF ShownInv, ClaimsHaveOwners, AllWent
  <2>2. ASSUME NEW n \in Completed
        PROVE  \E p \in Posters : /\ post[p].run = n
                                  /\ post[p].pc \in {"done", "skipped"}
    <3>1. PICK p \in Posters : post[p].run = n
      BY DEF ShownInv, RunsHavePosters
    <3>2. post[p].pc # "new"
      BY <2>0, <3>1 DEF ShownInv, RunsHavePosters
    <3>. QED BY <3>1, <3>2 DEF AllWent
  <2>3. CASE surface = "check"
    <3>1. \A n \in Completed : n = 1
      BY <2>0, <2>2, <2>3 DEF ShownInv, CheckCovered
    <3>2. Max(Completed) = 1
      <4>1. 1 \in Completed /\ \A y \in Completed : y <= 1
        BY <3>1
      <4>. QED BY <2>0, <4>1, MaxIs
    <3>3. \A q \in Posters : post[q].claim # 0 => row.id # 0
      BY <2>3 DEF ShownInv, CheckCovered, ClaimsHaveOwners, AllWent
    <3>4. row.id # 0
      <4>1. PICK p \in Posters : post[p].pc \in {"done", "skipped"}
        BY <2>2
      <4>. QED BY <2>3, <3>3, <4>1 DEF ShownInv, CheckCovered
    <3>5. row.id \in DOMAIN posted
      BY <3>4 DEF ShownInv, TargetsExist
    <3>. QED BY <2>1, <2>3, <3>2, <3>5 DEF ShownInv, CheckCovered
  <2>4. CASE surface = "comment"
    <3>1. \A n \in Completed : n <= row.run
      BY <2>2, <2>4 DEF ShownInv, EndsCovered
    <3>2. row.run # 0
      <4>1. PICK n : n \in Completed
        OBVIOUS
      <4>2. n \in Nat /\ n # 0 /\ n <= row.run
        BY <2>0, <3>1, <4>1
      <4>. QED BY <2>0, <4>2
    <3>3. row.run \in Completed
      BY <3>2 DEF ShownInv, RunsHavePosters
    <3>4. Max(Completed) = row.run
      BY <2>0, <3>1, <3>3, MaxIs
    <3>5. row.id # 0 /\ row.id \in DOMAIN posted
      BY <2>4, <3>2 DEF ShownInv, EndsCovered, TargetsExist
    <3>6. posted[row.id].body.by \in Posters
      BY <3>5, PostedTypes DEF SurfaceInv
    <3>7. posted[row.id].body.run = row.run
      BY <2>4, <3>5, <3>6 DEF ShownInv, LastWriterRecorded, AllWent, Unsettled
    <3>. QED BY <2>1, <3>4, <3>5, <3>7
  <2>. QED BY <2>0, <2>3, <2>4
<1>. QED BY <1>1, ShownInvariant, SurfaceInvariant, PTL
=============================================================================
