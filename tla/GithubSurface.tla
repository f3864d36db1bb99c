---------------------------- MODULE GithubSurface ----------------------------
(***************************************************************************)
(* What completed runs write at GitHub: the check run of one run, or the   *)
(* comment that all runs of one pull request share.  Every completion,     *)
(* repeated or made by the watchdog, runs one poster, which first takes a  *)
(* snapshot of the run and then writes what the snapshot said.  The two    *)
(* surfaces share nothing but that snapshot, so a behaviour is about one   *)
(* of them, chosen at the start.                                           *)
(*                                                                         *)
(* A poster may die anywhere, be slower than its claim's time to live, and *)
(* give up a request that GitHub serves later or has already served.  Runs *)
(* are numbered in the order of their ids, which is that of their          *)
(* creation.                                                               *)
(***************************************************************************)
EXTENDS Integers, Sequences, FiniteSets, FiniteSetsExt

CONSTANTS
    Surfaces,    \* those checked: "check", "comment"
    Posters,     \* calls of postGithubRunSurfaces
    Runs,        \* runs of the pull request, numbered from 1
    ClaimTTL,    \* CHECK_CLAIM_TTL_SECONDS, PR_COMMENT_CLAIM_TTL_SECONDS
    Attempts,    \* PR_COMMENT_MUTEX_ATTEMPTS
    MaxRev,      \* bound: completions of one run
    MaxTime,     \* bound: the clock stops here
    MaxFaults,   \* bound: dead posters and requests given up
    MaxDeletes   \* bound: comments deleted by a user

ASSUME SurfaceKinds == Surfaces \subseteq {"check", "comment"}
ASSUME SurfaceRuns == Runs \subseteq Nat \ {0} /\ 1 \in Runs
ASSUME SurfaceBounds ==
    /\ {ClaimTTL, MaxRev, MaxFaults, MaxDeletes} \subseteq Nat
    /\ {MaxTime, Attempts} \subseteq Nat \ {0}

VARIABLES
    surface,    \* which of the two this behaviour is about
    clock,      \* seconds, in ticks
    rev,        \* per run: how often it has been completed
    row,        \* the columns: external id, run that wrote it, claim
    posted,     \* what was created at GitHub, oldest first; ids are positions
    post,       \* per poster: control point and local variables
    faults,     \* history
    deletes     \* history

surfaceVars == <<surface, clock, rev, row, posted, post, faults, deletes>>

-----------------------------------------------------------------------------
NewPoster ==
    [pc |-> "new", run |-> 0, rev |-> 0, initial |-> -1, attempt |-> 0,
     claim |-> 0, target |-> 0, cause |-> "first", req |-> "none"]
PosterAt(p, label) == post[p].pc = label
SetPoster(p, r) == post' = [post EXCEPT ![p] = r]
GoTo(p, label) == SetPoster(p, [post[p] EXCEPT !.pc = label])
Live == {c \in DOMAIN posted : posted[c].live}
StillHeld(p) == row.claim = post[p].claim

SurfaceInit ==
    /\ surface \in Surfaces
    /\ clock = 1
    /\ rev = [r \in Runs |-> 0]
    /\ row = [id |-> 0, run |-> 0, claim |-> 0]
    /\ posted = <<>>
    /\ post = [p \in Posters |-> NewPoster]
    /\ faults = 0 /\ deletes = 0

-----------------------------------------------------------------------------
(* The environment *)

surfaceTick ==
    /\ clock < MaxTime
    /\ clock' = clock + 1
    /\ UNCHANGED <<surface, rev, row, posted, post, faults, deletes>>

\* A run is completed, perhaps with another outcome than before.  A check run
\* belongs to one run.
completed(p, r) ==
    /\ PosterAt(p, "new")
    /\ surface = "check" => r = 1
    /\ rev[r] < MaxRev
    /\ rev' = [rev EXCEPT ![r] = @ + 1]
    /\ SetPoster(p, [NewPoster EXCEPT !.pc = "context", !.run = r])
    /\ UNCHANGED <<surface, clock, row, posted, faults, deletes>>

commentDeleted(c) ==
    /\ surface = "comment"
    /\ deletes < MaxDeletes
    /\ c \in Live
    /\ posted' = [posted EXCEPT ![c].live = FALSE]
    /\ deletes' = deletes + 1
    /\ UNCHANGED <<surface, clock, rev, row, post, faults>>

-----------------------------------------------------------------------------
(* resolveGithubRunContext, and the two ways to the request *)

\* The snapshot; the sticky row exists from here on.
resolveContext(p) ==
    /\ PosterAt(p, "context")
    /\ LET r == [post[p] EXCEPT !.rev = rev[post[p].run]] IN
       SetPoster(p, IF surface = "comment" THEN [r EXCEPT !.pc = "read"]
                    ELSE IF row.id = 0 THEN [r EXCEPT !.pc = "claim"]
                    ELSE [r EXCEPT !.pc = "patch", !.target = row.id])
    /\ UNCHANGED <<surface, clock, rev, row, posted, faults, deletes>>

\* Mutant: a claim excludes nobody.
AlwaysFree == TRUE
ClaimFree == row.claim = 0 \/ row.claim < clock - ClaimTTL

\* postWithClaimedSlot: only the first POST needs the slot.
claimCheckRunSlot(p) ==
    /\ PosterAt(p, "claim") /\ surface = "check"
    /\ IF row.id = 0 /\ ClaimFree
       THEN /\ row' = [row EXCEPT !.claim = clock]
            /\ SetPoster(p, [post[p] EXCEPT !.pc = "create", !.claim = clock])
       ELSE UNCHANGED row /\ GoTo(p, "readId")
    /\ UNCHANGED <<surface, clock, rev, posted, faults, deletes>>

readId(p) ==
    /\ PosterAt(p, "readId")
    /\ SetPoster(p, IF row.id = 0 THEN [post[p] EXCEPT !.pc = "skipped"]
                    ELSE [post[p] EXCEPT !.pc = "patch", !.target = row.id])
    /\ UNCHANGED <<surface, clock, rev, row, posted, faults, deletes>>

\* Mutant: any recorded run covers this one.
AnyRunCovers(r, seen) == seen # 0
\* A newer run is shown, or this one was shown while the poster waited.
Superseded(r, seen) == seen > r.run \/ (seen = r.run /\ r.initial # r.run)

\* postWithWriteMutex: the optimistic read.
readSticky(p) ==
    LET r == [post[p] EXCEPT !.initial = IF @ = -1 THEN row.run ELSE @] IN
    /\ PosterAt(p, "read")
    /\ SetPoster(p, [r EXCEPT !.pc = IF Superseded(r, row.run)
                                     THEN "skipped" ELSE "claim"])
    /\ UNCHANGED <<surface, clock, rev, row, posted, faults, deletes>>

TryAgain(r) == IF r.attempt + 1 < Attempts
               THEN [r EXCEPT !.pc = "read", !.attempt = @ + 1]
               ELSE [r EXCEPT !.pc = "busy"]

claimPrCommentSlot(p) ==
    /\ PosterAt(p, "claim") /\ surface = "comment"
    /\ IF ClaimFree
       THEN /\ row' = [row EXCEPT !.claim = clock]
            /\ SetPoster(p, [post[p] EXCEPT !.pc = "held", !.claim = clock])
       ELSE UNCHANGED row /\ SetPoster(p, TryAgain(post[p]))
    /\ UNCHANGED <<surface, clock, rev, posted, faults, deletes>>

\* Mutant: no recorded id means no comment.
BlindPost(id) == IF id = 0 THEN "create" ELSE "patch"
FirstRequest(id) == IF id = 0 THEN "list" ELSE "patch"

\* Mutant: the read under the mutex is for the id alone.
NeverPassed(r, seen) == FALSE
PassedMeanwhile(r, seen) == Superseded(r, seen)

\* The second read, under the mutex.
rereadSticky(p) ==
    /\ PosterAt(p, "held")
    /\ SetPoster(p, IF PassedMeanwhile(post[p], row.run)
                    THEN [post[p] EXCEPT !.pc = "leave"]
                    ELSE [post[p] EXCEPT !.pc = FirstRequest(row.id),
                                         !.target = row.id])
    /\ UNCHANGED <<surface, clock, rev, row, posted, faults, deletes>>

-----------------------------------------------------------------------------
(* postComment, githubWriteId *)

\* One page of the oldest 100 comments.  A marker comment further down is not
\* found, nor is any in an answer that cannot be read: both count as none.
findMarkerComment(p) ==
    /\ PosterAt(p, "list")
    /\ \/ /\ Live # {}
          /\ SetPoster(p, [post[p] EXCEPT !.pc = "patch", !.target = Min(Live)])
       \/ SetPoster(p, [post[p] EXCEPT !.pc = "create",
                            !.cause = IF Live = {} THEN "first" ELSE "unseen"])
    /\ UNCHANGED <<surface, clock, rev, row, posted, faults, deletes>>

sendRequest(p) ==
    /\ post[p].pc \in {"patch", "create"}
    /\ SetPoster(p, [post[p] EXCEPT !.pc = "sent", !.req = post[p].pc])
    /\ UNCHANGED <<surface, clock, rev, row, posted, faults, deletes>>

Waiting(p) == PosterAt(p, "sent")
InTime(p) == Waiting(p) /\ post[p].claim # 0 /\ StillHeld(p)
Body(p) == [run |-> post[p].run, rev |-> post[p].rev, by |-> p,
            late |-> ~InTime(p)]

createServed(p) ==
    /\ post[p].req = "create"
    /\ posted' = Append(posted,
                    [live |-> TRUE, maker |-> p, cause |-> post[p].cause,
                     stray |-> ~InTime(p), body |-> Body(p)])
    /\ SetPoster(p, IF Waiting(p)
                    THEN [post[p] EXCEPT !.pc = "persist", !.req = "none",
                                         !.target = Len(posted) + 1]
                    ELSE [post[p] EXCEPT !.req = "none"])
    /\ UNCHANGED <<surface, clock, rev, row, faults, deletes>>

patchServed(p) ==
    LET c == post[p].target IN
    /\ post[p].req = "patch"
    /\ c \in Live
    /\ posted' = [posted EXCEPT ![c].body = Body(p)]
    /\ SetPoster(p, [post[p] EXCEPT !.req = "none",
                        !.pc = IF Waiting(p) THEN "persist" ELSE @])
    /\ UNCHANGED <<surface, clock, rev, row, faults, deletes>>

\* 404: the comment was deleted and is created again.
patchMissed(p) ==
    /\ post[p].req = "patch"
    /\ post[p].target \notin Live
    /\ SetPoster(p, IF Waiting(p)
                    THEN [post[p] EXCEPT !.pc = "create", !.req = "none",
                                         !.target = 0, !.cause = "deleted"]
                    ELSE [post[p] EXCEPT !.req = "none"])
    /\ UNCHANGED <<surface, clock, rev, row, posted, faults, deletes>>

\* A time-out, a lost or failed reply, or one without an id.  The request may
\* have been served, and one that was not may still be.
requestFails(p) ==
    /\ faults < MaxFaults
    /\ post[p].pc \in {"list", "sent", "persist"}
    /\ GoTo(p, "release")
    /\ faults' = faults + 1
    /\ UNCHANGED <<surface, clock, rev, row, posted, deletes>>

-----------------------------------------------------------------------------
(* Persisting and releasing: both CAS on the claim *)

\* Mutant: whoever has an answer writes it.
NoCas(p) == TRUE
MayPersist(p) == StillHeld(p)

\* A check run that was patched keeps the id it has.
persistId(p) ==
    /\ PosterAt(p, "persist")
    /\ IF post[p].claim = 0
       THEN UNCHANGED row /\ GoTo(p, "done")
       ELSE IF MayPersist(p)
       THEN /\ row' = [id |-> post[p].target, claim |-> 0,
                       run |-> IF surface = "comment" THEN post[p].run
                               ELSE row.run]
            /\ GoTo(p, "done")
       ELSE UNCHANGED row /\ GoTo(p, "missed")
    /\ UNCHANGED <<surface, clock, rev, posted, faults, deletes>>

\* A failed release is only logged.
releaseClaim(p) ==
    /\ post[p].pc \in {"release", "leave"}
    /\ row' = IF post[p].claim # 0 /\ StillHeld(p)
              THEN [row EXCEPT !.claim = 0] ELSE row
    /\ GoTo(p, IF PosterAt(p, "leave") THEN "skipped" ELSE "failed")
    /\ UNCHANGED <<surface, clock, rev, posted, faults, deletes>>

Ended == {"done", "skipped", "busy", "failed", "missed", "dead"}

\* The invocation is gone, or its token or a statement failed.
posterDies(p) ==
    /\ faults < MaxFaults
    /\ post[p].pc \notin Ended \cup {"new"}
    /\ GoTo(p, "dead")
    /\ faults' = faults + 1
    /\ UNCHANGED <<surface, clock, rev, row, posted, deletes>>

-----------------------------------------------------------------------------
poster(p) ==
    \/ resolveContext(p)
    \/ claimCheckRunSlot(p) \/ readId(p)
    \/ readSticky(p) \/ claimPrCommentSlot(p) \/ rereadSticky(p)
    \/ findMarkerComment(p) \/ sendRequest(p)
    \/ persistId(p) \/ releaseClaim(p)

SurfaceNext ==
    \/ surfaceTick
    \/ \E p \in Posters :
          \/ \E r \in Runs : completed(p, r)
          \/ poster(p)
          \/ createServed(p) \/ patchServed(p) \/ patchMissed(p)
          \/ requestFails(p) \/ posterDies(p)
    \/ \E c \in DOMAIN posted : commentDeleted(c)

SurfaceSpec == SurfaceInit /\ [][SurfaceNext]_surfaceVars

-----------------------------------------------------------------------------
(* Properties *)

Controls == Ended \cup {"new", "context", "claim", "readId", "read", "held",
                        "list", "patch", "create", "sent", "persist",
                        "release", "leave"}
Causes == {"first", "unseen", "deleted"}
PosterRecord ==
    [pc : Controls, run : Runs \cup {0}, rev : 0 .. MaxRev,
     initial : Runs \cup {0, -1}, attempt : 0 .. Attempts - 1,
     claim : 0 .. MaxTime, target : Nat, cause : Causes,
     req : {"none", "patch", "create"}]
BodyRecord == [run : Runs \cup {0}, rev : 0 .. MaxRev, by : Posters,
               late : BOOLEAN]

SurfaceTypeOK ==
    /\ surface \in Surfaces
    /\ clock \in 1 .. MaxTime
    /\ rev \in [Runs -> 0 .. MaxRev]
    /\ row \in [id : Nat, run : Runs \cup {0}, claim : 0 .. MaxTime]
    /\ posted \in Seq([live : BOOLEAN, maker : Posters, cause : Causes,
                       stray : BOOLEAN, body : BodyRecord])
    /\ post \in [Posters -> PosterRecord]
    /\ faults \in 0 .. MaxFaults /\ deletes \in 0 .. MaxDeletes

\* Two posters are between their claim and its end together only when one of
\* them has outlived its claim.
Holders == {p \in Posters : post[p].claim # 0
                            /\ post[p].pc \notin Ended}
HoldersOverlapOnlyExpired ==
    \A p, q \in Holders :
        \/ p = q
        \/ post[p].claim + ClaimTTL < post[q].claim
        \/ post[q].claim + ClaimTTL < post[p].claim

\* A poster that has not brought what it wrote into the row, and will not.
Strayed(p) == \/ post[p].pc \in {"release", "failed", "missed", "dead"}
              \/ post[p].pc \in {"sent", "persist"} /\ ~StillHeld(p)

\* A pull request has one comment, whatever replies were lost, unless a
\* poster was served after its claim was over, the comment had been deleted,
\* or no id was recorded and the listing did not show the comment there was
\* (github-pr-comment.ts: a pull request with 100 comments before the first
\* run is completed "forgoes recovery").  A run has one check run, unless the
\* one that created another never recorded it.
Unexplained(c) ==
    /\ ~posted[c].stray
    /\ IF surface = "comment" THEN posted[c].cause = "first"
       ELSE ~Strayed(posted[c].maker)
OneOfEach ==
    \A c, d \in Live : Unexplained(c) /\ Unexplained(d) => c = d

\* The recorded run never goes back to an older one, however slow a holder.
RecordNeverGoesBack == [][row'.run >= row.run]_surfaceVars

\* A comment goes back to an older run only when the older poster was served
\* after its claim was over, or the newer one never recorded what it wrote.
GoesBackOnlyAfterLoss ==
    [][surface = "comment" =>
         \A c \in DOMAIN posted :
            \/ posted'[c].body.run >= posted[c].body.run
            \/ posted'[c].body.late
            \/ Strayed(posted[c].body.by)]_surfaceVars

\* When every poster went to its end, the newest run is the one shown.
AllWent == \A p \in Posters : post[p].pc \in {"new", "done", "skipped"}
Completed == {r \in Runs : rev[r] > 0}
NewestRunShown ==
    AllWent /\ Completed # {} =>
        /\ row.id \in DOMAIN posted
        /\ row.claim = 0
        /\ posted[row.id].body.run = Max(Completed)

\* github-surface-post.ts: "concurrent PATCHes of the same run are benign
\* because every poster renders the same content".
CheckShowsTheOutcome ==
    surface = "check" /\ AllWent /\ Completed # {} =>
        posted[row.id].body.rev = rev[1]

\* github-pr-comment.ts: the recorded run is "the monotonic guard that stops
\* an older finalize from overwriting a newer run's summary, at GitHub as well
\* as in the DB".
CommentNeverGoesBack ==
    [][surface = "comment" =>
         \A c \in DOMAIN posted :
            posted'[c].body.run >= posted[c].body.run]_surfaceVars
=============================================================================
