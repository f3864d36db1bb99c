----------------------------- MODULE TeamMembers -----------------------------
(***************************************************************************)
(* The members of ONE team: role changes, removals and leaves, invites,    *)
(* member groups, account deletions and the deletion of the team, as       *)
(* PostgreSQL runs their transactions at READ COMMITTED.                   *)
(*                                                                         *)
(* Each statement sees what was committed when it began.  A statement that *)
(* meets a row another transaction has locked waits, and then looks again  *)
(* at that row, not at what it has counted.  What a transaction writes is  *)
(* seen by nobody until it commits, which releases its locks.              *)
(*                                                                         *)
(* A transaction holds the team's key-share lock from its start, so the    *)
(* deletion of the team is one step that needs all of them ended.          *)
(***************************************************************************)
EXTENDS Integers, FiniteSets, FiniteSetsExt

CONSTANTS
    Users,      \* numbered in the order of their membership ids
    Owners,     \* the owners at the start
    Members,    \* the other members at the start
    Invites,    \* invites that were sent
    InviteRole, \* the role an invite grants
    Directed,   \* invites accepted from the picker, not through a link
    Deletable,  \* bound: users who may delete their account
    Txs,        \* transactions in progress at a time
    MaxBegun,   \* bound: transactions in all
    NoTx

ASSUME TeamUsers ==
    /\ Users \subseteq Nat /\ IsFiniteSet(Users)
    /\ Owners \subseteq Users /\ Members \subseteq Users \ Owners
    /\ Owners # {}
    /\ Deletable \subseteq Users
ASSUME TeamInvites ==
    /\ InviteRole \in [Invites -> {"member", "owner"}]
    /\ Directed \subseteq Invites
ASSUME TeamBounds == MaxBegun \in Nat
ASSUME TeamNoTx == NoTx \notin Txs

VARIABLES
    team,       \* the team's row is there
    member,     \* committed role; a user who has left does not come back
    lock,       \* who holds the membership's row lock
    links,      \* users linked to the team's group
    invite,     \* per invite: "live", "expired", "gone"
    inviteLock, \* who holds the invite's row lock
    account,    \* per user: "active", "checked", "deleted"
    begun,      \* history
    tx,         \* per transaction: statement in progress, local variables and,
                \* as history, whether a role changed since it began
    grants,     \* history: memberships granted, per invite
    uncovered,  \* history: a guarded write went on with an owner unlocked
    unguarded   \* history: an account deletion took an owner's row

teamVars == <<team, member, lock, links, invite, inviteLock, account, begun,
              tx, grants, uncovered, unguarded>>
historyVars == <<begun, grants, uncovered, unguarded>>
inviteVars == <<invite, inviteLock>>

-----------------------------------------------------------------------------
InTeam == {u \in Users : member[u] \in {"member", "owner"}}
OwnersNow == {u \in Users : member[u] = "owner"}
Idle == [op |-> "none", pc |-> "idle", user |-> 0, role |-> "member",
         todo |-> {}, found |-> {}, count |-> 0, invite |-> 0,
         outdated |-> FALSE]
TxAt(t, label) == tx[t].pc = label
SetTx(t, r) == tx' = [tx EXCEPT ![t] = r]

TeamInit ==
    /\ team = TRUE
    /\ member = [u \in Users |-> IF u \in Owners THEN "owner"
                                 ELSE IF u \in Members THEN "member"
                                 ELSE "none"]
    /\ lock = [u \in Users |-> NoTx]
    /\ links = {}
    /\ invite = [i \in Invites |-> "live"]
    /\ inviteLock = [i \in Invites |-> NoTx]
    /\ account = [u \in Users |-> "active"]
    /\ begun = 0
    /\ tx = [t \in Txs |-> Idle]
    /\ grants = [i \in Invites |-> 0]
    /\ uncovered = FALSE /\ unguarded = FALSE

\* COMMIT or ROLLBACK: the locks go, and the transaction with them.
Unlocked(locks, t) ==
    [x \in DOMAIN locks |-> IF locks[x] = t THEN NoTx ELSE locks[x]]
Unlock(t) ==
    /\ lock' = Unlocked(lock, t)
    /\ inviteLock' = Unlocked(inviteLock, t)
Finish(t) == Unlock(t) /\ SetTx(t, Idle)

CommitMember(t, u, role) ==
    /\ member' = [member EXCEPT ![u] = role]
    /\ Unlock(t)
    /\ tx' = [s \in Txs |-> IF s = t \/ TxAt(s, "idle") THEN Idle
                            ELSE [tx[s] EXCEPT !.outdated = TRUE]]

\* lockTeamForChildMutation
Begins(t, r) ==
    /\ begun < MaxBegun
    /\ begun' = begun + 1
    /\ TxAt(t, "idle")
    /\ SetTx(t, r)
Starts(t, r) ==
    /\ team
    /\ Begins(t, r)
    /\ UNCHANGED <<team, member, lock, links, inviteVars, account, grants,
                   uncovered, unguarded>>

-----------------------------------------------------------------------------
(* lockOwnerRows: the owners the statement saw, one by one in id order *)

\* Mutant: the rows are read without FOR UPDATE.
ReadOnly(u, t) == lock
Locked(u, t) == [lock EXCEPT ![u] = t]

\* Mutant: groups lock in the opposite order.
OppositeWays(r) == IF r.op = "group" THEN Max(r.todo) ELSE Min(r.todo)
NextRow(r) == Min(r.todo)

lockRow(t) ==
    LET r == tx[t]
        u == NextRow(r)
    IN
    /\ r.pc \in {"lockOwners", "lockAll"}
    /\ r.todo # {}
    /\ lock[u] \in {NoTx, t}
    /\ IF u \in InTeam
       THEN /\ lock' = Locked(u, t)
            /\ SetTx(t, [r EXCEPT !.todo = @ \ {u}, !.found = @ \cup {u}])
       ELSE UNCHANGED lock /\ SetTx(t, [r EXCEPT !.todo = @ \ {u}])
    /\ UNCHANGED <<team, member, links, inviteVars, account, historyVars>>

OwnersLocked(t) ==
    /\ TxAt(t, "lockOwners") /\ tx[t].todo = {}
    /\ uncovered' = (uncovered \/ ~(OwnersNow \subseteq tx[t].found))

-----------------------------------------------------------------------------
(* setMemberRole, removeMemberGuarded, leaveTeamGuarded *)

\* Promoting needs no owner lock.
setMemberRole(t, u, role) ==
    Starts(t, [Idle EXCEPT !.op = "role", !.user = u, !.role = role,
                  !.pc = IF role = "owner" THEN "write" ELSE "lockOwners",
                  !.todo = IF role = "owner" THEN {} ELSE OwnersNow])

\* Leaving is the same transaction on one's own row.
removeMemberGuarded(t, u) ==
    Starts(t, [Idle EXCEPT !.op = "remove", !.user = u, !.pc = "lockOwners",
                           !.todo = OwnersNow])

guardedWrite(t) ==
    /\ tx[t].op \in {"role", "remove"}
    /\ OwnersLocked(t)
    /\ SetTx(t, [tx[t] EXCEPT !.pc = "write", !.found = {}])
    /\ UNCHANGED <<team, member, lock, links, inviteVars, account, begun,
                   grants, unguarded>>

\* Mutant: the guard is left to the lock.
NoGuard(r, count) == r.user \in InTeam
\* notLastOwner, in the WHERE of the UPDATE or DELETE
Matches(r, count) ==
    /\ r.user \in InTeam
    /\ \/ r.op = "role" /\ r.role = "owner"
       \/ r.op = "account"
       \/ member[r.user] # "owner"
       \/ count > 1

\* The statement counts the owners as it begins.
writeBegins(t) ==
    /\ TxAt(t, "write")
    /\ LET n == Cardinality(OwnersNow) IN
       IF Matches(tx[t], n)
       THEN /\ SetTx(t, [tx[t] EXCEPT !.pc = "row", !.count = n])
            /\ UNCHANGED <<lock, inviteLock>>
       ELSE Finish(t)
    /\ UNCHANGED <<team, member, links, invite, account, historyVars>>

\* It has the row, perhaps after a wait.
writeRow(t) ==
    LET r == tx[t] IN
    /\ TxAt(t, "row")
    /\ lock[r.user] \in {NoTx, t}
    /\ IF Matches(r, r.count)
       THEN /\ lock' = [lock EXCEPT ![r.user] = t]
            /\ SetTx(t, [r EXCEPT !.pc = "commit"])
            /\ UNCHANGED inviteLock
       ELSE Finish(t)
    /\ UNCHANGED <<team, member, links, invite, account, historyVars>>

commitRole(t) ==
    /\ TxAt(t, "commit") /\ tx[t].op = "role"
    /\ CommitMember(t, tx[t].user, tx[t].role)
    /\ UNCHANGED <<team, links, invite, account, historyVars>>

\* removeTeamGroupLinks
LinksWithout(u) == links \ {u}

commitRemoval(t) ==
    /\ TxAt(t, "commit") /\ tx[t].op = "remove"
    /\ CommitMember(t, tx[t].user, "left")
    /\ links' = LinksWithout(tx[t].user)
    /\ UNCHANGED <<team, invite, account, historyVars>>

-----------------------------------------------------------------------------
(* createGroup, updateGroup: replaceMembers; deleteGroup *)

replaceMembers(t) ==
    Starts(t, [Idle EXCEPT !.op = "group", !.pc = "lockOwners",
                           !.todo = OwnersNow])

\* The second SELECT ... FOR UPDATE, of all the members.
lockMembers(t) ==
    /\ tx[t].op = "group"
    /\ OwnersLocked(t)
    /\ SetTx(t, [tx[t] EXCEPT !.pc = "lockAll", !.todo = InTeam, !.found = {}])
    /\ UNCHANGED <<team, member, lock, links, inviteVars, account, begun,
                   grants, unguarded>>

\* Mutant: the members are read before they are locked.
PostedMembers(r, S) == S
LiveMembers(r, S) == S \cap r.found

commitGroup(t) ==
    /\ TxAt(t, "lockAll") /\ tx[t].todo = {}
    /\ \E S \in SUBSET Users : links' = LiveMembers(tx[t], S)
    /\ Finish(t)
    /\ UNCHANGED <<team, member, invite, account, historyVars>>

deleteGroup ==
    /\ links # {}
    /\ links' = {}
    /\ UNCHANGED <<team, member, lock, inviteVars, account, tx, historyVars>>

-----------------------------------------------------------------------------
(* consumeTokenInvite, acceptDirectedInvite *)

\* The page lets members through without it; the picker does not look.
joinTeam(t, u, i) ==
    /\ account[u] = "active"
    /\ invite[i] = "live"
    /\ member[u] = "none" \/ (i \in Directed /\ u \in InTeam)
    /\ Starts(t, [Idle EXCEPT !.op = "join", !.user = u, !.invite = i,
                              !.pc = "consume"])

\* Mutant: an invite that was used is taken again.
EverThere(i) == TRUE
StillThere(i) == invite[i] # "gone"

\* DELETE ... RETURNING, with the time read at the start.
consumeInvite(t) ==
    LET i == tx[t].invite IN
    /\ TxAt(t, "consume")
    /\ inviteLock[i] = NoTx
    /\ IF StillThere(i)
       THEN /\ inviteLock' = [inviteLock EXCEPT ![i] = t]
            /\ SetTx(t, [tx[t] EXCEPT !.pc = "insert"])
            /\ UNCHANGED lock
       ELSE Finish(t)
    /\ UNCHANGED <<team, member, links, invite, account, historyVars>>

commitJoin(t) ==
    LET r == tx[t] IN
    /\ TxAt(t, "insert")
    /\ member[r.user] = "none"
    /\ CommitMember(t, r.user, InviteRole[r.invite])
    /\ invite' = [invite EXCEPT ![r.invite] = "gone"]
    /\ grants' = [grants EXCEPT ![r.invite] = @ + 1]
    /\ UNCHANGED <<team, links, account, begun, uncovered, unguarded>>

\* The unique index refuses the insert, once a removal of the row that is
\* under way has ended; a directed invite is retired.
Removing(u) == \E t \in Txs : /\ TxAt(t, "commit") /\ tx[t].user = u
                              /\ tx[t].op \in {"remove", "account"}
insertRefused(t) ==
    LET r == tx[t] IN
    /\ TxAt(t, "insert")
    /\ member[r.user] # "none" /\ ~Removing(r.user)
    /\ invite' = IF r.invite \in Directed
                 THEN [invite EXCEPT ![r.invite] = "gone"] ELSE invite
    /\ Finish(t)
    /\ UNCHANGED <<team, member, links, account, historyVars>>

\* Expiry; a decline, a revocation or the sweep deletes the row.
inviteExpires(i) ==
    /\ invite[i] = "live"
    /\ invite' = [invite EXCEPT ![i] = "expired"]
    /\ UNCHANGED <<team, member, lock, links, inviteLock, account, tx,
                   historyVars>>

dropInvite(i) ==
    /\ invite[i] # "gone" /\ inviteLock[i] = NoTx
    /\ invite' = [invite EXCEPT ![i] = "gone"]
    /\ UNCHANGED <<team, member, lock, links, inviteLock, account, tx,
                   historyVars>>

-----------------------------------------------------------------------------
(* Account deletion, team deletion *)

assertUserDeletable(u) ==
    /\ account[u] = "active"
    /\ ~(member[u] = "owner" /\ Cardinality(OwnersNow) <= 1)
    /\ account' = [account EXCEPT ![u] = "checked"]
    /\ UNCHANGED <<team, member, lock, links, inviteVars, tx, historyVars>>

\* The auth rows are gone; the batch takes no parent lock and no owner lock.
cleanupUserData(t, u) ==
    /\ account[u] = "checked"
    /\ account' = [account EXCEPT ![u] = "deleted"]
    /\ Begins(t, [Idle EXCEPT !.op = "account", !.user = u, !.pc = "write"])
    /\ UNCHANGED <<team, member, lock, links, inviteVars, grants, uncovered,
                   unguarded>>

commitCleanup(t) ==
    LET u == tx[t].user IN
    /\ TxAt(t, "commit") /\ tx[t].op = "account"
    /\ CommitMember(t, u, "left")
    /\ links' = LinksWithout(u)
    /\ unguarded' = (unguarded \/ member[u] = "owner")
    /\ UNCHANGED <<team, invite, account, begun, grants, uncovered>>

\* A failed batch is logged and swallowed.
cleanupFails(t) ==
    /\ tx[t].op = "account"
    /\ Finish(t)
    /\ UNCHANGED <<team, member, links, invite, account, historyVars>>

teardownTeamRows ==
    /\ team
    /\ \A t \in Txs : TxAt(t, "idle")
    /\ team' = FALSE
    /\ member' = [u \in Users |-> IF u \in InTeam THEN "left" ELSE member[u]]
    /\ links' = {}
    /\ invite' = [i \in Invites |-> "gone"]
    /\ UNCHANGED <<lock, inviteLock, account, tx, historyVars>>

-----------------------------------------------------------------------------
(* Deadlocks: PostgreSQL aborts a transaction of a cycle *)

Wants(t) == CASE tx[t].pc \in {"lockOwners", "lockAll"} /\ tx[t].todo # {} ->
                     {NextRow(tx[t])}
              [] tx[t].pc = "row" -> {tx[t].user}
              [] OTHER -> {}
WaitsFor(t) == {lock[u] : u \in Wants(t)} \ {NoTx, t}
\* Sets of transactions that wait for one another in a ring.
Deadlocks ==
    {S \in (SUBSET Txs) \ {{}} :
        /\ \A s \in S : WaitsFor(s) \cap S # {}
        /\ S \subseteq UNION {WaitsFor(s) : s \in S}}

deadlockAborts(t) ==
    /\ \E S \in Deadlocks : t \in S
    /\ Finish(t)
    /\ UNCHANGED <<team, member, links, invite, account, historyVars>>

-----------------------------------------------------------------------------
transaction(t) ==
    \/ lockRow(t) \/ guardedWrite(t) \/ writeBegins(t) \/ writeRow(t)
    \/ commitRole(t) \/ commitRemoval(t)
    \/ lockMembers(t) \/ commitGroup(t)
    \/ consumeInvite(t) \/ commitJoin(t) \/ insertRefused(t)
    \/ commitCleanup(t) \/ cleanupFails(t)
    \/ deadlockAborts(t)

TeamNext ==
    \/ \E t \in Txs :
          \/ transaction(t)
          \/ \E u \in InTeam :
                \/ \E role \in {"member", "owner"} : setMemberRole(t, u, role)
                \/ removeMemberGuarded(t, u)
          \/ replaceMembers(t)
          \/ \E u \in Users, i \in Invites : joinTeam(t, u, i)
          \/ \E u \in Deletable : cleanupUserData(t, u)
    \/ \E u \in Deletable : assertUserDeletable(u)
    \/ \E i \in Invites : inviteExpires(i) \/ dropInvite(i)
    \/ deleteGroup
    \/ teardownTeamRows

TeamSpec == TeamInit /\ [][TeamNext]_teamVars

-----------------------------------------------------------------------------
(* Properties *)

TeamTypeOK ==
    /\ team \in BOOLEAN
    /\ begun \in 0 .. MaxBegun
    /\ member \in [Users -> {"none", "member", "owner", "left"}]
    /\ lock \in [Users -> Txs \cup {NoTx}]
    /\ links \subseteq Users
    /\ invite \in [Invites -> {"live", "expired", "gone"}]
    /\ inviteLock \in [Invites -> Txs \cup {NoTx}]
    /\ account \in [Users -> {"active", "checked", "deleted"}]
    /\ \A t \in Txs :
           /\ tx[t].pc \in {"idle", "lockOwners", "lockAll", "write", "row",
                            "commit", "consume", "insert"}
           /\ tx[t].outdated \in BOOLEAN
           /\ tx[t].todo \subseteq Users
           /\ tx[t].found \subseteq {u \in Users : lock[u] = t}
           /\ tx[t].pc = "idle" =>
                  \A u \in Users : lock[u] # t

\* A team loses its last owner only to an account deletion, or after a guarded
\* write went on while it had not locked every owner: the list it locked was
\* read before the last role changes.
OwnerLossExplained ==
    team => OwnersNow # {} \/ uncovered \/ unguarded

\* A group holds members only, however its edits, removals, account deletions
\* and joins interleave.
LinksAreMembers == links \subseteq InTeam

\* An invite grants one membership, whoever raced to accept it.
InviteGrantsOnce == \A i \in Invites : grants[i] <= 1

\* Locking the owners in one order, and the target or the other members after
\* them, transactions wait for each other on membership rows only when a role
\* has changed since one of them began.  The locks of group rows, link rows and
\* the index of group names are left out.
DeadlockNeedsRoleChange ==
    \A S \in Deadlocks : \E t \in S : tx[t].outdated

\* members-repo.ts: "a team must never be left with zero owners".
OwnerRemains == team => OwnersNow # {}

\* members-repo.ts: "gives every caller the same lock-acquisition order,
\* avoiding a lock-order deadlock between racing peers".
NoDeadlock == Deadlocks = {}
=============================================================================
