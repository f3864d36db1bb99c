-------------------------- MODULE TeamMembersProofs --------------------------
(***************************************************************************)
(* Proofs about TeamMembers, for any team, any invites and any number of   *)
(* transactions: what the row locks a transaction holds keep true until it *)
(* commits, and from that, what happens to groups, invites and owners, and *)
(* which deadlocks there can be.                                           *)
(***************************************************************************)
EXTENDS TeamMembers, SetLemmas

Roles == {"member", "owner"}
TxRecord ==
    [op : {"none", "role", "remove", "group", "join", "account"},
     pc : {"idle", "lockOwners", "lockAll", "write", "row", "commit",
           "consume", "insert"},
     user : Users \cup {0}, role : Roles, todo : SUBSET Users,
     found : SUBSET Users, count : Nat, invite : Invites \cup {0},
     outdated : BOOLEAN]

-----------------------------------------------------------------------------
(* The inductive invariant *)

TeamTypes ==
    /\ team \in BOOLEAN
    /\ begun \in 0 .. MaxBegun
    /\ member \in [Users -> {"none", "member", "owner", "left"}]
    /\ lock \in [Users -> Txs \cup {NoTx}]
    /\ links \in SUBSET Users
    /\ invite \in [Invites -> {"live", "expired", "gone"}]
    /\ inviteLock \in [Invites -> Txs \cup {NoTx}]
    /\ account \in [Users -> {"active", "checked", "deleted"}]
    /\ tx \in [Txs -> TxRecord]
    /\ grants \in [Invites -> Nat]
    /\ uncovered \in BOOLEAN /\ unguarded \in BOOLEAN

\* Which transaction is at which statement, and whom or what it names.
Aimed(t) == /\ tx[t].user \in Users
            /\ tx[t].op \in {"role", "remove", "account"}
StatementFits(t) ==
    /\ TxAt(t, "idle") => tx[t] = Idle
    /\ tx[t].op \in {"role", "remove", "account"} => Aimed(t)
    /\ tx[t].pc \in {"write", "row", "commit"} => Aimed(t)
    /\ TxAt(t, "lockOwners") => tx[t].op \in {"role", "remove", "group"}
    /\ TxAt(t, "lockOwners") /\ tx[t].op = "role" => tx[t].role = "member"
    /\ TxAt(t, "lockAll") => tx[t].op = "group"
    /\ tx[t].pc \in {"consume", "insert"} =>
           /\ tx[t].op = "join"
           /\ tx[t].user \in Users /\ tx[t].invite \in Invites

\* What a transaction has locked it finds as it left it.
LocksHold(t) ==
    /\ tx[t].found \subseteq {u \in InTeam : lock[u] = t}
    /\ TxAt(t, "idle") => \A u \in Users : lock[u] # t
    /\ TxAt(t, "commit") => /\ lock[tx[t].user] = t
                            /\ tx[t].user \in InTeam
    /\ TxAt(t, "insert") => /\ inviteLock[tx[t].invite] = t
                            /\ invite[tx[t].invite] # "gone"

\* An invite that was granted is gone.
GrantsSpent == \A i \in Invites : \/ grants[i] = 0
                                  \/ grants[i] = 1 /\ invite[i] = "gone"

\* A demotion or a removal, past its guard.
Guarded(t) == /\ tx[t].pc \in {"write", "row", "commit"}
              /\ \/ tx[t].op = "remove"
                 \/ tx[t].op = "role" /\ tx[t].role = "member"
\* What it counted it counted of owners that are still there.
CountHolds(t) ==
    TxAt(t, "commit") /\ Guarded(t) /\ member[tx[t].user] = "owner" =>
        tx[t].count > 1
\* As long as every guard covered the owners: one guarded write at a time.
OwnersGuarded ==
    team /\ ~uncovered /\ ~unguarded =>
        /\ OwnersNow # {}
        /\ \A t \in Txs : Guarded(t) => \E u \in OwnersNow : lock[u] = t
        /\ \A s, t \in Txs : Guarded(s) /\ Guarded(t) => s = t
        /\ \A t \in Txs : /\ Guarded(t) /\ tx[t].pc \in {"row", "commit"}
                          /\ tx[t].count > 1
                          => \E u \in OwnersNow : u # tx[t].user

\* What a transaction holds while the roles it has read are the roles now.
Held(t) == {u \in Users : lock[u] = t}
LockOrder(t) ==
    ~tx[t].outdated =>
        /\ TxAt(t, "lockOwners") =>
               /\ Held(t) = tx[t].found
               /\ tx[t].found \cup tx[t].todo = OwnersNow
        /\ TxAt(t, "lockAll") =>
               /\ Held(t) = OwnersNow \cup tx[t].found
               /\ tx[t].todo \subseteq InTeam
        /\ Guarded(t) /\ tx[t].pc \in {"write", "row"} =>
               Held(t) = OwnersNow
        /\ ~Guarded(t) /\ tx[t].pc \in {"write", "row", "consume", "insert"} =>
               Held(t) = {}
        /\ \A u \in tx[t].found, v \in tx[t].todo : u < v
LocksInOrder == \A t \in Txs : LockOrder(t)

TeamInv ==
    /\ TeamTypes
    /\ \A t \in Txs : StatementFits(t) /\ LocksHold(t) /\ CountHolds(t)
    /\ LinksAreMembers
    /\ GrantsSpent
    /\ OwnersGuarded
    /\ LocksInOrder

-----------------------------------------------------------------------------
(* Types *)

LEMMA IdleTyped == Idle \in TxRecord
BY TeamUsers DEF Idle, TxRecord, Roles

LEMMA SetTxTyped ==
    ASSUME TeamTypes, NEW t \in Txs, NEW r \in TxRecord, SetTx(t, r)
    PROVE  tx' \in [Txs -> TxRecord]
BY DEF SetTx, TeamTypes

LEMMA SetTxAt ==
    ASSUME TeamTypes, NEW t \in Txs, NEW r, SetTx(t, r)
    PROVE  /\ tx'[t] = r
           /\ \A s \in Txs : s # t => tx'[s] = tx[s]
BY DEF SetTx, TeamTypes

LEMMA TxTyped ==
    ASSUME TeamTypes, NEW t \in Txs
    PROVE  /\ tx[t] \in TxRecord
           /\ \A pc \in {"write", "row", "commit", "insert"} :
                  /\ [tx[t] EXCEPT !.pc = pc] \in TxRecord
                  /\ [tx[t] EXCEPT !.pc = pc, !.found = {}] \in TxRecord
                  /\ \A n \in Nat :
                         [tx[t] EXCEPT !.pc = pc, !.count = n] \in TxRecord
           /\ \A S \in SUBSET Users :
                  [tx[t] EXCEPT !.pc = "lockAll", !.todo = S, !.found = {}]
                      \in TxRecord
           /\ [tx[t] EXCEPT !.outdated = TRUE] \in TxRecord
           /\ \A u \in Users :
                  /\ [tx[t] EXCEPT !.todo = @ \ {u}, !.found = @ \cup {u}]
                         \in TxRecord
                  /\ [tx[t] EXCEPT !.todo = @ \ {u}] \in TxRecord
<1>1. tx[t] \in TxRecord
  BY DEF TeamTypes
<1>2. ASSUME NEW r \in TxRecord
      PROVE  /\ \A pc \in {"write", "row", "commit", "insert"} :
                    /\ [r EXCEPT !.pc = pc] \in TxRecord
                    /\ [r EXCEPT !.pc = pc, !.found = {}] \in TxRecord
             /\ [r EXCEPT !.outdated = TRUE] \in TxRecord
  BY DEF TxRecord, Roles
<1>3. ASSUME NEW r \in TxRecord, NEW n \in Nat,
             NEW pc \in {"write", "row", "commit", "insert"}
      PROVE  [r EXCEPT !.pc = pc, !.count = n] \in TxRecord
  BY DEF TxRecord, Roles
<1>4. ASSUME NEW r \in TxRecord, NEW S \in SUBSET Users
      PROVE  [r EXCEPT !.pc = "lockAll", !.todo = S, !.found = {}] \in TxRecord
  BY DEF TxRecord, Roles
<1>5. ASSUME NEW r \in TxRecord, NEW u \in Users
      PROVE  [r EXCEPT !.todo = @ \ {u}] \in TxRecord
  <2>1. r.todo \ {u} \in SUBSET Users
    BY DEF TxRecord
  <2> QED  BY <2>1 DEF TxRecord
<1>6. ASSUME NEW r \in TxRecord, NEW u \in Users
      PROVE  [r EXCEPT !.todo = @ \ {u}, !.found = @ \cup {u}] \in TxRecord
  <2>1. r.todo \ {u} \in SUBSET Users /\ (r.found \cup {u}) \in SUBSET Users
    BY DEF TxRecord
  <2> QED  BY <2>1 DEF TxRecord
<1> QED  BY <1>1, <1>2, <1>3, <1>4, <1>5, <1>6

LEMMA OwnersCounted ==
    ASSUME TeamTypes
    PROVE  /\ OwnersNow \in SUBSET Users /\ InTeam \in SUBSET Users
           /\ OwnersNow \subseteq InTeam
           /\ IsFiniteSet(OwnersNow) /\ Cardinality(OwnersNow) \in Nat
<1>1. OwnersNow \subseteq Users
  BY DEF OwnersNow
<1> QED  BY <1>1, TeamUsers, FS_Subset, FS_CardinalityType DEF OwnersNow, InTeam

LEMMA UnlockedTyped ==
    ASSUME TeamTypes, NEW t \in Txs, Unlock(t)
    PROVE  /\ lock' \in [Users -> Txs \cup {NoTx}]
           /\ inviteLock' \in [Invites -> Txs \cup {NoTx}]
           /\ \A u \in Users : lock'[u] # t
           /\ \A s \in Txs : s # t =>
                  /\ \A u \in Users : lock'[u] = s <=> lock[u] = s
                  /\ \A i \in Invites : inviteLock'[i] = s <=> inviteLock[i] = s
<1>1. /\ lock' = [u \in Users |-> IF lock[u] = t THEN NoTx ELSE lock[u]]
      /\ inviteLock' = [i \in Invites |-> IF inviteLock[i] = t THEN NoTx
                                          ELSE inviteLock[i]]
  BY DEF TeamTypes, Unlock, Unlocked
<1>2. NoTx # t /\ \A s \in Txs : NoTx # s
  BY TeamNoTx
<1> QED  BY <1>1, <1>2 DEF TeamTypes

-----------------------------------------------------------------------------
(* What a step of one transaction leaves of the others *)

\* What holds of each transaction by itself.
TxInv(t) == StatementFits(t) /\ LocksHold(t) /\ CountHolds(t)

\* Its record, its locks and the rows they hold are as they were.
LeftAlone(s) ==
    /\ tx'[s] = tx[s]
    /\ \A u \in Users : lock'[u] = s <=> lock[u] = s
    /\ \A i \in Invites : inviteLock'[i] = s <=> inviteLock[i] = s
    /\ \A u \in Users : lock[u] = s => member'[u] = member[u]
    /\ \A i \in Invites : inviteLock[i] = s => invite'[i] = invite[i]

LEMMA OthersKeep ==
    ASSUME TeamTypes, NEW s \in Txs, TxInv(s), LeftAlone(s)
    PROVE  TxInv(s)'
<1>1. StatementFits(s)'
  BY DEF TxInv, LeftAlone, StatementFits, TxAt, Aimed
<1>2. tx[s].found \subseteq Users
  BY DEF TeamTypes, TxRecord
<1>3. LocksHold(s)'
  <2>1. tx'[s].found \subseteq {u \in InTeam' : lock'[u] = s}
    BY <1>2 DEF TxInv, LeftAlone, LocksHold, InTeam
  <2>2. (TxAt(s, "idle") => \A u \in Users : lock[u] # s)'
    BY DEF TxInv, LeftAlone, LocksHold, TxAt
  <2>3. (TxAt(s, "commit") => /\ lock[tx[s].user] = s
                              /\ tx[s].user \in InTeam)'
    BY DEF TxInv, LeftAlone, LocksHold, TxAt, InTeam
  <2>4. (TxAt(s, "insert") => /\ inviteLock[tx[s].invite] = s
                              /\ invite[tx[s].invite] # "gone")'
    BY DEF TxInv, LeftAlone, LocksHold, TxAt, StatementFits
  <2> QED  BY <2>1, <2>2, <2>3, <2>4 DEF LocksHold
<1>4. CountHolds(s)'
  BY DEF TxInv, LeftAlone, CountHolds, LocksHold, TxAt, Guarded, InTeam
<1> QED  BY <1>1, <1>3, <1>4 DEF TxInv

\* Committed or rolled back, a transaction leaves nothing.
LEMMA EndKeeps ==
    ASSUME TeamTypes, NEW t \in Txs, tx'[t] = Idle,
           \A u \in Users : lock'[u] # t
    PROVE  TxInv(t)' /\ LockOrder(t)'
<1>1. TxInv(t)'
  BY TeamUsers DEF TxInv, StatementFits, LocksHold, CountHolds, TxAt, Aimed,
                   Guarded, Idle
<1>2. LockOrder(t)'
  BY DEF LockOrder, Held, TxAt, Guarded, Idle
<1> QED  BY <1>1, <1>2

\* The same roles and the same locks: the same order.
LEMMA OthersInOrder ==
    ASSUME NEW s \in Txs, LockOrder(s), LeftAlone(s), member' = member
    PROVE  LockOrder(s)'
<1>1. Held(s)' = Held(s) /\ tx'[s] = tx[s]
  BY DEF LeftAlone, Held
<1>2. OwnersNow' = OwnersNow /\ InTeam' = InTeam
  BY DEF OwnersNow, InTeam
<1> QED  BY <1>1, <1>2 DEF LockOrder, TxAt, Guarded

-----------------------------------------------------------------------------
(* The three kinds of step a transaction takes *)

\* A statement of transaction t: it may lock rows nobody has locked.
Acquires(t, r) ==
    /\ SetTx(t, r)
    /\ member' = member /\ invite' = invite
    /\ \A u \in Users : \/ lock'[u] = lock[u]
                        \/ lock[u] \in {NoTx, t} /\ lock'[u] = t
    /\ \A i \in Invites : \/ inviteLock'[i] = inviteLock[i]
                          \/ inviteLock[i] = NoTx /\ inviteLock'[i] = t

LEMMA AcquiresLeaves ==
    ASSUME TeamTypes, NEW t \in Txs, NEW r, Acquires(t, r)
    PROVE  /\ tx'[t] = r
           /\ \A s \in Txs : s # t => LeftAlone(s)
           /\ \A u \in Users : lock[u] = t => lock'[u] = t
<1>1. tx'[t] = r /\ \A s \in Txs : s # t => tx'[s] = tx[s]
  BY SetTxAt DEF Acquires
<1> QED  BY <1>1, TeamNoTx DEF Acquires, LeftAlone

\* The end of transaction t that commits no membership: at most the invite it
\* holds is gone.
Ends(t) ==
    /\ Finish(t)
    /\ member' = member
    /\ \A i \in Invites : \/ invite'[i] = invite[i]
                          \/ inviteLock[i] = t /\ invite'[i] = "gone"

LEMMA EndsLeaves ==
    ASSUME TeamTypes, NEW t \in Txs, Ends(t)
    PROVE  /\ tx'[t] = Idle
           /\ \A u \in Users : lock'[u] # t
           /\ \A s \in Txs : s # t => LeftAlone(s)
<1>1. tx'[t] = Idle /\ \A s \in Txs : s # t => tx'[s] = tx[s]
  BY SetTxAt DEF Ends, Finish
<1> QED  BY <1>1, UnlockedTyped DEF Ends, Finish, LeftAlone

\* Transaction t commits a membership row: one it holds, or a new one.
Commits(t, u, role) ==
    /\ CommitMember(t, u, role)
    /\ \/ lock[u] = t
       \/ member[u] = "none" /\ role \in Roles
    /\ \A i \in Invites : \/ invite'[i] = invite[i]
                          \/ inviteLock[i] = t /\ invite'[i] = "gone"

LEMMA CommitsLeaves ==
    ASSUME TeamTypes, NEW t \in Txs, NEW u \in Users, NEW role \in Roles \cup {"left"},
           Commits(t, u, role), \A s \in Txs : TxInv(s)
    PROVE  \A s \in Txs : TxInv(s)' /\ LockOrder(s)'
<1>1. tx' = [s \in Txs |-> IF s = t \/ TxAt(s, "idle") THEN Idle
                           ELSE [tx[s] EXCEPT !.outdated = TRUE]]
  BY DEF Commits, CommitMember
<1>2. member' = [member EXCEPT ![u] = role]
  BY DEF Commits, CommitMember
<1>3. Unlock(t)
  BY DEF Commits, CommitMember
<1> SUFFICES ASSUME NEW s \in Txs PROVE TxInv(s)' /\ LockOrder(s)'
  OBVIOUS
<1>4. CASE s = t
  <2>1. tx'[s] = Idle
    BY <1>1, <1>4
  <2> QED  BY <2>1, <1>4, <1>3, UnlockedTyped, EndKeeps
<1>5. CASE s # t /\ TxAt(s, "idle")
  <2>1. tx'[s] = Idle
    BY <1>1, <1>5
  <2>2. \A v \in Users : lock[v] # s
    BY <1>5 DEF TxInv, LocksHold
  <2>3. \A v \in Users : lock'[v] # s
    BY <2>2, <1>5, <1>3, UnlockedTyped
  <2> QED  BY <2>1, <2>3, EndKeeps
<1>6. CASE s # t /\ ~TxAt(s, "idle")
  <2>1. tx'[s] = [tx[s] EXCEPT !.outdated = TRUE]
    BY <1>1, <1>6
  <2>2. tx[s] \in TxRecord
    BY DEF TeamTypes
  <2>3. /\ tx'[s].pc = tx[s].pc /\ tx'[s].op = tx[s].op
        /\ tx'[s].user = tx[s].user /\ tx'[s].role = tx[s].role
        /\ tx'[s].found = tx[s].found /\ tx'[s].invite = tx[s].invite
        /\ tx'[s].count = tx[s].count /\ tx'[s].outdated = TRUE
    BY <2>1, <2>2 DEF TxRecord
  <2>4. /\ \A v \in Users : lock'[v] = s <=> lock[v] = s
        /\ \A i \in Invites : inviteLock'[i] = s <=> inviteLock[i] = s
    BY <1>6, <1>3, UnlockedTyped
  <2>5. \A i \in Invites : inviteLock[i] = s => invite'[i] = invite[i]
    BY <1>6 DEF Commits
  <2>6. \A v \in Users : lock[v] = s /\ v \in InTeam =>
           /\ v \in InTeam' /\ member'[v] = member[v]
    BY <1>6, <1>2 DEF Commits, InTeam, TeamTypes, Roles
  <2>0. /\ StatementFits(s) /\ LocksHold(s) /\ CountHolds(s)
        /\ TxAt(s, "commit") => tx[s].user \in Users
        /\ TxAt(s, "insert") => tx[s].invite \in Invites
    BY DEF TxInv, StatementFits, TxAt, Aimed
  <2>7. StatementFits(s)'
    BY <2>3, <1>6 DEF TxInv, StatementFits, TxAt, Aimed
  <2>8. tx[s].found \subseteq Users
    BY <2>2 DEF TxRecord
  <2>9. LocksHold(s)'
    <3>1. tx'[s].found \subseteq {v \in InTeam' : lock'[v] = s}
      BY <2>3, <2>4, <2>6, <2>8 DEF TxInv, LocksHold
    <3>2. (TxAt(s, "commit") => /\ lock[tx[s].user] = s
                                /\ tx[s].user \in InTeam)'
      BY <2>0, <2>3, <2>4, <2>6 DEF LocksHold, TxAt
    <3>3. (TxAt(s, "insert") => /\ inviteLock[tx[s].invite] = s
                                /\ invite[tx[s].invite] # "gone")'
      BY <2>0, <2>3, <2>4, <2>5 DEF LocksHold, TxAt
    <3> QED  BY <3>1, <3>2, <3>3, <2>3, <1>6 DEF LocksHold, TxAt
  <2>10. CountHolds(s)'
    BY <2>0, <2>3, <2>6 DEF CountHolds, LocksHold, TxAt, Guarded
  <2> QED  BY <2>3, <2>7, <2>9, <2>10 DEF TxInv, LockOrder
<1> QED  BY <1>4, <1>5, <1>6

\* The record of a transaction that begins.
BegunRole(u, role) ==
    [Idle EXCEPT !.op = "role", !.user = u, !.role = role,
                 !.pc = IF role = "owner" THEN "write" ELSE "lockOwners",
                 !.todo = IF role = "owner" THEN {} ELSE OwnersNow]
BegunRemoval(u) == [Idle EXCEPT !.op = "remove", !.user = u,
                                !.pc = "lockOwners", !.todo = OwnersNow]
BegunGroup == [Idle EXCEPT !.op = "group", !.pc = "lockOwners",
                           !.todo = OwnersNow]
BegunJoin(u, i) == [Idle EXCEPT !.op = "join", !.user = u, !.invite = i,
                                !.pc = "consume"]
BegunAccount(u) == [Idle EXCEPT !.op = "account", !.user = u, !.pc = "write"]

LEMMA BegunTyped ==
    ASSUME TeamTypes, NEW u \in Users
    PROVE  /\ \A role \in Roles : BegunRole(u, role) \in TxRecord
           /\ BegunRemoval(u) \in TxRecord
           /\ BegunGroup \in TxRecord
           /\ \A i \in Invites : BegunJoin(u, i) \in TxRecord
           /\ BegunAccount(u) \in TxRecord
<1>1. OwnersNow \in SUBSET Users
  BY OwnersCounted
<1>2. ASSUME NEW role \in Roles PROVE BegunRole(u, role) \in TxRecord
  BY <1>1, <1>2 DEF BegunRole, Idle, TxRecord, Roles
<1>3. BegunRemoval(u) \in TxRecord
  BY <1>1 DEF BegunRemoval, Idle, TxRecord, Roles
<1>4. BegunGroup \in TxRecord
  BY <1>1 DEF BegunGroup, Idle, TxRecord, Roles
<1>5. ASSUME NEW i \in Invites PROVE BegunJoin(u, i) \in TxRecord
  BY <1>5 DEF BegunJoin, Idle, TxRecord, Roles
<1>6. BegunAccount(u) \in TxRecord
  BY DEF BegunAccount, Idle, TxRecord, Roles
<1> QED  BY <1>2, <1>3, <1>4, <1>5, <1>6

LEMMA BeginsTyped ==
    ASSUME TeamTypes, NEW t \in Txs, NEW r \in TxRecord, Begins(t, r)
    PROVE  begun' \in 0 .. MaxBegun /\ tx' \in [Txs -> TxRecord]
<1>1. tx' \in [Txs -> TxRecord]
  BY SetTxTyped DEF Begins
<1>2. begun' \in 0 .. MaxBegun
  BY TeamBounds DEF Begins, TeamTypes
<1> QED  BY <1>1, <1>2

LEMMA StartsTyped ==
    ASSUME TeamTypes, NEW t \in Txs, NEW r \in TxRecord, Starts(t, r)
    PROVE  TeamTypes'
<1>1. begun' \in 0 .. MaxBegun /\ tx' \in [Txs -> TxRecord]
  BY BeginsTyped DEF Starts
<1> QED  BY <1>1 DEF Starts, TeamTypes, inviteVars

LEMMA FinishTyped ==
    ASSUME TeamTypes, NEW t \in Txs, Finish(t)
    PROVE  /\ lock' \in [Users -> Txs \cup {NoTx}]
           /\ inviteLock' \in [Invites -> Txs \cup {NoTx}]
           /\ tx' \in [Txs -> TxRecord]
BY UnlockedTyped, IdleTyped, SetTxTyped DEF Finish

LEMMA CommitTyped ==
    ASSUME TeamTypes, NEW t \in Txs, NEW u \in Users,
           NEW role \in Roles \cup {"left"}, CommitMember(t, u, role)
    PROVE  /\ member' \in [Users -> {"none", "member", "owner", "left"}]
           /\ lock' \in [Users -> Txs \cup {NoTx}]
           /\ inviteLock' \in [Invites -> Txs \cup {NoTx}]
           /\ tx' \in [Txs -> TxRecord]
<1>1. tx' \in [Txs -> TxRecord]
  BY IdleTyped, TxTyped DEF CommitMember
<1>2. member' \in [Users -> {"none", "member", "owner", "left"}]
  BY DEF CommitMember, TeamTypes, Roles
<1> QED  BY <1>1, <1>2, UnlockedTyped DEF CommitMember

LEMMA TransactionTyped ==
    ASSUME TeamTypes, NEW t \in Txs, TxInv(t), transaction(t)
    PROVE  TeamTypes'
<1> USE DEF inviteVars, historyVars
<1>0. /\ tx[t] \in TxRecord
      /\ TxAt(t, "write") \/ TxAt(t, "row") \/ TxAt(t, "commit") =>
             tx[t].user \in Users
      /\ TxAt(t, "consume") \/ TxAt(t, "insert") =>
             tx[t].user \in Users /\ tx[t].invite \in Invites
      /\ NoTx \notin Txs
  BY TeamNoTx, TxTyped DEF TxInv, StatementFits, TxAt, Aimed
<1>1. CASE lockRow(t)
  <2>1. PICK u : u = NextRow(tx[t])
    OBVIOUS
  <2>2. u \in Users
    BY <1>0, <1>1, <2>1, MinIn, TeamUsers DEF lockRow, NextRow, TxRecord
  <2>3. tx' \in [Txs -> TxRecord]
    BY <1>1, <2>1, <2>2, TxTyped, SetTxTyped DEF lockRow
  <2>4. lock' \in [Users -> Txs \cup {NoTx}]
    BY <1>1, <2>1, <2>2 DEF lockRow, Locked, TeamTypes
  <2> QED  BY <1>1, <2>3, <2>4 DEF lockRow, TeamTypes
<1>2. CASE guardedWrite(t)
  <2>1. tx' \in [Txs -> TxRecord]
    BY <1>2, TxTyped, SetTxTyped DEF guardedWrite
  <2>2. uncovered' \in BOOLEAN
    BY <1>2 DEF guardedWrite, OwnersLocked, TeamTypes
  <2> QED  BY <1>2, <2>1, <2>2 DEF guardedWrite, TeamTypes
<1>3. CASE writeBegins(t)
  <2>1. Cardinality(OwnersNow) \in Nat
    BY OwnersCounted
  <2>2. /\ tx' \in [Txs -> TxRecord]
        /\ lock' \in [Users -> Txs \cup {NoTx}]
        /\ inviteLock' \in [Invites -> Txs \cup {NoTx}]
    <3>1. CASE Matches(tx[t], Cardinality(OwnersNow))
      <4>1. [tx[t] EXCEPT !.pc = "row", !.count = Cardinality(OwnersNow)]
                \in TxRecord
        BY <2>1, TxTyped
      <4>2. SetTx(t, [tx[t] EXCEPT !.pc = "row",
                                   !.count = Cardinality(OwnersNow)])
        BY <1>3, <3>1 DEF writeBegins
      <4> QED  BY <1>3, <3>1, <4>1, <4>2, SetTxTyped DEF writeBegins, TeamTypes
    <3>2. CASE ~Matches(tx[t], Cardinality(OwnersNow))
      BY <1>3, <3>2, FinishTyped DEF writeBegins
    <3> QED  BY <3>1, <3>2
  <2> QED  BY <1>3, <2>2 DEF writeBegins, TeamTypes
<1>4. CASE writeRow(t)
  <2>1. /\ tx' \in [Txs -> TxRecord]
        /\ lock' \in [Users -> Txs \cup {NoTx}]
        /\ inviteLock' \in [Invites -> Txs \cup {NoTx}]
    <3>1. CASE Matches(tx[t], tx[t].count)
      <4>1. tx' \in [Txs -> TxRecord]
        BY <1>4, <3>1, TxTyped, SetTxTyped DEF writeRow
      <4> QED  BY <1>4, <3>1, <4>1 DEF writeRow, TeamTypes
    <3>2. CASE ~Matches(tx[t], tx[t].count)
      BY <1>4, <3>2, FinishTyped DEF writeRow
    <3> QED  BY <3>1, <3>2
  <2> QED  BY <1>4, <2>1 DEF writeRow, TeamTypes
<1>5. CASE commitRole(t)
  <2>1. tx[t].user \in Users /\ tx[t].role \in Roles \cup {"left"}
    BY <1>0, <1>5 DEF commitRole, TxRecord
  <2> QED  BY <1>5, <2>1, CommitTyped DEF commitRole, TeamTypes
<1>6. CASE commitRemoval(t)
  BY <1>0, <1>6, CommitTyped DEF commitRemoval, TeamTypes, LinksWithout
<1>7. CASE lockMembers(t)
  <2>1. [tx[t] EXCEPT !.pc = "lockAll", !.todo = InTeam, !.found = {}]
            \in TxRecord
    BY OwnersCounted, TxTyped
  <2>2. tx' \in [Txs -> TxRecord]
    BY <1>7, <2>1, SetTxTyped DEF lockMembers
  <2> QED  BY <1>7, <2>2 DEF lockMembers, OwnersLocked, TeamTypes
<1>8. CASE commitGroup(t)
  <2>1. links' \in SUBSET Users
    BY <1>8 DEF commitGroup, LiveMembers
  <2> QED  BY <1>8, <2>1, FinishTyped DEF commitGroup, TeamTypes
<1>9. CASE consumeInvite(t)
  <2>1. tx[t].invite \in Invites
    BY <1>0, <1>9 DEF consumeInvite
  <2>2. /\ tx' \in [Txs -> TxRecord]
        /\ lock' \in [Users -> Txs \cup {NoTx}]
        /\ inviteLock' \in [Invites -> Txs \cup {NoTx}]
    <3>1. CASE StillThere(tx[t].invite)
      <4>1. tx' \in [Txs -> TxRecord]
        BY <1>9, <3>1, TxTyped, SetTxTyped DEF consumeInvite
      <4> QED  BY <1>9, <2>1, <3>1, <4>1 DEF consumeInvite, TeamTypes
    <3>2. CASE ~StillThere(tx[t].invite)
      BY <1>9, <3>2, FinishTyped DEF consumeInvite
    <3> QED  BY <3>1, <3>2
  <2> QED  BY <1>9, <2>2 DEF consumeInvite, TeamTypes
<1>10. CASE commitJoin(t)
  <2>1. /\ tx[t].user \in Users /\ tx[t].invite \in Invites
        /\ InviteRole[tx[t].invite] \in Roles \cup {"left"}
    BY <1>0, <1>10, TeamInvites DEF commitJoin, Roles
  <2>2. /\ invite' \in [Invites -> {"live", "expired", "gone"}]
        /\ grants' \in [Invites -> Nat]
    BY <1>10, <2>1 DEF commitJoin, TeamTypes
  <2> QED  BY <1>10, <2>1, <2>2, CommitTyped DEF commitJoin, TeamTypes
<1>11. CASE insertRefused(t)
  <2>1. invite' \in [Invites -> {"live", "expired", "gone"}]
    BY <1>11 DEF insertRefused, TeamTypes
  <2> QED  BY <1>11, <2>1, FinishTyped DEF insertRefused, TeamTypes
<1>12. CASE commitCleanup(t)
  <2>1. unguarded' \in BOOLEAN /\ links' \in SUBSET Users
    BY <1>12 DEF commitCleanup, LinksWithout, TeamTypes
  <2> QED  BY <1>0, <1>12, <2>1, CommitTyped DEF commitCleanup, TeamTypes
<1>13. CASE cleanupFails(t)
  BY <1>13, FinishTyped DEF cleanupFails, TeamTypes
<1>14. CASE deadlockAborts(t)
  BY <1>14, FinishTyped DEF deadlockAborts, TeamTypes
<1> QED  BY <1>1, <1>2, <1>3, <1>4, <1>5, <1>6, <1>7, <1>8, <1>9, <1>10,
            <1>11, <1>12, <1>13, <1>14 DEF transaction

LEMMA StepTyped ==
    ASSUME TeamInv, [TeamNext]_teamVars
    PROVE  TeamTypes'
<1> USE DEF inviteVars, historyVars
<1>0. TeamTypes /\ \A t \in Txs : TxInv(t)
  BY DEF TeamInv, TxInv
<1>1. ASSUME NEW t \in Txs, transaction(t) PROVE TeamTypes'
  BY <1>0, <1>1, TransactionTyped
<1>2. ASSUME NEW t \in Txs, NEW u \in InTeam, NEW role \in Roles,
             setMemberRole(t, u, role)
      PROVE  TeamTypes'
  BY <1>0, <1>2, BegunTyped, StartsTyped DEF setMemberRole, BegunRole, InTeam
<1>3. ASSUME NEW t \in Txs, NEW u \in InTeam, removeMemberGuarded(t, u)
      PROVE  TeamTypes'
  BY <1>0, <1>3, BegunTyped, StartsTyped
     DEF removeMemberGuarded, BegunRemoval, InTeam
<1>4. ASSUME NEW t \in Txs, replaceMembers(t) PROVE TeamTypes'
  <2>1. \E u \in Users : TRUE
    BY TeamUsers
  <2> QED  BY <1>0, <1>4, <2>1, BegunTyped, StartsTyped
              DEF replaceMembers, BegunGroup
<1>5. ASSUME NEW t \in Txs, NEW u \in Users, NEW i \in Invites,
             joinTeam(t, u, i)
      PROVE  TeamTypes'
  BY <1>0, <1>5, BegunTyped, StartsTyped DEF joinTeam, BegunJoin
<1>6. ASSUME NEW t \in Txs, NEW u \in Deletable, cleanupUserData(t, u)
      PROVE  TeamTypes'
  <2>1. u \in Users
    BY TeamUsers
  <2>2. begun' \in 0 .. MaxBegun /\ tx' \in [Txs -> TxRecord]
    BY <1>0, <1>6, <2>1, BegunTyped, BeginsTyped
       DEF cleanupUserData, BegunAccount
  <2> QED  BY <1>0, <1>6, <2>1, <2>2 DEF cleanupUserData, TeamTypes
<1>7. ASSUME NEW u \in Deletable, assertUserDeletable(u) PROVE TeamTypes'
  BY <1>0, <1>7 DEF assertUserDeletable, TeamTypes
<1>8. ASSUME NEW i \in Invites, inviteExpires(i) PROVE TeamTypes'
  BY <1>0, <1>8 DEF inviteExpires, TeamTypes
<1>9. ASSUME NEW i \in Invites, dropInvite(i) PROVE TeamTypes'
  BY <1>0, <1>9 DEF dropInvite, TeamTypes
<1>10. CASE deleteGroup
  BY <1>0, <1>10 DEF deleteGroup, TeamTypes
<1>11. CASE teardownTeamRows
  BY <1>0, <1>11 DEF teardownTeamRows, TeamTypes
<1>12. CASE UNCHANGED teamVars
  BY <1>0, <1>12 DEF teamVars, TeamTypes
<1> QED  BY <1>1, <1>2, <1>3, <1>4, <1>5, <1>6, <1>7, <1>8, <1>9, <1>10,
            <1>11, <1>12 DEF TeamNext, Roles

-----------------------------------------------------------------------------
(* Statements, locks and their order, step by step *)

TxOk(t) == TxInv(t) /\ LockOrder(t)

LEMMA AcquiresKeeps ==
    ASSUME TeamTypes, NEW t \in Txs, NEW r, Acquires(t, r),
           \A s \in Txs : TxOk(s), TxOk(t)'
    PROVE  \A s \in Txs : TxOk(s)'
<1> SUFFICES ASSUME NEW s \in Txs, s # t PROVE TxOk(s)'
  OBVIOUS
<1>1. LeftAlone(s)
  BY AcquiresLeaves
<1>2. member' = member
  BY DEF Acquires
<1> QED  BY <1>1, <1>2, OthersKeep, OthersInOrder DEF TxOk

LEMMA EndsKeeps ==
    ASSUME TeamTypes, NEW t \in Txs, Ends(t), \A s \in Txs : TxOk(s)
    PROVE  \A s \in Txs : TxOk(s)'
<1> SUFFICES ASSUME NEW s \in Txs PROVE TxOk(s)'
  OBVIOUS
<1>1. CASE s = t
  BY <1>1, EndsLeaves, EndKeeps DEF TxOk
<1>2. CASE s # t
  <2>1. LeftAlone(s) /\ member' = member
    BY <1>2, EndsLeaves DEF Ends
  <2> QED  BY <2>1, OthersKeep, OthersInOrder DEF TxOk
<1> QED  BY <1>1, <1>2

LEMMA CommitsKeeps ==
    ASSUME TeamTypes, NEW t \in Txs, NEW u \in Users,
           NEW role \in Roles \cup {"left"}, Commits(t, u, role),
           \A s \in Txs : TxOk(s)
    PROVE  \A s \in Txs : TxOk(s)'
BY CommitsLeaves DEF TxOk

\* Beginning, a transaction holds nothing and has read the roles as they are.
LEMMA StartKeeps ==
    ASSUME TeamTypes, NEW t \in Txs, NEW u \in Users, NEW r,
           \/ \E role \in Roles : r = BegunRole(u, role)
           \/ r = BegunRemoval(u)
           \/ r = BegunGroup
           \/ \E i \in Invites : r = BegunJoin(u, i)
           \/ r = BegunAccount(u),
           Begins(t, r), UNCHANGED <<member, lock, invite, inviteLock>>,
           \A s \in Txs : TxOk(s)
    PROVE  \A s \in Txs : TxOk(s)'
<1>1. Acquires(t, r)
  BY DEF Begins, Acquires
<1>2. \A v \in Users : lock[v] # t
  BY DEF TxOk, TxInv, LocksHold, Begins
<1>3. tx'[t] = r
  BY SetTxAt DEF Begins
<1>4. Held(t)' = {} /\ OwnersNow' = OwnersNow
  BY <1>2 DEF Held, OwnersNow
<1>5. /\ r.found = {} /\ r.pc \in {"lockOwners", "write", "consume"}
      /\ r.pc = "lockOwners" => r.todo = OwnersNow
      /\ r.pc = "write" => \/ r.op = "account"
                           \/ r.op = "role" /\ r.role = "owner"
      /\ r.pc = "lockOwners" => r.op \in {"role", "remove", "group"}
      /\ r.pc = "lockOwners" /\ r.op = "role" => r.role = "member"
      /\ r.pc = "consume" => r.op = "join" /\ r.invite \in Invites
      /\ r.op # "group" => r.user \in Users
  <2>1. CASE \E role \in Roles : r = BegunRole(u, role)
    BY <2>1 DEF BegunRole, Idle, Roles
  <2>2. CASE r = BegunRemoval(u)
    BY <2>2 DEF BegunRemoval, Idle
  <2>3. CASE r = BegunGroup
    BY <2>3 DEF BegunGroup, Idle
  <2>4. CASE \E i \in Invites : r = BegunJoin(u, i)
    BY <2>4 DEF BegunJoin, Idle
  <2>5. CASE r = BegunAccount(u)
    BY <2>5 DEF BegunAccount, Idle
  <2> QED  BY <2>1, <2>2, <2>3, <2>4, <2>5
<1>6. TxInv(t)'
  BY <1>3, <1>5 DEF TxInv, StatementFits, LocksHold, CountHolds, TxAt, Aimed
<1>7. LockOrder(t)'
  BY <1>3, <1>4, <1>5 DEF LockOrder, TxAt, Guarded
<1> QED  BY <1>1, <1>6, <1>7, AcquiresKeeps DEF TxOk

LEMMA LockRowKeeps ==
    ASSUME TeamTypes, NEW t \in Txs, lockRow(t), \A s \in Txs : TxOk(s)
    PROVE  \A s \in Txs : TxOk(s)'
<1>1. PICK u : u = NextRow(tx[t])
  OBVIOUS
<1>2. tx[t] \in TxRecord /\ tx[t].todo \subseteq Nat
  BY TeamUsers DEF TeamTypes, TxRecord
<1>3. u \in tx[t].todo /\ u \in Users /\ \A v \in tx[t].todo : u <= v
  BY <1>1, <1>2, MinIn DEF lockRow, NextRow, TxRecord
<1>4. TxAt(t, "lockOwners") \/ TxAt(t, "lockAll")
  BY DEF lockRow, TxAt
<1>5. /\ StatementFits(t) /\ LocksHold(t) /\ LockOrder(t)
  BY DEF TxOk, TxInv
<1>6. CASE u \in InTeam
  <2>1. /\ lock' = [lock EXCEPT ![u] = t] /\ lock[u] \in {NoTx, t}
        /\ SetTx(t, [tx[t] EXCEPT !.todo = @ \ {u}, !.found = @ \cup {u}])
    BY <1>1, <1>6 DEF lockRow, Locked
  <2>2. Acquires(t, [tx[t] EXCEPT !.todo = @ \ {u}, !.found = @ \cup {u}])
    BY <2>1, <1>3 DEF lockRow, Acquires, TeamTypes, inviteVars
  <2>3. tx'[t] = [tx[t] EXCEPT !.todo = @ \ {u}, !.found = @ \cup {u}]
    BY <2>1, SetTxAt
  <2>4. /\ tx'[t].pc = tx[t].pc /\ tx'[t].op = tx[t].op
        /\ tx'[t].user = tx[t].user /\ tx'[t].role = tx[t].role
        /\ tx'[t].invite = tx[t].invite /\ tx'[t].outdated = tx[t].outdated
        /\ tx'[t].todo = tx[t].todo \ {u}
        /\ tx'[t].found = tx[t].found \cup {u}
    BY <2>3, <1>2 DEF TxRecord
  <2>5. InTeam' = InTeam /\ OwnersNow' = OwnersNow
    BY DEF lockRow, InTeam, OwnersNow
  <2>6. /\ \A v \in Users : lock'[v] = IF v = u THEN t ELSE lock[v]
        /\ Held(t)' = Held(t) \cup {u}
    BY <2>1, <1>3 DEF Held, TeamTypes
  <2>7. StatementFits(t)'
    BY <2>4, <1>4, <1>5 DEF StatementFits, TxAt, Aimed
  <2>8. LocksHold(t)'
    <3>1. tx[t].found \subseteq {v \in InTeam : lock[v] = t}
      BY <1>5 DEF LocksHold
    <3>2. \A v \in tx[t].found \cup {u} : v \in InTeam' /\ lock'[v] = t
      BY <3>1, <2>5, <2>6, <1>2, <1>3, <1>6 DEF TxRecord
    <3> QED  BY <3>2, <2>4, <1>4 DEF LocksHold, TxAt
  <2>9. CountHolds(t)'
    BY <2>4, <1>4 DEF CountHolds, TxAt
  <2>10. ASSUME ~tx[t].outdated
         PROVE  \A x \in tx'[t].found, v \in tx'[t].todo : x < v
    <3>1. \A v \in tx[t].todo \ {u} : u < v
      BY <1>2, <1>3
    <3> QED  BY <2>4, <2>10, <3>1, <1>5 DEF LockOrder
  <2>11. LockOrder(t)'
    <3>1. ~Guarded(t)' /\ ~(TxAt(t, "write") \/ TxAt(t, "row") \/
                            TxAt(t, "consume") \/ TxAt(t, "insert"))'
      BY <2>4, <1>4 DEF Guarded, TxAt
    <3>2. ASSUME ~tx[t].outdated
          PROVE  /\ TxAt(t, "lockOwners") =>
                        /\ Held(t)' = tx'[t].found
                        /\ tx'[t].found \cup tx'[t].todo = OwnersNow
                 /\ TxAt(t, "lockAll") =>
                        /\ Held(t)' = OwnersNow \cup tx'[t].found
                        /\ tx'[t].todo \subseteq InTeam
      BY <2>4, <2>6, <3>2, <1>3, <1>5 DEF LockOrder
    <3> QED  BY <2>4, <2>5, <2>10, <3>1, <3>2 DEF LockOrder, TxAt
  <2> QED  BY <2>2, <2>7, <2>8, <2>9, <2>11, AcquiresKeeps DEF TxOk, TxInv
<1>7. CASE u \notin InTeam
  <2>1. /\ lock' = lock
        /\ SetTx(t, [tx[t] EXCEPT !.todo = @ \ {u}])
    BY <1>1, <1>7 DEF lockRow
  <2>2. Acquires(t, [tx[t] EXCEPT !.todo = @ \ {u}])
    BY <2>1 DEF lockRow, Acquires, inviteVars
  <2>3. tx'[t] = [tx[t] EXCEPT !.todo = @ \ {u}]
    BY <2>1, SetTxAt
  <2>4. /\ tx'[t].pc = tx[t].pc /\ tx'[t].op = tx[t].op
        /\ tx'[t].user = tx[t].user /\ tx'[t].role = tx[t].role
        /\ tx'[t].invite = tx[t].invite /\ tx'[t].outdated = tx[t].outdated
        /\ tx'[t].found = tx[t].found
    BY <2>3, <1>2 DEF TxRecord
  <2>5. InTeam' = InTeam
    BY DEF lockRow, InTeam
  <2>6. tx[t].outdated
    BY <1>2, <1>3, <1>4, <1>5, <1>7, OwnersCounted
       DEF LockOrder, TxRecord
  <2>7. StatementFits(t)'
    BY <2>4, <1>4, <1>5 DEF StatementFits, TxAt, Aimed
  <2>8. LocksHold(t)'
    BY <2>1, <2>4, <2>5, <1>4, <1>5 DEF LocksHold, TxAt
  <2>9. CountHolds(t)' /\ LockOrder(t)'
    BY <2>4, <2>6, <1>4 DEF CountHolds, LockOrder, TxAt
  <2> QED  BY <2>2, <2>7, <2>8, <2>9, AcquiresKeeps DEF TxOk, TxInv
<1> QED  BY <1>6, <1>7

\* The statements that leave the record as it was but for where it stands.
SameAim(t, r) == /\ r.op = tx[t].op /\ r.user = tx[t].user
                 /\ r.role = tx[t].role /\ r.invite = tx[t].invite
                 /\ r.outdated = tx[t].outdated

LEMMA GuardedWriteKeeps ==
    ASSUME TeamTypes, NEW t \in Txs, guardedWrite(t), \A s \in Txs : TxOk(s)
    PROVE  \A s \in Txs : TxOk(s)'
<1> DEFINE r == [tx[t] EXCEPT !.pc = "write", !.found = {}]
<1>1. SetTx(t, r) /\ UNCHANGED <<member, lock, invite, inviteLock>>
  BY DEF guardedWrite, inviteVars
<1>2. Acquires(t, r)
  BY <1>1 DEF Acquires
<1>3. tx'[t] = r
  BY <1>1, SetTxAt
<1>4. SameAim(t, tx'[t]) /\ tx'[t].pc = "write" /\ tx'[t].found = {}
  BY <1>3 DEF SameAim, TeamTypes, TxRecord
<1>5. /\ StatementFits(t) /\ LocksHold(t) /\ LockOrder(t)
      /\ TxAt(t, "lockOwners") /\ tx[t].todo = {}
      /\ tx[t].op \in {"role", "remove"}
  BY DEF TxOk, TxInv, guardedWrite, OwnersLocked
<1> HIDE DEF r
<1>6. TxInv(t)'
  BY <1>4, <1>5 DEF TxInv, StatementFits, LocksHold, CountHolds, TxAt,
                    SameAim, Aimed
<1>7. Held(t)' = Held(t) /\ OwnersNow' = OwnersNow
  BY <1>1 DEF Held, OwnersNow
<1>8. Guarded(t)'
  BY <1>4, <1>5 DEF Guarded, SameAim, StatementFits
<1>9. LockOrder(t)'
  BY <1>4, <1>5, <1>7, <1>8 DEF LockOrder, SameAim, TxAt
<1> QED  BY <1>2, <1>6, <1>9, AcquiresKeeps DEF TxOk

LEMMA LockMembersKeeps ==
    ASSUME TeamTypes, NEW t \in Txs, lockMembers(t), \A s \in Txs : TxOk(s)
    PROVE  \A s \in Txs : TxOk(s)'
<1> DEFINE r == [tx[t] EXCEPT !.pc = "lockAll", !.todo = InTeam, !.found = {}]
<1>1. SetTx(t, r) /\ UNCHANGED <<member, lock, invite, inviteLock>>
  BY DEF lockMembers, inviteVars
<1>2. Acquires(t, r)
  BY <1>1 DEF Acquires
<1>3. tx'[t] = r
  BY <1>1, SetTxAt
<1>4. /\ SameAim(t, tx'[t]) /\ tx'[t].pc = "lockAll"
      /\ tx'[t].found = {} /\ tx'[t].todo = InTeam
  BY <1>3 DEF SameAim, TeamTypes, TxRecord
<1>5. /\ StatementFits(t) /\ LocksHold(t) /\ LockOrder(t)
      /\ TxAt(t, "lockOwners") /\ tx[t].todo = {} /\ tx[t].op = "group"
  BY DEF TxOk, TxInv, lockMembers, OwnersLocked
<1> HIDE DEF r
<1>6. TxInv(t)'
  BY <1>4, <1>5 DEF TxInv, StatementFits, LocksHold, CountHolds, TxAt,
                    SameAim, Aimed
<1>7. Held(t)' = Held(t) /\ OwnersNow' = OwnersNow /\ InTeam' = InTeam
  BY <1>1 DEF Held, OwnersNow, InTeam
<1>8. LockOrder(t)'
  BY <1>4, <1>5, <1>7 DEF LockOrder, SameAim, TxAt, Guarded
<1> QED  BY <1>2, <1>6, <1>8, AcquiresKeeps DEF TxOk

LEMMA WriteBeginsKeeps ==
    ASSUME TeamTypes, NEW t \in Txs, writeBegins(t), \A s \in Txs : TxOk(s)
    PROVE  \A s \in Txs : TxOk(s)'
<1> DEFINE r == [tx[t] EXCEPT !.pc = "row", !.count = Cardinality(OwnersNow)]
<1>1. CASE Matches(tx[t], Cardinality(OwnersNow))
  <2>1. SetTx(t, r) /\ UNCHANGED <<member, lock, invite, inviteLock>>
    BY <1>1 DEF writeBegins
  <2>2. Acquires(t, r)
    BY <2>1 DEF Acquires
  <2>3. tx'[t] = r
    BY <2>1, SetTxAt
  <2>4. /\ SameAim(t, tx'[t]) /\ tx'[t].pc = "row"
        /\ tx'[t].found = tx[t].found /\ tx'[t].todo = tx[t].todo
    BY <2>3 DEF SameAim, TeamTypes, TxRecord
  <2>5. /\ StatementFits(t) /\ LocksHold(t) /\ LockOrder(t)
        /\ TxAt(t, "write")
    BY DEF TxOk, TxInv, writeBegins
  <2> HIDE DEF r
  <2>6. Held(t)' = Held(t) /\ OwnersNow' = OwnersNow /\ InTeam' = InTeam
    BY <2>1 DEF Held, OwnersNow, InTeam
  <2>7. StatementFits(t)' /\ CountHolds(t)'
    BY <2>4, <2>5 DEF StatementFits, CountHolds, TxAt, SameAim, Aimed
  <2>8. LocksHold(t)'
    BY <2>1, <2>4, <2>5, <2>6 DEF LocksHold, TxAt
  <2>9. LockOrder(t)'
    BY <2>4, <2>5, <2>6 DEF LockOrder, SameAim, TxAt, Guarded
  <2> QED  BY <2>2, <2>7, <2>8, <2>9, AcquiresKeeps DEF TxOk, TxInv
<1>2. CASE ~Matches(tx[t], Cardinality(OwnersNow))
  <2>1. Ends(t)
    BY <1>2 DEF writeBegins, Ends
  <2> QED  BY <2>1, EndsKeeps
<1> QED  BY <1>1, <1>2

LEMMA WriteRowKeeps ==
    ASSUME TeamTypes, NEW t \in Txs, writeRow(t), \A s \in Txs : TxOk(s)
    PROVE  \A s \in Txs : TxOk(s)'
<1> DEFINE r == [tx[t] EXCEPT !.pc = "commit"]
<1>1. CASE Matches(tx[t], tx[t].count)
  <2>1. /\ SetTx(t, r) /\ lock' = [lock EXCEPT ![tx[t].user] = t]
        /\ lock[tx[t].user] \in {NoTx, t}
        /\ UNCHANGED <<member, invite, inviteLock>>
    BY <1>1 DEF writeRow
  <2>2. tx[t].user \in Users
    BY DEF TxOk, TxInv, StatementFits, Aimed, TxAt, writeRow
  <2>3. \A u \in Users : lock'[u] = IF u = tx[t].user THEN t ELSE lock[u]
    BY <2>1, <2>2 DEF TeamTypes
  <2>4. Acquires(t, r)
    BY <2>1, <2>3 DEF Acquires
  <2>5. tx'[t] = r
    BY <2>1, SetTxAt
  <2>6. /\ SameAim(t, tx'[t]) /\ tx'[t].pc = "commit"
        /\ tx'[t].found = tx[t].found /\ tx'[t].todo = tx[t].todo
        /\ tx'[t].count = tx[t].count
    BY <2>5 DEF SameAim, TeamTypes, TxRecord
  <2>7. /\ StatementFits(t) /\ LocksHold(t) /\ LockOrder(t)
        /\ TxAt(t, "row")
    BY DEF TxOk, TxInv, writeRow
  <2> HIDE DEF r
  <2>8. InTeam' = InTeam
    BY <2>1 DEF InTeam
  <2>9. StatementFits(t)'
    BY <2>6, <2>7 DEF StatementFits, TxAt, SameAim, Aimed
  <2>10. LocksHold(t)'
    <3>1. \A v \in tx[t].found : v \in InTeam' /\ lock'[v] = t
      BY <2>3, <2>7, <2>8 DEF LocksHold, InTeam
    <3>2. tx'[t].user \in InTeam' /\ lock'[tx'[t].user] = t
      BY <1>1, <2>2, <2>3, <2>6, <2>8 DEF Matches, SameAim
    <3>3. \A v \in InTeam' : v \in Users
      BY DEF InTeam
    <3> QED  BY <2>6, <3>1, <3>2, <3>3 DEF LocksHold, TxAt
  <2>11. CountHolds(t)'
    BY <1>1, <2>1, <2>6 DEF CountHolds, Guarded, Matches, SameAim, TxAt
  <2>12. LockOrder(t)'
    BY <2>6, <2>7 DEF LockOrder, SameAim, TxAt
  <2> QED  BY <2>4, <2>9, <2>10, <2>11, <2>12, AcquiresKeeps DEF TxOk, TxInv
<1>2. CASE ~Matches(tx[t], tx[t].count)
  <2>1. Ends(t)
    BY <1>2 DEF writeRow, Ends
  <2> QED  BY <2>1, EndsKeeps
<1> QED  BY <1>1, <1>2

LEMMA ConsumeInviteKeeps ==
    ASSUME TeamTypes, NEW t \in Txs, consumeInvite(t), \A s \in Txs : TxOk(s)
    PROVE  \A s \in Txs : TxOk(s)'
<1> DEFINE r == [tx[t] EXCEPT !.pc = "insert"]
           i == tx[t].invite
<1>1. CASE StillThere(i)
  <2>1. /\ SetTx(t, r) /\ inviteLock' = [inviteLock EXCEPT ![i] = t]
        /\ inviteLock[i] = NoTx /\ UNCHANGED <<member, invite, lock>>
    BY <1>1 DEF consumeInvite
  <2>2. i \in Invites
    BY DEF TxOk, TxInv, StatementFits, TxAt, consumeInvite
  <2>3. \A j \in Invites : inviteLock'[j] = IF j = i THEN t ELSE inviteLock[j]
    BY <2>1, <2>2 DEF TeamTypes
  <2>4. Acquires(t, r)
    BY <2>1, <2>3 DEF Acquires
  <2>5. tx'[t] = r
    BY <2>1, SetTxAt
  <2>6. /\ SameAim(t, tx'[t]) /\ tx'[t].pc = "insert"
        /\ tx'[t].found = tx[t].found /\ tx'[t].todo = tx[t].todo
    BY <2>5 DEF SameAim, TeamTypes, TxRecord
  <2>7. /\ StatementFits(t) /\ LocksHold(t) /\ LockOrder(t)
        /\ TxAt(t, "consume")
    BY DEF TxOk, TxInv, consumeInvite
  <2> HIDE DEF r
  <2>8. Held(t)' = Held(t) /\ OwnersNow' = OwnersNow /\ InTeam' = InTeam
    BY <2>1 DEF Held, OwnersNow, InTeam
  <2>9. StatementFits(t)' /\ CountHolds(t)'
    BY <2>6, <2>7 DEF StatementFits, CountHolds, TxAt, SameAim, Aimed
  <2>10. LocksHold(t)'
    <3>1. inviteLock'[tx'[t].invite] = t /\ invite'[tx'[t].invite] # "gone"
      BY <1>1, <2>1, <2>2, <2>3, <2>6 DEF StillThere, SameAim
    <3>2. tx'[t].found \subseteq {v \in InTeam' : lock'[v] = t}
      BY <2>1, <2>6, <2>7, <2>8 DEF LocksHold
    <3> QED  BY <2>6, <3>1, <3>2 DEF LocksHold, TxAt
  <2>11. LockOrder(t)'
    BY <2>6, <2>7, <2>8 DEF LockOrder, SameAim, TxAt, Guarded
  <2> QED  BY <2>4, <2>9, <2>10, <2>11, AcquiresKeeps DEF TxOk, TxInv
<1>2. CASE ~StillThere(i)
  <2>1. Ends(t)
    BY <1>2 DEF consumeInvite, Ends
  <2> QED  BY <2>1, EndsKeeps
<1> QED  BY <1>1, <1>2

\* What a commit commits.
LEMMA CommitKind ==
    ASSUME TeamTypes, NEW t \in Txs, TxInv(t)
    PROVE  /\ commitRole(t) => /\ Commits(t, tx[t].user, tx[t].role)
                               /\ tx[t].user \in Users /\ tx[t].role \in Roles
           /\ commitRemoval(t) => /\ Commits(t, tx[t].user, "left")
                                  /\ tx[t].user \in Users
           /\ commitCleanup(t) => /\ Commits(t, tx[t].user, "left")
                                  /\ tx[t].user \in Users
           /\ commitJoin(t) =>
                  /\ Commits(t, tx[t].user, InviteRole[tx[t].invite])
                  /\ tx[t].user \in Users
                  /\ InviteRole[tx[t].invite] \in Roles
<1>1. TxAt(t, "commit") => tx[t].user \in Users /\ lock[tx[t].user] = t
  BY DEF TxInv, StatementFits, Aimed, LocksHold, TxAt
<1>2. tx[t].role \in Roles
  BY DEF TeamTypes, TxRecord
<1>3. commitJoin(t) => /\ tx[t].user \in Users /\ tx[t].invite \in Invites
                       /\ InviteRole[tx[t].invite] \in Roles
                       /\ inviteLock[tx[t].invite] = t
  BY TeamInvites DEF TxInv, StatementFits, LocksHold, TxAt, commitJoin, Roles
<1>4. commitRole(t) => Commits(t, tx[t].user, tx[t].role)
  BY <1>1 DEF commitRole, Commits
<1>5. commitRemoval(t) => Commits(t, tx[t].user, "left")
  BY <1>1 DEF commitRemoval, Commits
<1>6. commitCleanup(t) => Commits(t, tx[t].user, "left")
  BY <1>1 DEF commitCleanup, Commits
<1>7. commitJoin(t) => Commits(t, tx[t].user, InviteRole[tx[t].invite])
  BY <1>3 DEF commitJoin, Commits, TeamTypes
<1> QED  BY <1>1, <1>2, <1>3, <1>4, <1>5, <1>6, <1>7
         DEF commitRole, commitRemoval, commitCleanup

\* What a transaction ends with, without a membership.
LEMMA EndKind ==
    ASSUME TeamTypes, NEW t \in Txs, TxInv(t),
           \/ commitGroup(t) \/ insertRefused(t) \/ cleanupFails(t)
           \/ deadlockAborts(t)
    PROVE  Ends(t)
<1>1. CASE insertRefused(t)
  <2>1. inviteLock[tx[t].invite] = t /\ tx[t].invite \in Invites
    BY <1>1 DEF TxInv, LocksHold, StatementFits, TxAt, insertRefused
  <2> QED  BY <1>1, <2>1 DEF insertRefused, Ends, TeamTypes
<1> QED  BY <1>1 DEF commitGroup, cleanupFails, deadlockAborts, Ends

LEMMA TransactionKeeps ==
    ASSUME TeamTypes, NEW t \in Txs, transaction(t), \A s \in Txs : TxOk(s)
    PROVE  \A s \in Txs : TxOk(s)'
<1>1. TxInv(t)
  BY DEF TxOk
<1>2. CASE commitRole(t) \/ commitRemoval(t) \/ commitCleanup(t) \/ commitJoin(t)
  BY <1>1, <1>2, CommitKind, CommitsKeeps
<1>3. CASE \/ commitGroup(t) \/ insertRefused(t) \/ cleanupFails(t)
           \/ deadlockAborts(t)
  BY <1>1, <1>3, EndKind, EndsKeeps
<1> QED  BY <1>2, <1>3, LockRowKeeps, GuardedWriteKeeps, LockMembersKeeps,
            WriteBeginsKeeps, WriteRowKeeps, ConsumeInviteKeeps
         DEF transaction

LEMMA StepKeeps ==
    ASSUME TeamTypes, [TeamNext]_teamVars, \A s \in Txs : TxOk(s)
    PROVE  \A s \in Txs : TxOk(s)'
<1>1. ASSUME NEW t \in Txs, transaction(t) PROVE \A s \in Txs : TxOk(s)'
  BY <1>1, TransactionKeeps
<1>2. ASSUME NEW t \in Txs, NEW u \in InTeam, NEW role \in Roles,
             setMemberRole(t, u, role)
      PROVE  \A s \in Txs : TxOk(s)'
  <2>1. u \in Users
    BY DEF InTeam
  <2>2. Starts(t, BegunRole(u, role))
    BY <1>2 DEF setMemberRole, BegunRole
  <2> QED  BY <2>1, <2>2, StartKeeps DEF Starts, inviteVars
<1>3. ASSUME NEW t \in Txs, NEW u \in InTeam, removeMemberGuarded(t, u)
      PROVE  \A s \in Txs : TxOk(s)'
  <2>1. u \in Users
    BY DEF InTeam
  <2>2. Starts(t, BegunRemoval(u))
    BY <1>3 DEF removeMemberGuarded, BegunRemoval
  <2> QED  BY <2>1, <2>2, StartKeeps DEF Starts, inviteVars
<1>4. ASSUME NEW t \in Txs, replaceMembers(t) PROVE \A s \in Txs : TxOk(s)'
  <2>1. \E u \in Users : TRUE
    BY TeamUsers
  <2>2. Starts(t, BegunGroup)
    BY <1>4 DEF replaceMembers, BegunGroup
  <2> QED  BY <2>1, <2>2, StartKeeps DEF Starts, inviteVars
<1>5. ASSUME NEW t \in Txs, NEW u \in Users, NEW i \in Invites,
             joinTeam(t, u, i)
      PROVE  \A s \in Txs : TxOk(s)'
  <2>1. Starts(t, BegunJoin(u, i))
    BY <1>5 DEF joinTeam, BegunJoin
  <2> QED  BY <2>1, StartKeeps DEF Starts, inviteVars
<1>6. ASSUME NEW t \in Txs, NEW u \in Deletable, cleanupUserData(t, u)
      PROVE  \A s \in Txs : TxOk(s)'
  <2>1. u \in Users
    BY TeamUsers
  <2>2. Begins(t, BegunAccount(u))
    BY <1>6 DEF cleanupUserData, BegunAccount
  <2> QED  BY <1>6, <2>1, <2>2, StartKeeps DEF cleanupUserData, inviteVars
<1>7. ASSUME UNCHANGED <<member, lock, inviteLock, tx>>,
             \A i \in Invites : inviteLock[i] \in Txs => invite'[i] = invite[i]
      PROVE  \A s \in Txs : TxOk(s)'
  <2>1. \A s \in Txs : LeftAlone(s)
    BY <1>7 DEF LeftAlone
  <2> QED  BY <1>7, <2>1, OthersKeep, OthersInOrder DEF TxOk
<1>8. ASSUME NEW u \in Deletable, assertUserDeletable(u)
      PROVE  \A s \in Txs : TxOk(s)'
  BY <1>7, <1>8 DEF assertUserDeletable, inviteVars
<1>9. ASSUME NEW i \in Invites, inviteExpires(i)
      PROVE  \A s \in Txs : TxOk(s)'
  <2> SUFFICES ASSUME NEW s \in Txs PROVE TxOk(s)'
    OBVIOUS
  <2>1. /\ UNCHANGED <<member, lock, inviteLock, tx>>
        /\ \A j \in Invites : invite[j] # "gone" => invite'[j] # "gone"
    BY <1>9 DEF inviteExpires, TeamTypes
  <2>2. StatementFits(s)' /\ CountHolds(s)' /\ LockOrder(s)'
    BY <2>1 DEF TxOk, TxInv, StatementFits, CountHolds, LockOrder, TxAt,
                Aimed, Guarded, Held, OwnersNow, InTeam
  <2>3. LocksHold(s)'
    <3>1. TxAt(s, "insert") => tx[s].invite \in Invites
      BY DEF TxOk, TxInv, StatementFits, TxAt
    <3> QED  BY <2>1, <3>1 DEF TxOk, TxInv, LocksHold, TxAt, InTeam
  <2> QED  BY <2>2, <2>3 DEF TxOk, TxInv
<1>10. ASSUME NEW i \in Invites, dropInvite(i) PROVE \A s \in Txs : TxOk(s)'
  <2>1. \A j \in Invites : inviteLock[j] \in Txs => invite'[j] = invite[j]
    BY <1>10, TeamNoTx DEF dropInvite, TeamTypes
  <2> QED  BY <1>7, <1>10, <2>1 DEF dropInvite
<1>11. CASE deleteGroup
  BY <1>7, <1>11 DEF deleteGroup, inviteVars
<1>12. CASE teardownTeamRows
  <2> SUFFICES ASSUME NEW s \in Txs PROVE TxOk(s)'
    OBVIOUS
  <2>1. tx'[s] = Idle /\ \A u \in Users : lock'[u] # s
    BY <1>12 DEF teardownTeamRows, TxOk, TxInv, StatementFits, LocksHold
  <2> QED  BY <2>1, EndKeeps DEF TxOk
<1>13. CASE UNCHANGED teamVars
  BY <1>7, <1>13 DEF teamVars
<1> QED  BY <1>1, <1>2, <1>3, <1>4, <1>5, <1>6, <1>8, <1>9, <1>10,
            <1>11, <1>12, <1>13 DEF TeamNext, Roles

-----------------------------------------------------------------------------
(* Groups and invites *)

LEMMA StepLinks ==
    ASSUME TeamInv, [TeamNext]_teamVars
    PROVE  LinksAreMembers'
<1> USE DEF inviteVars, historyVars, LinksAreMembers
<1>0. /\ TeamTypes /\ links \subseteq InTeam /\ links \subseteq Users
      /\ \A t \in Txs : TxInv(t)
  BY DEF TeamInv, TxInv, TeamTypes
<1>1. ASSUME UNCHANGED member, links' \subseteq links PROVE LinksAreMembers'
  BY <1>0, <1>1 DEF InTeam
<1>2. ASSUME NEW t \in Txs, NEW u \in Users, NEW role \in Roles \cup {"left"},
             CommitMember(t, u, role), links' \subseteq links,
             role = "left" => u \notin links'
      PROVE  LinksAreMembers'
  <2>1. member' = [member EXCEPT ![u] = role]
    BY <1>2 DEF CommitMember
  <2>2. ASSUME NEW v \in links' PROVE v \in InTeam'
    BY <1>0, <1>2, <2>1 DEF InTeam, TeamTypes, Roles
  <2> QED  BY <2>2
<1>3. ASSUME NEW t \in Txs, transaction(t) PROVE LinksAreMembers'
  <2>1. CASE commitRole(t)
    BY <1>0, <1>2, <2>1, CommitKind DEF commitRole, Commits, Roles
  <2>2. CASE commitRemoval(t)
    BY <1>0, <1>2, <2>2, CommitKind DEF commitRemoval, Commits, LinksWithout
  <2>3. CASE commitCleanup(t)
    BY <1>0, <1>2, <2>3, CommitKind DEF commitCleanup, Commits, LinksWithout
  <2>4. CASE commitJoin(t)
    BY <1>0, <1>2, <2>4, CommitKind DEF commitJoin, Commits, Roles
  <2>5. CASE commitGroup(t)
    <3>1. links' \subseteq tx[t].found /\ tx[t].found \subseteq InTeam
      BY <1>0, <2>5 DEF commitGroup, LiveMembers, TxInv, LocksHold
    <3> QED  BY <2>5, <3>1 DEF commitGroup, InTeam
  <2>6. CASE \/ lockRow(t) \/ guardedWrite(t) \/ writeBegins(t) \/ writeRow(t)
             \/ lockMembers(t) \/ consumeInvite(t) \/ insertRefused(t)
             \/ cleanupFails(t) \/ deadlockAborts(t)
    BY <1>1, <2>6 DEF lockRow, guardedWrite, writeBegins, writeRow,
           lockMembers, consumeInvite, insertRefused, cleanupFails,
           deadlockAborts
  <2> QED  BY <1>3, <2>1, <2>2, <2>3, <2>4, <2>5, <2>6 DEF transaction
<1>4. ASSUME NEW t \in Txs, NEW r, Starts(t, r) PROVE LinksAreMembers'
  BY <1>1, <1>4 DEF Starts
<1>5. CASE teardownTeamRows
  BY <1>5 DEF teardownTeamRows
<1>6. ASSUME \/ \E t \in Txs, u \in Deletable : cleanupUserData(t, u)
             \/ \E u \in Deletable : assertUserDeletable(u)
             \/ \E i \in Invites : inviteExpires(i) \/ dropInvite(i)
             \/ deleteGroup
             \/ UNCHANGED teamVars
      PROVE  LinksAreMembers'
  <2>1. UNCHANGED member /\ links' \subseteq links
    BY <1>6 DEF cleanupUserData, assertUserDeletable, inviteExpires,
                dropInvite, deleteGroup, teamVars
  <2> QED  BY <1>1, <2>1
<1> QED  BY <1>3, <1>4, <1>5, <1>6
         DEF TeamNext, setMemberRole, removeMemberGuarded, replaceMembers,
             joinTeam

LEMMA StepGrants ==
    ASSUME TeamInv, [TeamNext]_teamVars
    PROVE  GrantsSpent'
<1> USE DEF inviteVars, historyVars
<1>0. TeamTypes /\ GrantsSpent /\ \A t \in Txs : TxInv(t)
  BY DEF TeamInv, TxInv
<1>1. ASSUME UNCHANGED grants,
             \A i \in Invites : invite'[i] = invite[i] \/ invite'[i] = "gone"
      PROVE  GrantsSpent'
  BY <1>0, <1>1 DEF GrantsSpent
<1>2. ASSUME NEW t \in Txs, commitJoin(t) PROVE GrantsSpent'
  <2>1. /\ tx[t].invite \in Invites /\ invite[tx[t].invite] # "gone"
        /\ invite' = [invite EXCEPT ![tx[t].invite] = "gone"]
        /\ grants' = [grants EXCEPT ![tx[t].invite] = @ + 1]
    BY <1>0, <1>2 DEF TxInv, LocksHold, StatementFits, TxAt, commitJoin
  <2>2. grants[tx[t].invite] = 0
    BY <1>0, <2>1 DEF GrantsSpent
  <2> QED  BY <1>0, <2>1, <2>2 DEF GrantsSpent, TeamTypes
<1>3. ASSUME NEW t \in Txs, transaction(t), ~commitJoin(t)
      PROVE  GrantsSpent'
  <2>1. UNCHANGED grants
    BY <1>3 DEF transaction, lockRow, guardedWrite, writeBegins, writeRow,
           commitRole, commitRemoval, lockMembers, commitGroup, consumeInvite,
           insertRefused, commitCleanup, cleanupFails, deadlockAborts
  <2>2. invite' = invite \/ insertRefused(t)
    BY <1>3 DEF transaction, lockRow, guardedWrite, writeBegins, writeRow,
           commitRole, commitRemoval, lockMembers, commitGroup, consumeInvite,
           commitCleanup, cleanupFails, deadlockAborts
  <2>3. \A i \in Invites : invite'[i] = invite[i] \/ invite'[i] = "gone"
    BY <1>0, <2>2 DEF insertRefused, TeamTypes
  <2> QED  BY <1>1, <2>1, <2>3
<1>4. ASSUME NEW t \in Txs, NEW r, Starts(t, r) PROVE GrantsSpent'
  BY <1>1, <1>4 DEF Starts
<1>5. ASSUME \/ \E t \in Txs, u \in Deletable : cleanupUserData(t, u)
             \/ \E u \in Deletable : assertUserDeletable(u)
             \/ deleteGroup
             \/ UNCHANGED teamVars
      PROVE  GrantsSpent'
  <2>1. UNCHANGED <<grants, invite>>
    BY <1>5 DEF cleanupUserData, assertUserDeletable, deleteGroup, teamVars
  <2> QED  BY <1>1, <2>1
<1>6. ASSUME NEW i \in Invites, inviteExpires(i) PROVE GrantsSpent'
  BY <1>0, <1>6 DEF inviteExpires, GrantsSpent, TeamTypes
<1>7. ASSUME NEW i \in Invites, dropInvite(i) PROVE GrantsSpent'
  BY <1>0, <1>1, <1>7 DEF dropInvite, TeamTypes
<1>8. CASE teardownTeamRows
  BY <1>1, <1>8 DEF teardownTeamRows
<1> QED  BY <1>2, <1>3, <1>4, <1>5, <1>6, <1>7, <1>8
         DEF TeamNext, setMemberRole, removeMemberGuarded, replaceMembers,
             joinTeam

-----------------------------------------------------------------------------
(* Owners *)

LEMMA AnotherOwner ==
    ASSUME TeamTypes, NEW u, Cardinality(OwnersNow) > 1
    PROVE  \E v \in OwnersNow : v # u
<1> SUFFICES ASSUME \A v \in OwnersNow : v = u PROVE FALSE
  OBVIOUS
<1>1. OwnersNow \subseteq {u}
  OBVIOUS
<1>2. Cardinality({u}) = 1 /\ IsFiniteSet({u})
  BY FS_Singleton
<1>3. Cardinality(OwnersNow) <= 1
  BY <1>1, <1>2, FS_Subset
<1> QED  BY <1>3, OwnersCounted

\* No role has changed, nobody else is past the guard than before, and what is
\* counted past it counts.
LEMMA OwnersAsBefore ==
    ASSUME TeamTypes, OwnersGuarded, UNCHANGED <<team, member, uncovered, unguarded>>,
           \A s \in Txs : Guarded(s)' => Guarded(s),
           \A s \in Txs : Guarded(s)' =>
               \A u \in Users : lock[u] = s => lock'[u] = s,
           \A s \in Txs : Guarded(s)' /\ tx'[s].pc \in {"row", "commit"}
                          /\ tx'[s].count > 1 =>
               \/ /\ tx[s].pc \in {"row", "commit"}
                  /\ tx'[s].count = tx[s].count /\ tx'[s].user = tx[s].user
               \/ \E u \in OwnersNow : u # tx'[s].user
    PROVE  OwnersGuarded'
<1>1. OwnersNow' = OwnersNow /\ OwnersNow \subseteq Users
  BY DEF OwnersNow
<1> SUFFICES ASSUME team, ~uncovered, ~unguarded
             PROVE  /\ OwnersNow # {}
                    /\ \A t \in Txs : Guarded(t)' =>
                           \E u \in OwnersNow : lock'[u] = t
                    /\ \A s, t \in Txs : Guarded(s)' /\ Guarded(t)' => s = t
                    /\ \A t \in Txs :
                           /\ Guarded(t)' /\ tx'[t].pc \in {"row", "commit"}
                           /\ tx'[t].count > 1
                           => \E u \in OwnersNow : u # tx'[t].user
  BY <1>1 DEF OwnersGuarded
<1>2. /\ OwnersNow # {}
      /\ \A t \in Txs : Guarded(t) => \E u \in OwnersNow : lock[u] = t
      /\ \A s, t \in Txs : Guarded(s) /\ Guarded(t) => s = t
      /\ \A t \in Txs : /\ Guarded(t) /\ tx[t].pc \in {"row", "commit"}
                        /\ tx[t].count > 1
                        => \E u \in OwnersNow : u # tx[t].user
  BY DEF OwnersGuarded
<1>3. ASSUME NEW t \in Txs, Guarded(t)'
      PROVE  \E u \in OwnersNow : lock'[u] = t
  BY <1>1, <1>2, <1>3
<1>4. ASSUME NEW t \in Txs, Guarded(t)', tx'[t].pc \in {"row", "commit"},
             tx'[t].count > 1
      PROVE  \E u \in OwnersNow : u # tx'[t].user
  BY <1>2, <1>4
<1> QED  BY <1>2, <1>3, <1>4

\* A step of t: the others are past their guards as before.
LEMMA OwnersAcquires ==
    ASSUME TeamTypes, OwnersGuarded, UNCHANGED <<team, uncovered, unguarded>>,
           NEW t \in Txs, NEW r, Acquires(t, r),
           Guarded(t)' => Guarded(t),
           Guarded(t)' /\ r.pc \in {"row", "commit"} /\ r.count > 1 =>
               \/ /\ tx[t].pc \in {"row", "commit"}
                  /\ r.count = tx[t].count /\ r.user = tx[t].user
               \/ \E u \in OwnersNow : u # r.user
    PROVE  OwnersGuarded'
<1>1. tx'[t] = r /\ member' = member
  BY AcquiresLeaves DEF Acquires
<1>2. \A s \in Txs : s # t => LeftAlone(s)
  BY AcquiresLeaves
<1>3. \A s \in Txs : s # t => tx'[s] = tx[s]
  BY <1>2 DEF LeftAlone
<1>4. \A s \in Txs : \A u \in Users : lock[u] = s => lock'[u] = s
  BY <1>2, AcquiresLeaves DEF LeftAlone
<1>5. \A s \in Txs : Guarded(s)' => Guarded(s)
  BY <1>3 DEF Guarded
<1>6. ASSUME NEW s \in Txs, Guarded(s)', tx'[s].pc \in {"row", "commit"},
             tx'[s].count > 1
      PROVE  \/ /\ tx[s].pc \in {"row", "commit"}
                /\ tx'[s].count = tx[s].count /\ tx'[s].user = tx[s].user
             \/ \E u \in OwnersNow : u # tx'[s].user
  <2>1. CASE s = t
    BY <1>1, <1>6, <2>1
  <2>2. CASE s # t
    BY <1>3, <1>6, <2>2
  <2> QED  BY <2>1, <2>2
<1> QED  BY <1>1, <1>4, <1>5, <1>6, OwnersAsBefore

LEMMA OwnersEnds ==
    ASSUME TeamTypes, OwnersGuarded, UNCHANGED <<team, uncovered, unguarded>>,
           NEW t \in Txs, Ends(t)
    PROVE  OwnersGuarded'
<1>1. tx'[t] = Idle /\ member' = member
  BY EndsLeaves DEF Ends
<1>2. \A s \in Txs : s # t => LeftAlone(s)
  BY EndsLeaves
<1>3. \A s \in Txs : s # t => tx'[s] = tx[s]
  BY <1>2 DEF LeftAlone
<1>4. ~Guarded(t)'
  BY <1>1 DEF Guarded, Idle
<1>5. \A s \in Txs : Guarded(s)' => Guarded(s) /\ s # t
  BY <1>3, <1>4 DEF Guarded
<1>6. \A s \in Txs : Guarded(s)' => \A u \in Users : lock[u] = s => lock'[u] = s
  BY <1>2, <1>5 DEF LeftAlone
<1> QED  BY <1>1, <1>3, <1>5, <1>6, OwnersAsBefore

\* An unguarded commit takes no owner away, or says so.
LEMMA OwnersGrow ==
    ASSUME TeamTypes, OwnersGuarded, team' = team,
           ~uncovered' /\ ~unguarded' => ~uncovered /\ ~unguarded,
           NEW t \in Txs, ~Guarded(t),
           NEW u \in Users, NEW role, CommitMember(t, u, role),
           ~unguarded' => member[u] # "owner" \/ role = "owner"
    PROVE  OwnersGuarded'
<1> SUFFICES ASSUME team, ~uncovered', ~unguarded'
             PROVE  /\ OwnersNow' # {}
                    /\ \A s \in Txs : Guarded(s)' =>
                           \E v \in OwnersNow' : lock'[v] = s
                    /\ \A r, s \in Txs : Guarded(r)' /\ Guarded(s)' => r = s
                    /\ \A s \in Txs :
                           /\ Guarded(s)' /\ tx'[s].pc \in {"row", "commit"}
                           /\ tx'[s].count > 1
                           => \E v \in OwnersNow' : v # tx'[s].user
  BY DEF OwnersGuarded
<1>1. /\ OwnersNow # {}
      /\ \A s \in Txs : Guarded(s) => \E v \in OwnersNow : lock[v] = s
      /\ \A r, s \in Txs : Guarded(r) /\ Guarded(s) => r = s
      /\ \A s \in Txs : /\ Guarded(s) /\ tx[s].pc \in {"row", "commit"}
                        /\ tx[s].count > 1
                        => \E v \in OwnersNow : v # tx[s].user
  BY DEF OwnersGuarded
<1>2. OwnersNow \subseteq OwnersNow' /\ OwnersNow \subseteq Users
  BY DEF CommitMember, OwnersNow, TeamTypes
<1>3. ASSUME NEW s \in Txs, Guarded(s)'
      PROVE  /\ Guarded(s) /\ s # t
             /\ tx'[s].pc = tx[s].pc /\ tx'[s].count = tx[s].count
             /\ tx'[s].user = tx[s].user
  <2>1. tx'[s] = IF s = t \/ TxAt(s, "idle") THEN Idle
                 ELSE [tx[s] EXCEPT !.outdated = TRUE]
    BY DEF CommitMember
  <2>2. tx'[s] # Idle
    BY <1>3 DEF Guarded, Idle
  <2>3. tx'[s] = [tx[s] EXCEPT !.outdated = TRUE] /\ s # t
    BY <2>1, <2>2
  <2>4. tx[s] \in TxRecord
    BY DEF TeamTypes
  <2>5. /\ tx'[s].pc = tx[s].pc /\ tx'[s].count = tx[s].count
        /\ tx'[s].user = tx[s].user /\ tx'[s].op = tx[s].op
        /\ tx'[s].role = tx[s].role
    BY <2>3, <2>4 DEF TxRecord
  <2> QED  BY <1>3, <2>3, <2>5 DEF Guarded
<1>4. ASSUME NEW s \in Txs, s # t
      PROVE  \A v \in Users : lock'[v] = s <=> lock[v] = s
  BY <1>4, UnlockedTyped DEF CommitMember
<1>5. ASSUME NEW s \in Txs, Guarded(s)'
      PROVE  \E v \in OwnersNow' : lock'[v] = s
  BY <1>1, <1>2, <1>3, <1>4, <1>5
<1>6. \A r, s \in Txs : Guarded(r)' /\ Guarded(s)' => r = s
  BY <1>1, <1>3
<1>7. ASSUME NEW s \in Txs, Guarded(s)', tx'[s].pc \in {"row", "commit"},
             tx'[s].count > 1
      PROVE  \E v \in OwnersNow' : v # tx'[s].user
  BY <1>1, <1>2, <1>3, <1>7
<1> QED  BY <1>1, <1>2, <1>5, <1>6, <1>7

\* A guarded commit leaves one of the owners it counted, and was alone.
LEMMA OwnersGuard ==
    ASSUME TeamTypes, OwnersGuarded, UNCHANGED <<team, uncovered, unguarded>>,
           NEW t \in Txs, TxInv(t), Guarded(t), TxAt(t, "commit"),
           NEW role, CommitMember(t, tx[t].user, role)
    PROVE  OwnersGuarded'
<1> DEFINE u == tx[t].user
<1> SUFFICES ASSUME team, ~uncovered, ~unguarded
             PROVE  OwnersNow' # {} /\ \A s \in Txs : ~Guarded(s)'
  BY DEF OwnersGuarded
<1>1. OwnersNow # {} /\ \A s \in Txs : Guarded(s) => s = t
  BY DEF OwnersGuarded
<1>2. \E v \in OwnersNow : v # u \/ member[u] # "owner"
  <2>1. CASE member[u] = "owner"
    <3>1. tx[t].count > 1
      BY <2>1 DEF TxInv, CountHolds
    <3> QED  BY <3>1 DEF OwnersGuarded, TxAt
  <2>2. CASE member[u] # "owner"
    BY <1>1, <2>2
  <2> QED  BY <2>1, <2>2
<1>3. PICK v \in OwnersNow : v # u
  BY <1>2 DEF OwnersNow
<1>4. v \in OwnersNow'
  BY <1>3 DEF OwnersNow, CommitMember, TeamTypes
<1>5. ASSUME NEW s \in Txs, Guarded(s)' PROVE FALSE
  <2>1. tx'[s] = IF s = t \/ TxAt(s, "idle") THEN Idle
                 ELSE [tx[s] EXCEPT !.outdated = TRUE]
    BY DEF CommitMember
  <2>2. tx'[s] = [tx[s] EXCEPT !.outdated = TRUE] /\ s # t
    BY <1>5, <2>1 DEF Guarded, Idle
  <2>3. tx[s] \in TxRecord
    BY DEF TeamTypes
  <2>4. tx'[s].pc = tx[s].pc /\ tx'[s].op = tx[s].op /\ tx'[s].role = tx[s].role
    BY <2>2, <2>3 DEF TxRecord
  <2> QED  BY <1>1, <1>5, <2>2, <2>4 DEF Guarded
<1> QED  BY <1>4, <1>5

\* Past the guard with all the owners locked, nobody else is.
LEMMA OwnersCovered ==
    ASSUME TeamTypes, OwnersGuarded, NEW t \in Txs, TxInv(t), guardedWrite(t)
    PROVE  OwnersGuarded'
<1>1. /\ UNCHANGED <<team, member, lock, unguarded>>
      /\ SetTx(t, [tx[t] EXCEPT !.pc = "write", !.found = {}])
      /\ uncovered' = (uncovered \/ ~(OwnersNow \subseteq tx[t].found))
  BY DEF guardedWrite, OwnersLocked
<1>2. OwnersNow' = OwnersNow /\ OwnersNow \subseteq Users
  BY <1>1 DEF OwnersNow
<1> SUFFICES ASSUME team, ~uncovered', ~unguarded
             PROVE  /\ OwnersNow # {}
                    /\ \A s \in Txs : Guarded(s)' =>
                           \E v \in OwnersNow : lock[v] = s
                    /\ \A r, s \in Txs : Guarded(r)' /\ Guarded(s)' => r = s
                    /\ \A s \in Txs :
                           /\ Guarded(s)' /\ tx'[s].pc \in {"row", "commit"}
                           /\ tx'[s].count > 1
                           => \E v \in OwnersNow : v # tx'[s].user
  BY <1>1, <1>2 DEF OwnersGuarded
<1>3. /\ OwnersNow # {}
      /\ \A s \in Txs : Guarded(s) => \E v \in OwnersNow : lock[v] = s
      /\ \A s \in Txs : /\ Guarded(s) /\ tx[s].pc \in {"row", "commit"}
                        /\ tx[s].count > 1
                        => \E v \in OwnersNow : v # tx[s].user
  BY <1>1 DEF OwnersGuarded
<1>4. \A v \in OwnersNow : lock[v] = t
  BY <1>1 DEF TxInv, LocksHold
<1>5. /\ tx'[t].pc = "write"
      /\ \A s \in Txs : s # t => tx'[s] = tx[s]
  <2> DEFINE r == [tx[t] EXCEPT !.pc = "write", !.found = {}]
  <2>1. r.pc = "write"
    BY DEF TeamTypes, TxRecord
  <2>2. SetTx(t, r)
    BY <1>1
  <2> HIDE DEF r
  <2> QED  BY <2>1, <2>2, SetTxAt
<1>6. ASSUME NEW s \in Txs, Guarded(s)' PROVE s = t
  <2>1. CASE s # t
    <3>1. Guarded(s)
      BY <1>5, <1>6, <2>1 DEF Guarded
    <3> QED  BY <1>3, <1>4, <2>1, <3>1
  <2> QED  BY <2>1
<1> QED  BY <1>3, <1>4, <1>5, <1>6

LEMMA TransactionOwners ==
    ASSUME TeamTypes, OwnersGuarded, NEW t \in Txs, transaction(t), TxInv(t)
    PROVE  OwnersGuarded'
<1> USE DEF inviteVars, historyVars
<1>1. CASE lockRow(t)
  <2>1. TxAt(t, "lockOwners") \/ TxAt(t, "lockAll")
    BY <1>1 DEF lockRow, TxAt
  <2>2. PICK u : u = NextRow(tx[t])
    OBVIOUS
  <2>3. u \in Users /\ tx[t] \in TxRecord
    BY <1>1, <2>2, MinIn, TeamUsers DEF lockRow, NextRow, TeamTypes, TxRecord
  <2>4. PICK r \in {[tx[t] EXCEPT !.todo = @ \ {u}, !.found = @ \cup {u}],
                    [tx[t] EXCEPT !.todo = @ \ {u}]} : SetTx(t, r)
    BY <1>1, <2>2 DEF lockRow
  <2>5. Acquires(t, r)
    BY <1>1, <2>2, <2>3, <2>4 DEF lockRow, Locked, Acquires, TeamTypes
  <2>6. r.pc = tx[t].pc
    BY <2>3, <2>4 DEF TxRecord
  <2>7. ~Guarded(t)'
    BY <2>1, <2>4, <2>6, SetTxAt DEF Guarded, TxAt
  <2> QED  BY <1>1, <2>5, <2>7, OwnersAcquires DEF lockRow
<1>2. CASE guardedWrite(t)
  BY <1>2, OwnersCovered
<1>3. CASE writeBegins(t)
  <2>1. CASE Matches(tx[t], Cardinality(OwnersNow))
    <3> DEFINE r == [tx[t] EXCEPT !.pc = "row", !.count = Cardinality(OwnersNow)]
    <3>1. SetTx(t, r) /\ Acquires(t, r) /\ UNCHANGED <<team, uncovered, unguarded>>
      BY <1>3, <2>1 DEF writeBegins, Acquires
    <3>2. tx'[t] = r
      BY <3>1, SetTxAt
    <3>3. /\ r.pc = "row" /\ r.op = tx[t].op /\ r.role = tx[t].role
          /\ r.count = Cardinality(OwnersNow)
      BY DEF TeamTypes, TxRecord
    <3> HIDE DEF r
    <3>4. Guarded(t)' => Guarded(t)
      BY <1>3, <3>2, <3>3 DEF Guarded, writeBegins, TxAt
    <3>5. r.count > 1 => \E u \in OwnersNow : u # r.user
      BY <3>3, AnotherOwner
    <3> QED  BY <3>1, <3>4, <3>5, OwnersAcquires
  <2>2. CASE ~Matches(tx[t], Cardinality(OwnersNow))
    BY <1>3, <2>2, OwnersEnds DEF writeBegins, Ends
  <2> QED  BY <2>1, <2>2
<1>4. CASE writeRow(t)
  <2>1. CASE Matches(tx[t], tx[t].count)
    <3> DEFINE r == [tx[t] EXCEPT !.pc = "commit"]
    <3>1. /\ SetTx(t, r) /\ UNCHANGED <<team, uncovered, unguarded>>
          /\ tx[t].user \in Users /\ TxAt(t, "row")
      BY <1>4, <2>1 DEF writeRow, Matches, InTeam
    <3>2. Acquires(t, r)
      BY <1>4, <2>1, <3>1 DEF writeRow, Acquires, TeamTypes
    <3>3. tx'[t] = r
      BY <3>1, SetTxAt
    <3>4. /\ r.pc = "commit" /\ r.op = tx[t].op /\ r.role = tx[t].role
          /\ r.count = tx[t].count /\ r.user = tx[t].user
      BY DEF TeamTypes, TxRecord
    <3> HIDE DEF r
    <3>5. Guarded(t)' => Guarded(t)
      BY <3>1, <3>3, <3>4 DEF Guarded, TxAt
    <3> QED  BY <3>1, <3>2, <3>4, <3>5, OwnersAcquires DEF TxAt
  <2>2. CASE ~Matches(tx[t], tx[t].count)
    BY <1>4, <2>2, OwnersEnds DEF writeRow, Ends
  <2> QED  BY <2>1, <2>2
<1>5. CASE commitRole(t)
  <2>1. CASE Guarded(t)
    BY <1>5, <2>1, OwnersGuard DEF commitRole
  <2>2. CASE ~Guarded(t)
    <3>1. tx[t].role = "owner" /\ tx[t].user \in Users
      BY <1>5, <2>2, CommitKind DEF Guarded, commitRole, TxAt, Roles
    <3> QED  BY <1>5, <2>2, <3>1, OwnersGrow DEF commitRole
  <2> QED  BY <2>1, <2>2
<1>6. CASE commitRemoval(t)
  <2>1. Guarded(t)
    BY <1>6 DEF commitRemoval, Guarded, TxAt
  <2> QED  BY <1>6, <2>1, OwnersGuard DEF commitRemoval
<1>7. CASE lockMembers(t)
  <2> DEFINE r == [tx[t] EXCEPT !.pc = "lockAll", !.todo = InTeam, !.found = {}]
  <2>1. Acquires(t, r) /\ UNCHANGED <<team, unguarded>>
    BY <1>7 DEF lockMembers, Acquires
  <2>2. r.pc = "lockAll"
    BY DEF TeamTypes, TxRecord
  <2>3. ~Guarded(t)' /\ ~Guarded(t)
    BY <1>7, <2>1, <2>2, AcquiresLeaves
       DEF Guarded, lockMembers, OwnersLocked, TxAt
  <2> HIDE DEF r
  <2>4. ASSUME uncovered' = uncovered PROVE OwnersGuarded'
    BY <2>1, <2>3, <2>4, OwnersAcquires
  <2>5. ASSUME uncovered' PROVE OwnersGuarded'
    BY <2>5 DEF OwnersGuarded
  <2>6. uncovered' = uncovered \/ uncovered'
    BY <1>7 DEF lockMembers, OwnersLocked, TeamTypes
  <2> QED  BY <2>4, <2>5, <2>6
<1>8. CASE commitGroup(t) \/ insertRefused(t) \/ cleanupFails(t)
           \/ deadlockAborts(t)
  <2>1. Ends(t)
    BY <1>8, EndKind
  <2>2. UNCHANGED <<team, uncovered, unguarded>>
    BY <1>8 DEF commitGroup, insertRefused, cleanupFails, deadlockAborts
  <2> QED  BY <2>1, <2>2, OwnersEnds
<1>9. CASE consumeInvite(t)
  <2>1. CASE StillThere(tx[t].invite)
    <3> DEFINE r == [tx[t] EXCEPT !.pc = "insert"]
    <3>1. SetTx(t, r) /\ UNCHANGED <<team, uncovered, unguarded>>
      BY <1>9, <2>1 DEF consumeInvite
    <3>2. Acquires(t, r)
      BY <1>9, <2>1 DEF consumeInvite, Acquires, TeamTypes
    <3>3. r.pc = "insert"
      BY DEF TeamTypes, TxRecord
    <3> HIDE DEF r
    <3>4. ~Guarded(t)'
      BY <3>1, <3>3, SetTxAt DEF Guarded
    <3> QED  BY <3>1, <3>2, <3>4, OwnersAcquires
  <2>2. CASE ~StillThere(tx[t].invite)
    BY <1>9, <2>2, OwnersEnds DEF consumeInvite, Ends
  <2> QED  BY <2>1, <2>2
<1>10. CASE commitJoin(t)
  <2>1. tx[t].user \in Users /\ ~Guarded(t)
    BY <1>10 DEF TxInv, StatementFits, TxAt, commitJoin, Guarded
  <2> QED  BY <1>10, <2>1, OwnersGrow DEF commitJoin
<1>11. CASE commitCleanup(t)
  <2>1. tx[t].user \in Users /\ ~Guarded(t)
    BY <1>11, CommitKind DEF commitCleanup, Guarded
  <2>2. unguarded' = (unguarded \/ member[tx[t].user] = "owner")
    BY <1>11 DEF commitCleanup
  <2> QED  BY <1>11, <2>1, <2>2, OwnersGrow DEF commitCleanup, TeamTypes
<1> QED  BY <1>1, <1>2, <1>3, <1>4, <1>5, <1>6, <1>7, <1>8, <1>9, <1>10,
            <1>11 DEF transaction

LEMMA StepOwners ==
    ASSUME TeamInv, [TeamNext]_teamVars
    PROVE  OwnersGuarded'
<1> USE DEF inviteVars, historyVars
<1>0. TeamTypes /\ OwnersGuarded /\ \A t \in Txs : TxInv(t)
  BY DEF TeamInv, TxInv
<1>1. ASSUME NEW t \in Txs, transaction(t) PROVE OwnersGuarded'
  BY <1>0, <1>1, TransactionOwners
<1>2. ASSUME NEW t \in Txs, NEW r, Begins(t, r),
             UNCHANGED <<team, member, lock, invite, inviteLock, uncovered,
                         unguarded>>,
             r.pc = "write" => \/ r.op = "account"
                               \/ r.op = "role" /\ r.role = "owner",
             r.pc \notin {"row", "commit"}
      PROVE  OwnersGuarded'
  <2>1. Acquires(t, r) /\ tx'[t] = r
    BY <1>0, <1>2, SetTxAt DEF Begins, Acquires
  <2>2. ~Guarded(t)'
    BY <1>2, <2>1 DEF Guarded
  <2> QED  BY <1>0, <1>2, <2>1, <2>2, OwnersAcquires
<1>3. ASSUME NEW t \in Txs, NEW u \in InTeam, NEW role \in Roles,
             setMemberRole(t, u, role)
      PROVE  OwnersGuarded'
  <2>1. Starts(t, BegunRole(u, role))
    BY <1>3 DEF setMemberRole, BegunRole
  <2>2. CASE role = "owner"
    <3>1. /\ BegunRole(u, role).pc = "write"
          /\ BegunRole(u, role).op = "role"
          /\ BegunRole(u, role).role = "owner"
      BY <2>2 DEF BegunRole, Idle
    <3> QED  BY <1>2, <2>1, <3>1 DEF Starts
  <2>3. CASE role = "member"
    <3>1. BegunRole(u, role).pc = "lockOwners"
      BY <2>3 DEF BegunRole, Idle
    <3> QED  BY <1>2, <2>1, <3>1 DEF Starts
  <2> QED  BY <2>2, <2>3 DEF Roles
<1>4. ASSUME NEW t \in Txs, NEW u \in InTeam, removeMemberGuarded(t, u)
      PROVE  OwnersGuarded'
  <2>1. Starts(t, BegunRemoval(u)) /\ BegunRemoval(u).pc = "lockOwners"
    BY <1>4 DEF removeMemberGuarded, BegunRemoval, Idle
  <2> QED  BY <1>2, <2>1 DEF Starts
<1>5. ASSUME NEW t \in Txs, replaceMembers(t) PROVE OwnersGuarded'
  <2>1. Starts(t, BegunGroup) /\ BegunGroup.pc = "lockOwners"
    BY <1>5 DEF replaceMembers, BegunGroup, Idle
  <2> QED  BY <1>2, <2>1 DEF Starts
<1>6. ASSUME NEW t \in Txs, NEW u \in Users, NEW i \in Invites,
             joinTeam(t, u, i)
      PROVE  OwnersGuarded'
  <2>1. Starts(t, BegunJoin(u, i)) /\ BegunJoin(u, i).pc = "consume"
    BY <1>6 DEF joinTeam, BegunJoin, Idle
  <2> QED  BY <1>2, <2>1 DEF Starts
<1>7. ASSUME NEW t \in Txs, NEW u \in Deletable, cleanupUserData(t, u)
      PROVE  OwnersGuarded'
  <2>1. /\ Begins(t, BegunAccount(u)) /\ BegunAccount(u).op = "account"
        /\ BegunAccount(u).pc = "write"
    BY <1>7 DEF cleanupUserData, BegunAccount, Idle
  <2> QED  BY <1>2, <1>7, <2>1 DEF cleanupUserData
<1>8. ASSUME UNCHANGED <<team, member, lock, tx, uncovered, unguarded>>
      PROVE  OwnersGuarded'
  BY <1>0, <1>8 DEF OwnersGuarded, OwnersNow, Guarded
<1>9. CASE teardownTeamRows
  BY <1>9 DEF teardownTeamRows, OwnersGuarded
<1>10. CASE \/ \E u \in Deletable : assertUserDeletable(u)
            \/ \E i \in Invites : inviteExpires(i) \/ dropInvite(i)
            \/ deleteGroup
            \/ UNCHANGED teamVars
  <2>1. UNCHANGED <<team, member, lock, tx, uncovered, unguarded>>
    BY <1>10 DEF assertUserDeletable, inviteExpires, dropInvite, deleteGroup,
                 teamVars
  <2> QED  BY <1>8, <2>1
<1> QED  BY <1>1, <1>3, <1>4, <1>5, <1>6, <1>7, <1>9, <1>10
         DEF TeamNext, Roles

-----------------------------------------------------------------------------
(* Deadlocks *)

\* A transaction that waits for another has not got the row it wants next.
LEMMA WaitsForAnother ==
    ASSUME TeamInv, NEW s \in Txs, NEW r \in WaitsFor(s)
    PROVE  \E u \in Users :
              /\ lock[u] = r /\ r # s
              /\ \/ /\ TxAt(s, "lockOwners") \/ TxAt(s, "lockAll")
                    /\ u = NextRow(tx[s]) /\ u \in tx[s].todo
                 \/ TxAt(s, "row") /\ u = tx[s].user
<1>1. PICK u \in Wants(s) : lock[u] = r /\ r # s
  BY DEF WaitsFor
<1>2. tx[s].todo \subseteq Nat /\ tx[s].todo \subseteq Users
  BY TeamUsers DEF TeamInv, TeamTypes, TxRecord
<1>3. CASE tx[s].pc \in {"lockOwners", "lockAll"} /\ tx[s].todo # {}
  <2>1. u = NextRow(tx[s])
    BY <1>1, <1>3 DEF Wants
  <2>2. u \in tx[s].todo
    BY <1>2, <1>3, <2>1, MinIn DEF NextRow
  <2> QED  BY <1>1, <1>2, <1>3, <2>1, <2>2 DEF TxAt
<1>4. CASE tx[s].pc = "row"
  <2>1. u = tx[s].user
    BY <1>1, <1>4 DEF Wants
  <2>2. u \in Users
    BY <1>4, <2>1 DEF TeamInv, StatementFits, Aimed
  <2> QED  BY <1>1, <1>4, <2>1, <2>2 DEF TxAt
<1>5. CASE ~(tx[s].pc \in {"lockOwners", "lockAll"} /\ tx[s].todo # {})
           /\ tx[s].pc # "row"
  BY <1>1, <1>5 DEF Wants
<1> QED  BY <1>3, <1>4, <1>5

LEMMA OrderForbidsRings ==
    ASSUME TeamInv
    PROVE  DeadlockNeedsRoleChange
<1> SUFFICES ASSUME NEW S \in Deadlocks, \A s \in S : ~tx[s].outdated
             PROVE  FALSE
  BY DEF DeadlockNeedsRoleChange
<1>1. /\ S \subseteq Txs /\ S # {}
      /\ \A s \in S : \E r \in S : r \in WaitsFor(s)
      /\ \A s \in S : \E q \in S : s \in WaitsFor(q)
  BY DEF Deadlocks
<1>2. \A s \in S : LockOrder(s)
  BY <1>1 DEF TeamInv, LocksInOrder
<1>3. ASSUME NEW s \in S
      PROVE  /\ Held(s) # {}
             /\ TxAt(s, "lockOwners") \/ TxAt(s, "lockAll") \/ TxAt(s, "row")
  <2>1. \E q \in S : s \in WaitsFor(q)
    BY <1>1
  <2>2. \E u \in Users : lock[u] = s
    BY <1>1, <2>1, WaitsForAnother
  <2>3. \E r \in S : r \in WaitsFor(s)
    BY <1>1
  <2>4. TxAt(s, "lockOwners") \/ TxAt(s, "lockAll") \/ TxAt(s, "row")
    BY <1>1, <2>3, WaitsForAnother
  <2> QED  BY <2>2, <2>4 DEF Held
<1>4. \A s \in S : TxAt(s, "row") => Held(s) = OwnersNow
  BY <1>2, <1>3 DEF LockOrder, TxAt
<1>5. \A s \in S : TxAt(s, "lockOwners") =>
         /\ Held(s) = tx[s].found
         /\ tx[s].found \cup tx[s].todo = OwnersNow
  BY <1>2 DEF LockOrder
<1>6. \A s \in S : TxAt(s, "lockAll") =>
         Held(s) = OwnersNow \cup tx[s].found
  BY <1>2 DEF LockOrder
<1>7. \A r, s \in S : r # s => Held(r) \cap Held(s) = {}
  BY DEF Held
<1>8. ASSUME NEW s \in S
      PROVE  \E r \in S, u \in Users :
                /\ r # s /\ u \in Held(r) /\ u \notin Held(s)
                /\ \/ /\ TxAt(s, "lockOwners") \/ TxAt(s, "lockAll")
                      /\ u = NextRow(tx[s]) /\ u \in tx[s].todo
                   \/ TxAt(s, "row") /\ u = tx[s].user
  <2>1. PICK r \in S : r \in WaitsFor(s)
    BY <1>1
  <2>2. s \in Txs /\ r \in WaitsFor(s)
    BY <1>1, <2>1
  <2>3. PICK u \in Users :
           /\ lock[u] = r /\ r # s
           /\ \/ /\ TxAt(s, "lockOwners") \/ TxAt(s, "lockAll")
                 /\ u = NextRow(tx[s]) /\ u \in tx[s].todo
              \/ TxAt(s, "row") /\ u = tx[s].user
    BY <2>2, WaitsForAnother
  <2>4. u \in Held(r) /\ u \notin Held(s)
    BY <2>3 DEF Held
  <2> QED  BY <2>3, <2>4
<1>9. ASSUME NEW s \in S, TxAt(s, "row") PROVE FALSE
  <2>1. PICK r \in S, u \in Users : r # s /\ u \in Held(r) /\ u \notin Held(s)
    BY <1>8
  <2>2. Held(s) = OwnersNow /\ OwnersNow # {}
    BY <1>3, <1>4, <1>9
  <2> QED  BY <1>3, <1>4, <1>5, <1>6, <1>7, <2>1, <2>2
<1>10. ASSUME NEW s \in S, TxAt(s, "lockAll") PROVE OwnersNow = {}
  <2>1. PICK r \in S, u \in Users : r # s /\ u \in Held(r) /\ u \notin Held(s)
    BY <1>8
  <2>2. u \notin OwnersNow
    BY <1>6, <1>10, <2>1
  <2>3. TxAt(r, "lockAll")
    BY <1>3, <1>5, <1>9, <2>1, <2>2
  <2> QED  BY <1>6, <1>7, <1>10, <2>1, <2>3
<1>11. ASSUME NEW s \in S
       PROVE  \E r \in S : NextRow(tx[s]) \in tx[r].found
  <2>1. PICK r \in S, u \in Users :
           /\ r # s /\ u \in Held(r)
           /\ \/ /\ TxAt(s, "lockOwners") \/ TxAt(s, "lockAll")
                 /\ u = NextRow(tx[s]) /\ u \in tx[s].todo
              \/ TxAt(s, "row") /\ u = tx[s].user
    BY <1>8
  <2>2. u = NextRow(tx[s])
    BY <1>9, <2>1
  <2>3. CASE TxAt(r, "lockOwners")
    BY <1>5, <2>1, <2>2, <2>3
  <2>4. CASE TxAt(r, "lockAll")
    BY <1>6, <1>10, <2>1, <2>2, <2>4
  <2> QED  BY <1>3, <1>9, <2>3, <2>4
<1>12. \A s \in S : NextRow(tx[s]) \in tx[s].todo /\ NextRow(tx[s]) \in Users
  BY <1>8, <1>9
<1>13. ASSUME NEW s \in S
       PROVE  \E r \in S : NextRow(tx[s]) < NextRow(tx[r])
  BY <1>2, <1>11, <1>12 DEF LockOrder
<1> DEFINE M == {NextRow(tx[s]) : s \in S}
<1>14. M \subseteq Users /\ M # {}
  BY <1>1, <1>12
<1>15. M \subseteq Nat /\ IsFiniteSet(M)
  BY <1>14, TeamUsers, FS_Subset
<1>16. \E x \in M : \A y \in M : y <= x
  <2> HIDE DEF M
  <2> QED  BY <1>14, <1>15, GreatestExists
<1>17. PICK x \in M : \A y \in M : y <= x
  BY <1>16
<1>18. PICK s \in S : x = NextRow(tx[s])
  BY <1>17
<1>19. PICK r \in S : NextRow(tx[s]) < NextRow(tx[r])
  BY <1>13
<1>20. NextRow(tx[r]) \in M /\ NextRow(tx[r]) \in Nat /\ x \in Nat
  BY <1>15
<1> HIDE DEF M
<1> QED  BY <1>17, <1>18, <1>19, <1>20

-----------------------------------------------------------------------------
(* Theorems *)

LEMMA InitTeamInv == TeamInit => TeamInv
<1> SUFFICES ASSUME TeamInit PROVE TeamInv
  OBVIOUS
<1>1. TeamTypes
  <2>1. member \in [Users -> {"none", "member", "owner", "left"}]
    BY DEF TeamInit
  <2>2. tx \in [Txs -> TxRecord] /\ begun \in 0 .. MaxBegun
    BY IdleTyped, TeamBounds DEF TeamInit
  <2> QED  BY <2>1, <2>2 DEF TeamInit, TeamTypes
<1>2. \A t \in Txs : tx[t] = Idle /\ \A u \in Users : lock[u] # t
  BY TeamNoTx DEF TeamInit
<1>3. ASSUME NEW t \in Txs
      PROVE  StatementFits(t) /\ LocksHold(t) /\ CountHolds(t) /\ LockOrder(t)
  BY <1>2, <1>3 DEF StatementFits, LocksHold, CountHolds, LockOrder, TxAt,
                    Aimed, Guarded, Idle
<1>4. LinksAreMembers /\ GrantsSpent
  BY DEF TeamInit, LinksAreMembers, GrantsSpent
<1>5. OwnersGuarded
  <2>1. OwnersNow # {}
    BY TeamUsers DEF TeamInit, OwnersNow
  <2>2. \A t \in Txs : ~Guarded(t)
    BY <1>2 DEF Guarded, Idle
  <2> QED  BY <2>1, <2>2 DEF OwnersGuarded
<1> QED  BY <1>1, <1>3, <1>4, <1>5 DEF TeamInv, LocksInOrder

\* Every transaction's record fits the statement it is at, what it has locked
\* it finds as it left it, and its locks are in order (members-repo.ts).
THEOREM TeamInvariant == TeamSpec => []TeamInv
<1>1. TeamInv /\ [TeamNext]_teamVars => TeamInv'
  <2> SUFFICES ASSUME TeamInv, [TeamNext]_teamVars PROVE TeamInv'
    OBVIOUS
  <2>1. TeamTypes /\ \A t \in Txs : TxOk(t)
    BY DEF TeamInv, LocksInOrder, TxOk, TxInv
  <2>2. \A t \in Txs : TxOk(t)'
    BY <2>1, StepKeeps
  <2> QED  BY <2>2, StepTyped, StepLinks, StepGrants, StepOwners
              DEF TeamInv, LocksInOrder, TxOk, TxInv
<1> QED  BY <1>1, InitTeamInv, PTL DEF TeamSpec

\* The types of the team's state, and that an idle transaction holds no row.
THEOREM TeamTyped == TeamSpec => []TeamTypeOK
<1>1. TeamInv => TeamTypeOK
  BY DEF TeamInv, TeamTypes, TeamTypeOK, TxRecord, LocksHold, InTeam, TxAt
<1> QED  BY <1>1, TeamInvariant, PTL

\* A team loses its last owner only to an account deletion, or after a guarded
\* write that had not locked every owner.
THEOREM OwnerLossIsExplained == TeamSpec => []OwnerLossExplained
<1>1. TeamInv => OwnerLossExplained
  BY DEF TeamInv, OwnersGuarded, OwnerLossExplained
<1> QED  BY <1>1, TeamInvariant, PTL

\* A group's links are of members, for any interleaving of group edits with
\* removals, account deletions and joins.
THEOREM GroupLinksAreMembers == TeamSpec => []LinksAreMembers
<1>1. TeamInv => LinksAreMembers
  BY DEF TeamInv
<1> QED  BY <1>1, TeamInvariant, PTL

\* However many transactions race to accept it, an invite grants one
\* membership.
THEOREM InviteIsGrantedOnce == TeamSpec => []InviteGrantsOnce
<1>1. TeamInv => InviteGrantsOnce
  BY DEF TeamInv, TeamTypes, GrantsSpent, InviteGrantsOnce
<1> QED  BY <1>1, TeamInvariant, PTL

\* Transactions that have read the roles as they are never wait for one
\* another in a ring: a deadlock needs a role change since one began.
THEOREM DeadlocksAreExplained == TeamSpec => []DeadlockNeedsRoleChange
<1>1. TeamInv => DeadlockNeedsRoleChange
  BY OrderForbidsRings
<1> QED  BY <1>1, TeamInvariant, PTL
=============================================================================
