SPECIFICATION TeamSpec
CONSTANTS
    Users = {1, 2, 3}
    Owners = {2}
    Members = {}
    Invites = {i1}
    InviteRole <- InvitesToOwner
    Directed = {i1}
    Deletable = {1}
    Txs = {x, y, z}
    MaxBegun = 5
    NoTx = NoTx
INVARIANTS
    TeamTypeOK
    OwnerLossExplained
    LinksAreMembers
    InviteGrantsOnce
    DeadlockNeedsRoleChange
CHECK_DEADLOCK FALSE
SYMMETRY TxSymmetry
