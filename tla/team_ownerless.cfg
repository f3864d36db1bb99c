SPECIFICATION TeamSpec
CONSTANTS
    Users = {1, 2}
    Owners = {2}
    Members = {1}
    Invites = {}
    InviteRole <- InvitesToOwner
    Directed = {}
    Deletable = {}
    Txs = {x, y, z}
    MaxBegun = 5
    NoTx = NoTx
INVARIANTS
    OwnerRemains
SYMMETRY TxSymmetry
CHECK_DEADLOCK FALSE
