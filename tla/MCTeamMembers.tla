---------------------------- MODULE MCTeamMembers ----------------------------
(***************************************************************************)
(* Small instances of TeamMembers.                                         *)
(***************************************************************************)
EXTENDS TeamMembers, TLC

InvitesToOwner == [i \in Invites |-> "owner"]
TxSymmetry == Permutations(Txs)
=============================================================================
