-------------------------- MODULE MCRoleService --------------------------
(***************************************************************************)
(* Instances of RoleService for TLC.  Slots are interchangeable.           *)
(***************************************************************************)
EXTENDS RoleService, TLC

SlotSymmetry == Permutations(Slots)
=============================================================================
