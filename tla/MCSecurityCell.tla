--------------------------- MODULE MCSecurityCell ---------------------------
(***************************************************************************)
(* Instances of SecurityCell for TLC: one user with one email.             *)
(***************************************************************************)
EXTENDS SecurityCell, TLC

CONSTANTS u1, e1

OneEmail == (u1 :> e1)
=============================================================================
