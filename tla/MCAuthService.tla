--------------------------- MODULE MCAuthService ---------------------------
(***************************************************************************)
(* Instances of AuthService for TLC.                                       *)
(***************************************************************************)
EXTENDS AuthService, TLC

CONSTANTS e1, u1, u2

\* Two ids may be drawn for one email, so two registrations can race.
TwoForOne == (u1 :> e1 @@ u2 :> e1)
=============================================================================
