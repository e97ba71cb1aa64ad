------------------------------ MODULE MCSignIn ------------------------------
(***************************************************************************)
(* SignIn on a small instance: one buyer with a password and one of WeChat,*)
(* two requests at once and two refresh tokens.                            *)
(***************************************************************************)
EXTENDS SignIn, TLC

=============================================================================
