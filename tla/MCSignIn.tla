------------------------------ MODULE MCSignIn ------------------------------
(***************************************************************************)
(* Small instances of SignIn.                                              *)
(***************************************************************************)
EXTENDS SignIn, TLC

CONSTANTS t1, t2

=============================================================================
