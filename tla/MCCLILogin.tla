----------------------------- MODULE MCCLILogin -----------------------------
(* The instance of CLILogin that TLC explores.                             *)
EXTENDS CLILogin
=============================================================================
