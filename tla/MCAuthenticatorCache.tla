------------------------ MODULE MCAuthenticatorCache ------------------------
(* Instances of AuthenticatorCache for TLC. *)
EXTENDS AuthenticatorCache
=============================================================================
