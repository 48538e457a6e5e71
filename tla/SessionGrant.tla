---------------------------- MODULE SessionGrant ----------------------------
(***************************************************************************)
(* What the token endpoint promises about one downstream session, without  *)
(* its storage: the right to hold the session's refresh token is a single  *)
(* thing.  It starts in the authorization code, passes to one request at a *)
(* time, from that request into the token which answers it, and from there *)
(* to the next request.  It may be lost on the way, and then the user must *)
(* log in again; it is never duplicated and never comes back.              *)
(***************************************************************************)
EXTENDS Naturals

CONSTANT Requests

VARIABLES
  code,     \* is the right still in the authorization code?
  minting,  \* the request, if any, that has taken the right
  token,    \* the request, if any, whose refresh token has the right
  answered  \* the requests that were answered with tokens

right == <<code, minting, token>>
vars == <<right, answered>>

Init == code = TRUE /\ minting = {} /\ token = {} /\ answered = {}

Redeem(r) ==
  /\ code /\ code' = FALSE /\ minting' = {r} /\ r \notin answered
  /\ UNCHANGED <<token, answered>>

Use(r) ==
  /\ token # {} /\ token' = {} /\ minting' = {r} /\ r \notin answered
  /\ UNCHANGED <<code, answered>>

\* The right goes into the refresh token, if the session has one.
Issue(r) ==
  /\ minting = {r} /\ minting' = {} /\ token' \in {{}, {r}}
  /\ answered' = answered \cup {r}
  /\ UNCHANGED code

\* A failure, or the revocation of the session.
Lose ==
  /\ ~code /\ minting' = {} /\ token' = {}
  /\ UNCHANGED <<code, answered>>

Next == Lose \/ \E r \in Requests : Redeem(r) \/ Use(r) \/ Issue(r)
Spec == Init /\ [][Next]_vars
=============================================================================
