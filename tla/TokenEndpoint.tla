--------------------------- MODULE TokenEndpoint ---------------------------
(***************************************************************************)
(* The Supervisor's token endpoint and the session storage below it, for   *)
(* one downstream session: concurrent HTTP requests which redeem the       *)
(* authorization code, refresh, or present an already used code, each one  *)
(* a sequence of separate Kubernetes API calls with no transaction around  *)
(* them.                                                                   *)
(*                                                                         *)
(*   internal/oidc/token/token_handler.go     the HTTP handler             *)
(*   internal/oidc/kube_storage.go            fosite's storage interfaces  *)
(*   internal/fositestorage/*                 one storage per secret kind  *)
(*   internal/crud/crud.go                    storage over Secrets         *)
(*                                                                         *)
(* The order in which the storage calls are made is fosite's (an external  *)
(* library): PKCE after the authcode lookup, invalidation before the first *)
(* Create, revocation of both old tokens before the creation of both new   *)
(* ones.  It is also fosite that gives up a refresh at the first error of  *)
(* a revocation, and goes on after one when a used code is presented.      *)
(*                                                                         *)
(* A request creates at most one access token and one refresh token, so    *)
(* the Secrets holding them are identified by the request that created     *)
(* them.  All of them carry the same request-ID label, that of the one     *)
(* session modelled; sessions do not share Secrets.                        *)
(***************************************************************************)
EXTENDS Naturals, FiniteSets

CONSTANTS Requests,  \* HTTP requests to the token endpoint, each handled once
          Original,  \* the upstream token obtained by the original login
          None       \* stands for no refresh token

ASSUME OriginalAssumption == Original \notin Requests
ASSUME NoneAssumption == None \notin Requests

VARIABLES
  offlineAccess, \* was the offline_access scope granted to the session?
  providerType,  \* the kind of upstream identity provider of the session
  authcode,      \* the authorization code Secret: [active, rv]
  pkce,          \* does the PKCE Secret exist?
  accessTokens,  \* the access token Secrets that exist
  refreshTokens, \* the refresh token Secrets that exist
  upstreamIn,    \* upstream token stored in the session of each request's Secrets
  upstreamLast,  \* the last token that the upstream provider handed out
  pc,            \* where each request is
  presented,     \* the refresh token a request presents
  readRV,        \* the resource version a request read before updating
  listed,        \* what DeleteByLabel listed and has not deleted yet
  apiErrors,     \* revocations of a used code's tokens that failed at the API server
  quietReuse     \* history: reuse detections that nothing has overlapped

secrets == <<authcode, pkce, accessTokens, refreshTokens>>
session == <<offlineAccess, providerType>>
upstream == <<upstreamIn, upstreamLast>>
locals == <<presented, readRV, listed, apiErrors>>
vars == <<session, secrets, upstream, pc, locals, quietReuse>>

RedeemSteps == {"getAuthcode", "getPKCE", "deletePKCE", "populateGetAuthcode",
                "invalidateGet", "invalidateUpdate", "createAccess", "createRefresh"}
RefreshSteps == {"getRefresh", "upstreamRefresh", "populateGetRefresh", "listAccess",
                 "deleteAccess", "listRefresh", "deleteRefresh"}
ReuseSteps == {"reuseListAccess", "reuseDeleteAccess", "reuseListRefresh", "reuseDeleteRefresh"}
Running == RedeemSteps \cup RefreshSteps \cup ReuseSteps

\* ok: tokens were sent to the client.  rejected: the code had been used before.
\* failed: any other error, or the server died while it handled the request.
Finished == {"ok", "rejected", "failed"}

TypeOK ==
  /\ offlineAccess \in BOOLEAN
  /\ providerType \in {"oidc", "ldap"}
  /\ authcode \in [active : BOOLEAN, rv : Nat]
  /\ pkce \in BOOLEAN
  /\ accessTokens \subseteq Requests
  /\ refreshTokens \subseteq Requests
  /\ upstreamIn \in [Requests -> Requests \cup {Original}]
  /\ upstreamLast \in Requests \cup {Original}
  /\ pc \in [Requests -> {"idle"} \cup Running \cup Finished]
  /\ presented \in [Requests -> Requests \cup {None}]
  /\ readRV \in [Requests -> Nat]
  /\ listed \in [Requests -> SUBSET Requests]
  /\ apiErrors \in [Requests -> SUBSET {"access", "refresh"}]
  /\ quietReuse \subseteq Requests

\* The authorize or callback endpoint has stored the session and has sent the
\* authorization code to the client.
Init ==
  /\ offlineAccess \in BOOLEAN
  /\ providerType \in {"oidc", "ldap"}
  /\ authcode = [active |-> TRUE, rv |-> 0]
  /\ pkce = TRUE
  /\ accessTokens = {}
  /\ refreshTokens = {}
  /\ upstreamIn = [r \in Requests |-> Original]
  /\ upstreamLast = Original
  /\ pc = [r \in Requests |-> "idle"]
  /\ presented = [r \in Requests |-> None]
  /\ readRV = [r \in Requests |-> 0]
  /\ listed = [r \in Requests |-> {}]
  /\ apiErrors = [r \in Requests |-> {}]
  /\ quietReuse = {}

-----------------------------------------------------------------------------
(* Steps of a request.                                                     *)

At(r, step) == pc[r] = step

Quiet(r) == \A q \in Requests \ {r} : pc[q] \notin Running

\* Every step of r also ends the quiet of the other requests' reuse detections.
Goto(r, step) ==
  /\ pc' = [pc EXCEPT ![r] = step]
  /\ quietReuse' = quietReuse \cap {r}

\* A storage call that returns an error ends the request, unless stated otherwise.
MutTry(ok, next) == next
Try(ok, next) == IF ok THEN next ELSE "failed"

\* A client posts the authorization code.
Redeem(r) ==
  /\ At(r, "idle")
  /\ Goto(r, "getAuthcode")
  /\ UNCHANGED <<session, secrets, upstream, locals>>

\* A client posts a refresh token that some earlier request has returned to it.
Refresh(r) ==
  /\ At(r, "idle")
  /\ \E q \in Requests : /\ At(q, "ok") /\ offlineAccess
                         /\ presented' = [presented EXCEPT ![r] = q]
  /\ Goto(r, "getRefresh")
  /\ UNCHANGED <<session, secrets, upstream, readRV, listed, apiErrors>>

\* NewAccessRequest: a code that is no longer active starts the revocation of
\* whatever was issued for it.  An expired code is an Abort.
GetAuthorizeCodeSession(r) ==
  /\ At(r, "getAuthcode")
  /\ pc' = [pc EXCEPT ![r] = IF authcode.active THEN "getPKCE" ELSE "reuseListAccess"]
  /\ quietReuse' = IF ~authcode.active /\ Quiet(r) THEN {r} ELSE {}
  /\ UNCHANGED <<session, secrets, upstream, locals>>

GetPKCERequestSession(r) ==
  /\ At(r, "getPKCE")
  /\ Goto(r, Try(pkce, "deletePKCE"))
  /\ UNCHANGED <<session, secrets, upstream, locals>>

\* The Secret is left in place.
MutDeletePKCERequestSession(r) ==
  /\ At(r, "deletePKCE")
  /\ Goto(r, Try(pkce, "populateGetAuthcode"))
  /\ UNCHANGED <<session, secrets, upstream, locals>>

\* The delete fails when another request has deleted the Secret.  The PKCE
\* verifier is compared after the delete: a mismatch is an Abort below.
DeletePKCERequestSession(r) ==
  /\ At(r, "deletePKCE")
  /\ pkce' = FALSE
  /\ Goto(r, Try(pkce, "populateGetAuthcode"))
  /\ UNCHANGED <<session, authcode, accessTokens, refreshTokens, upstream, locals>>

\* NewAccessResponse looks the code up again.
PopulateGetAuthorizeCodeSession(r) ==
  /\ At(r, "populateGetAuthcode")
  /\ Goto(r, Try(authcode.active, "invalidateGet"))
  /\ UNCHANGED <<session, secrets, upstream, locals>>

InvalidateGetSession(r) ==
  /\ At(r, "invalidateGet")
  /\ readRV' = [readRV EXCEPT ![r] = authcode.rv]
  /\ Goto(r, Try(authcode.active, "invalidateUpdate"))
  /\ UNCHANGED <<session, secrets, upstream, presented, listed, apiErrors>>

\* storage.Update sends the resource version that was read: the API server
\* refuses the write with a conflict when the Secret has changed since.
InvalidateUpdate(r) ==
  /\ At(r, "invalidateUpdate")
  /\ LET accepted == readRV[r] = authcode.rv
     IN  /\ authcode' = IF accepted THEN [active |-> FALSE, rv |-> authcode.rv + 1] ELSE authcode
         /\ Goto(r, Try(accepted, "createAccess"))
  /\ UNCHANGED <<session, pkce, accessTokens, refreshTokens, upstream, locals>>

\* The response is complete once everything the grant calls for is stored.
CreateAccessTokenSession(r) ==
  /\ At(r, "createAccess")
  /\ accessTokens' = accessTokens \cup {r}
  /\ Goto(r, IF offlineAccess THEN "createRefresh" ELSE "ok")
  /\ UNCHANGED <<session, authcode, pkce, refreshTokens, upstream, locals>>

CreateRefreshTokenSession(r) ==
  /\ At(r, "createRefresh")
  /\ refreshTokens' = refreshTokens \cup {r}
  /\ Goto(r, "ok")
  /\ UNCHANGED <<session, authcode, pkce, accessTokens, upstream, locals>>

\* NewAccessRequest of a refresh loads the stored session, upstream token
\* included.  Revoked refresh tokens are deleted, so they are not found.
GetRefreshTokenSession(r) ==
  /\ At(r, "getRefresh")
  /\ upstreamIn' = [upstreamIn EXCEPT ![r] = IF presented[r] \in refreshTokens
                                               THEN upstreamIn[presented[r]] ELSE @]
  /\ Goto(r, Try(presented[r] \in refreshTokens, "upstreamRefresh"))
  /\ UNCHANGED <<session, secrets, upstreamLast, locals>>

\* A response without a new refresh token erases the stored one.
MutUpstreamOIDCRefresh(r) ==
  /\ At(r, "upstreamRefresh")
  /\ providerType = "oidc"
  /\ upstreamIn' = [upstreamIn EXCEPT ![r] = None]
  /\ Goto(r, "populateGetRefresh")
  /\ UNCHANGED <<session, secrets, upstreamLast, locals>>

\* The upstream provider accepts the stored token, and may hand out a new one,
\* which goes into the session of this request only.  Missing session data, a
\* provider that is gone, an error of the provider or a changed identity make
\* the request fail, also after a new token was handed out: see Abort.
UpstreamOIDCRefresh(r) ==
  /\ At(r, "upstreamRefresh")
  /\ providerType = "oidc"
  /\ \/ UNCHANGED upstream
     \/ /\ upstreamIn' = [upstreamIn EXCEPT ![r] = r]
        /\ upstreamLast' = r
  /\ Goto(r, "populateGetRefresh")
  /\ UNCHANGED <<session, secrets, locals>>

\* LDAP and Active Directory: the user is looked up again, there is no token.
UpstreamLDAPRefresh(r) ==
  /\ At(r, "upstreamRefresh")
  /\ providerType = "ldap"
  /\ Goto(r, "populateGetRefresh")
  /\ UNCHANGED <<session, secrets, upstream, locals>>

PopulateGetRefreshTokenSession(r) ==
  /\ At(r, "populateGetRefresh")
  /\ Goto(r, Try(presented[r] \in refreshTokens, "listAccess"))
  /\ UNCHANGED <<session, secrets, upstream, locals>>

\* DeleteByLabel, first half: list by the request ID; nothing found is an error,
\* after which the request continues at onError.
ListByLabel(r, found, onFound, onError) ==
  /\ listed' = [listed EXCEPT ![r] = found]
  /\ Goto(r, IF found = {} THEN onError ELSE onFound)
  /\ UNCHANGED <<session, secrets, upstream, presented, readRV, apiErrors>>

\* A Secret that is already gone counts as deleted.
MutDeleteOne(r, found, x, again, onDone, onError) ==
  /\ x \in listed[r]
  /\ listed' = [listed EXCEPT ![r] = @ \ {x}]
  /\ Goto(r, IF listed[r] = {x} THEN onDone ELSE again)
  /\ UNCHANGED <<session, authcode, pkce, upstream, presented, readRV, apiErrors>>

\* DeleteByLabel, second half: the listed Secrets are deleted one by one, and the
\* first one that is already gone is an error.
DeleteOne(r, found, x, again, onDone, onError) ==
  /\ x \in listed[r]
  /\ listed' = [listed EXCEPT ![r] = IF x \in found THEN @ \ {x} ELSE {}]
  /\ Goto(r, CASE x \notin found -> onError
               [] x \in found /\ listed[r] = {x} -> onDone
               [] OTHER -> again)
  /\ UNCHANGED <<session, authcode, pkce, upstream, presented, readRV, apiErrors>>

\* A refresh stops at the first error; the handling of a reused code goes on.
RevokeAccessTokenList(r) ==
  \/ /\ At(r, "listAccess")
     /\ ListByLabel(r, accessTokens, "deleteAccess", "failed")
  \/ /\ At(r, "reuseListAccess")
     /\ ListByLabel(r, accessTokens, "reuseDeleteAccess", "reuseListRefresh")

RevokeAccessTokenDelete(r) ==
  \E x \in Requests :
    /\ \/ /\ At(r, "deleteAccess")
          /\ DeleteOne(r, accessTokens, x, "deleteAccess", "listRefresh", "failed")
       \/ /\ At(r, "reuseDeleteAccess")
          /\ DeleteOne(r, accessTokens, x, "reuseDeleteAccess", "reuseListRefresh", "reuseListRefresh")
    /\ accessTokens' = accessTokens \ {x}
    /\ UNCHANGED refreshTokens

RevokeRefreshTokenList(r) ==
  \/ /\ At(r, "listRefresh")
     /\ ListByLabel(r, refreshTokens, "deleteRefresh", "failed")
  \/ /\ At(r, "reuseListRefresh")
     /\ ListByLabel(r, refreshTokens, "reuseDeleteRefresh", "rejected")

RevokeRefreshTokenDelete(r) ==
  \E x \in Requests :
    /\ \/ /\ At(r, "deleteRefresh")
          /\ DeleteOne(r, refreshTokens, x, "deleteRefresh", "createAccess", "failed")
       \/ /\ At(r, "reuseDeleteRefresh")
          /\ DeleteOne(r, refreshTokens, x, "reuseDeleteRefresh", "rejected", "rejected")
    /\ refreshTokens' = refreshTokens \ {x}
    /\ UNCHANGED accessTokens

\* A List or a Delete fails while the tokens of a used code are revoked: fosite notes the
\* error in its answer, and goes on to the refresh token and to invalid_grant.  A Delete that
\* was applied although its answer was lost is a RevokeAccessTokenDelete: what follows it is
\* the same.
MutRevocationError(r) ==
  /\ pc[r] \in ReuseSteps
  /\ apiErrors' = [apiErrors EXCEPT ![r] = @ \cup {"access"}]
  /\ Goto(r, "rejected")
  /\ UNCHANGED <<session, secrets, upstream, presented, readRV, listed>>

RevocationError(r) ==
  /\ \/ /\ pc[r] \in {"reuseListAccess", "reuseDeleteAccess"}
        /\ apiErrors' = [apiErrors EXCEPT ![r] = @ \cup {"access"}]
        /\ Goto(r, "reuseListRefresh")
     \/ /\ pc[r] \in {"reuseListRefresh", "reuseDeleteRefresh"}
        /\ apiErrors' = [apiErrors EXCEPT ![r] = @ \cup {"refresh"}]
        /\ Goto(r, "rejected")
  /\ UNCHANGED <<session, secrets, upstream, presented, readRV, listed>>

\* An API call fails, the provider refuses, the client goes away or the process
\* dies.  What the request has stored or deleted so far stays as it is.  In the
\* handling of a used code it is the process that dies: for the other failures
\* see RevocationError.
Abort(r) ==
  /\ pc[r] \in Running
  /\ Goto(r, "failed")
  /\ UNCHANGED <<session, secrets, upstream, locals>>

Handle(r) ==
  \/ GetAuthorizeCodeSession(r) \/ GetPKCERequestSession(r) \/ DeletePKCERequestSession(r)
  \/ PopulateGetAuthorizeCodeSession(r) \/ InvalidateGetSession(r) \/ InvalidateUpdate(r)
  \/ CreateAccessTokenSession(r) \/ CreateRefreshTokenSession(r)
  \/ GetRefreshTokenSession(r) \/ UpstreamOIDCRefresh(r) \/ UpstreamLDAPRefresh(r)
  \/ PopulateGetRefreshTokenSession(r)
  \/ RevokeAccessTokenList(r) \/ RevokeAccessTokenDelete(r)
  \/ RevokeRefreshTokenList(r) \/ RevokeRefreshTokenDelete(r) \/ RevocationError(r)

Next == \E r \in Requests : Redeem(r) \/ Refresh(r) \/ Handle(r) \/ Abort(r)

Spec == Init /\ [][Next]_vars

-----------------------------------------------------------------------------
(* Properties.                                                             *)

AtMostOne(S) == \A x, y \in S : x = y

\* However redemptions, refreshes and reuse detections of one session interleave
\* and wherever they fail, there is never more than one access token Secret and
\* never more than one refresh token Secret for the session.  Nothing locks the
\* session: it holds because DeleteByLabel reports "none found" and a delete of
\* a deleted Secret as errors, which stop a second refresh of the same session.
SingleTokenPair == AtMostOne(accessTokens) /\ AtMostOne(refreshTokens)

\* An authorization code is exchanged for tokens at most once: of all requests
\* that present it at most one is answered with tokens.
Redeemed == {r \in Requests : At(r, "ok") /\ presented[r] = None}
CodeRedeemedOnce == AtMostOne(Redeemed)

\* garbage_collector.go says of PKCE storage that "its very existence means that
\* the downstream authcode was never exchanged": nothing has been issued, and
\* the code is still active, while the PKCE Secret exists.
PKCEMeansNeverExchanged ==
  pkce => authcode.active /\ accessTokens = {} /\ refreshTokens = {}

\* kube_storage.go: "if the token endpoint receives an authcode that was already used
\* successfully, then it revokes" the access and the refresh token.  When no other request ran
\* meanwhile, the answer invalid_grant means that nothing that was issued is left, but for
\* tokens of a kind whose own revocation the API server failed: an error with the access token
\* never spares the refresh token, also when an earlier failure had left the session with
\* only one of the two.
ReuseRevokesSession ==
  \A r \in quietReuse : At(r, "rejected") =>
    /\ "access" \in apiErrors[r] \/ accessTokens = {}
    /\ "refresh" \in apiErrors[r] \/ refreshTokens = {}

\* garbage_collector.go says of refresh token storage: "Either way, it always
\* contains the latest upstream token when it exists."
RefreshStorageHoldsLatestUpstreamToken ==
  \A r \in refreshTokens : upstreamIn[r] = upstreamLast \/ \E q \in Requests : pc[q] \in Running

-----------------------------------------------------------------------------
(* The inductive invariant behind the safety properties.  The right to     *)
(* create a token of a session is passed on like a baton: from the active  *)
(* code to the request that invalidates it, from there to the token it     *)
(* creates, and from a token to the request that deletes it.               *)

MayCreateAccess(r) == pc[r] \in {"listRefresh", "deleteRefresh", "createAccess"}
MayCreateRefresh(r) == pc[r] \in {"createAccess", "createRefresh"}
HasRedeemed(r) == presented[r] = None /\ pc[r] \in {"createAccess", "createRefresh", "ok"}

AccessBaton ==
  /\ AtMostOne(accessTokens)
  /\ AtMostOne({r \in Requests : MayCreateAccess(r)})
  /\ accessTokens # {} => \A r \in Requests : ~MayCreateAccess(r)

RefreshBaton ==
  /\ AtMostOne(refreshTokens)
  /\ AtMostOne({r \in Requests : MayCreateRefresh(r)})
  /\ refreshTokens # {} => \A r \in Requests : ~MayCreateRefresh(r)

RedeemBaton ==
  /\ AtMostOne({r \in Requests : HasRedeemed(r)})
  /\ \A r \in Requests : pc[r] \in RefreshSteps => presented[r] # None

ActiveCodeHoldsBatons ==
  authcode.active =>
    /\ accessTokens = {} /\ refreshTokens = {}
    /\ \A r \in Requests : ~MayCreateAccess(r) /\ ~MayCreateRefresh(r) /\ ~HasRedeemed(r)

\* A request that is about to write the code either read its current version,
\* and then the code is active, or will be refused.
ReadVersion ==
  \A r \in Requests : At(r, "invalidateUpdate") =>
    /\ readRV[r] <= authcode.rv
    /\ readRV[r] = authcode.rv => authcode.active

PKCEGone ==
  /\ pkce => authcode.active
  /\ pkce => \A r \in Requests : pc[r] \notin {"populateGetAuthcode", "invalidateGet", "invalidateUpdate"}

\* The storage calls of concurrent requests implement that baton: one right to a refresh
\* token, which is in the code, with one request or in one token Secret, and never in two
\* of these, although the API calls that move it are separate and nothing locks them.
Grant == INSTANCE SessionGrant WITH
  code <- authcode.active,
  minting <- {r \in Requests : MayCreateRefresh(r)},
  token <- refreshTokens,
  answered <- {r \in Requests : At(r, "ok")}
ImplementsGrant == Grant!Spec

Inv ==
  /\ TypeOK /\ AccessBaton /\ RefreshBaton /\ RedeemBaton
  /\ ActiveCodeHoldsBatons /\ ReadVersion /\ PKCEGone

\* As long as nothing overlaps the detection of a reused code, what it has listed is all that
\* there is, and what it has been through is gone, unless the API server has failed it.
ReuseOK ==
  \A r \in quietReuse :
    /\ Quiet(r) /\ pc[r] \in ReuseSteps \cup {"rejected", "failed"}
    /\ At(r, "reuseDeleteAccess") => listed[r] = accessTokens
    /\ pc[r] \in {"reuseListRefresh", "reuseDeleteRefresh", "rejected"} =>
         "access" \in apiErrors[r] \/ accessTokens = {}
    /\ At(r, "reuseDeleteRefresh") => listed[r] = refreshTokens
    /\ At(r, "rejected") => "refresh" \in apiErrors[r] \/ refreshTokens = {}
=============================================================================
