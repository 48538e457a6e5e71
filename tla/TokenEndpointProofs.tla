------------------------ MODULE TokenEndpointProofs ------------------------
(* Proofs about TokenEndpoint for any set of requests.                     *)
EXTENDS TokenEndpoint, TLAPS

\* The provers of a leaf that names none, with time to spare on a busy machine.
USE SMTT(30), ZenonT(60)

\* The invariant holds when the code has just been issued.
LEMMA InvInit == Init => Inv
  BY NoneAssumption, OriginalAssumption
     DEF Init, Inv, TypeOK, AccessBaton, RefreshBaton, RedeemBaton, ActiveCodeHoldsBatons,
         ReadVersion, PKCEGone, AtMostOne, MayCreateAccess, MayCreateRefresh, HasRedeemed,
         RedeemSteps, RefreshSteps, ReuseSteps, Running, Finished, At

\* No step of any request takes the state out of the invariant.
LEMMA InvNext == Inv /\ [Next]_vars => Inv'
<1> SUFFICES ASSUME Inv, [Next]_vars PROVE Inv'
  OBVIOUS
<1> USE NoneAssumption, OriginalAssumption
    DEF Inv, TypeOK, AccessBaton, RefreshBaton, RedeemBaton, ActiveCodeHoldsBatons,
        ReadVersion, PKCEGone, AtMostOne, MayCreateAccess, MayCreateRefresh, HasRedeemed,
        RedeemSteps, RefreshSteps, ReuseSteps, Running, Finished, At, Goto, Try,
        session, secrets, upstream, locals
<1>1. CASE UNCHANGED vars
  BY <1>1 DEF vars
<1>2. ASSUME NEW r \in Requests, Redeem(r) PROVE Inv'
  BY <1>2 DEF Redeem
<1>3. ASSUME NEW r \in Requests, Refresh(r) PROVE Inv'
  BY <1>3 DEF Refresh
<1>4. ASSUME NEW r \in Requests, GetAuthorizeCodeSession(r) PROVE Inv'
  BY <1>4 DEF GetAuthorizeCodeSession
<1>5. ASSUME NEW r \in Requests, GetPKCERequestSession(r) PROVE Inv'
  BY <1>5 DEF GetPKCERequestSession
<1>6. ASSUME NEW r \in Requests, DeletePKCERequestSession(r) PROVE Inv'
  <2>1. ~pkce' /\ pkce' \in BOOLEAN
    BY <1>6, ZenonT(60) DEF DeletePKCERequestSession
  <2>2. pc' \in [Requests -> {"idle"} \cup Running \cup Finished]
    BY <1>6 DEF DeletePKCERequestSession
  <2>3. TypeOK'
    BY <1>6, <2>1, <2>2 DEF DeletePKCERequestSession
  <2>4. AccessBaton' /\ RefreshBaton'
    BY <1>6 DEF DeletePKCERequestSession
  <2>5. RedeemBaton' /\ ActiveCodeHoldsBatons' /\ ReadVersion'
    BY <1>6 DEF DeletePKCERequestSession
  <2>6. PKCEGone'
    BY <2>1
  <2> QED
    BY <2>3, <2>4, <2>5, <2>6
<1>7. ASSUME NEW r \in Requests, PopulateGetAuthorizeCodeSession(r) PROVE Inv'
  BY <1>7 DEF PopulateGetAuthorizeCodeSession
<1>8. ASSUME NEW r \in Requests, InvalidateGetSession(r) PROVE Inv'
  BY <1>8 DEF InvalidateGetSession
<1>9. ASSUME NEW r \in Requests, InvalidateUpdate(r) PROVE Inv'
  BY <1>9 DEF InvalidateUpdate
<1>10. ASSUME NEW r \in Requests, CreateAccessTokenSession(r) PROVE Inv'
  BY <1>10 DEF CreateAccessTokenSession
<1>11. ASSUME NEW r \in Requests, CreateRefreshTokenSession(r) PROVE Inv'
  BY <1>11 DEF CreateRefreshTokenSession
<1>12. ASSUME NEW r \in Requests, GetRefreshTokenSession(r) PROVE Inv'
  BY <1>12 DEF GetRefreshTokenSession
<1>13. ASSUME NEW r \in Requests, UpstreamOIDCRefresh(r) PROVE Inv'
  BY <1>13 DEF UpstreamOIDCRefresh
<1>14. ASSUME NEW r \in Requests, UpstreamLDAPRefresh(r) PROVE Inv'
  BY <1>14 DEF UpstreamLDAPRefresh
<1>15. ASSUME NEW r \in Requests, PopulateGetRefreshTokenSession(r) PROVE Inv'
  BY <1>15 DEF PopulateGetRefreshTokenSession
<1>16. ASSUME NEW r \in Requests, RevokeAccessTokenList(r) PROVE Inv'
  BY <1>16 DEF RevokeAccessTokenList, ListByLabel
<1>17. ASSUME NEW r \in Requests, RevokeAccessTokenDelete(r) PROVE Inv'
  BY <1>17 DEF RevokeAccessTokenDelete, DeleteOne
<1>18. ASSUME NEW r \in Requests, RevokeRefreshTokenList(r) PROVE Inv'
  BY <1>18 DEF RevokeRefreshTokenList, ListByLabel
<1>19. ASSUME NEW r \in Requests, RevokeRefreshTokenDelete(r) PROVE Inv'
  BY <1>19 DEF RevokeRefreshTokenDelete, DeleteOne
<1>20. ASSUME NEW r \in Requests, Abort(r) PROVE Inv'
  BY <1>20 DEF Abort
<1>21. ASSUME NEW r \in Requests, RevocationError(r) PROVE Inv'
  BY <1>21 DEF RevocationError
<1> QED
  BY <1>1, <1>2, <1>3, <1>4, <1>5, <1>6, <1>7, <1>8, <1>9, <1>10, <1>11, <1>12, <1>13,
     <1>14, <1>15, <1>16, <1>17, <1>18, <1>19, <1>20, <1>21, ZenonT(60) DEF Next, Handle

\* Inv is an invariant of the token endpoint.
THEOREM InvAlways == Spec => []Inv
  BY InvInit, InvNext, PTL DEF Spec

\* Type correctness, for any number of concurrent token requests.
THEOREM TypeCorrect == Spec => []TypeOK
<1>1. Inv => TypeOK
  BY DEF Inv
<1> QED
  BY <1>1, InvAlways, PTL

\* A session never has two access token Secrets or two refresh token Secrets,
\* however many requests redeem, refresh and fail concurrently.
THEOREM OneTokenPair == Spec => []SingleTokenPair
<1>1. Inv => SingleTokenPair
  BY DEF Inv, AccessBaton, RefreshBaton, SingleTokenPair
<1> QED
  BY <1>1, InvAlways, PTL

\* At most one request is ever answered with tokens for the code itself.
THEOREM OneRedemption == Spec => []CodeRedeemedOnce
<1>1. Inv => CodeRedeemedOnce
  BY DEF Inv, RedeemBaton, HasRedeemed, CodeRedeemedOnce, Redeemed, AtMostOne, At
<1> QED
  BY <1>1, InvAlways, PTL

\* While the PKCE Secret exists the code is unused and nothing was issued, which
\* is what the garbage collector relies on when it ignores PKCE Secrets.
THEOREM PKCEUnexchanged == Spec => []PKCEMeansNeverExchanged
<1>1. Inv => PKCEMeansNeverExchanged
  BY DEF Inv, PKCEGone, ActiveCodeHoldsBatons, PKCEMeansNeverExchanged
<1> QED
  BY <1>1, InvAlways, PTL

\* A step is a step of the grant, or one that the grant does not notice.
LEMMA GrantStep == Inv /\ Inv' /\ [Next]_vars => [Grant!Next]_(Grant!vars)
<1> SUFFICES ASSUME Inv, Inv', [Next]_vars PROVE [Grant!Next]_(Grant!vars)
  OBVIOUS
<1> USE DEF Inv, TypeOK, RefreshBaton, ActiveCodeHoldsBatons, AtMostOne, MayCreateRefresh, At, Goto, Try,
            RedeemSteps, RefreshSteps, ReuseSteps, Running, Finished, session, secrets, upstream, locals
<1>1. CASE UNCHANGED vars
  BY <1>1 DEF vars, Grant!vars, Grant!right
<1> DEFINE Minting == {q \in Requests : MayCreateRefresh(q)}
           Answered == {q \in Requests : At(q, "ok")}
<1>2. ASSUME NEW r \in Requests, InvalidateUpdate(r) PROVE [Grant!Next]_(Grant!vars)
  <2>1. CASE readRV[r] = authcode.rv
    <3>1. authcode.active /\ Minting = {} /\ ~authcode'.active
      BY <1>2, <2>1 DEF InvalidateUpdate, ReadVersion
    <3>2. Minting' = {r} /\ Answered' = Answered /\ r \notin Answered /\ UNCHANGED refreshTokens
      BY <1>2, <2>1, <3>1 DEF InvalidateUpdate
    <3>3. Grant!Redeem(r)
      BY <3>1, <3>2 DEF Grant!Redeem
    <3> QED
      BY <3>3 DEF Grant!Next
  <2>2. CASE readRV[r] # authcode.rv
    BY <1>2, <2>2 DEF InvalidateUpdate, Grant!vars, Grant!right
  <2> QED
    BY <2>1, <2>2
<1>3. ASSUME NEW r \in Requests, CreateAccessTokenSession(r) PROVE [Grant!Next]_(Grant!vars)
  <2>1. Minting = {r} /\ refreshTokens = {} /\ ~authcode.active /\ r \notin Answered
    BY <1>3 DEF CreateAccessTokenSession
  <2>2. CASE offlineAccess
    BY <1>3, <2>2 DEF CreateAccessTokenSession, Grant!vars, Grant!right
  <2>3. CASE ~offlineAccess
    <3>1. Minting' = {} /\ Answered' = Answered \cup {r} /\ refreshTokens' = {} /\ UNCHANGED authcode
      BY <1>3, <2>1, <2>3 DEF CreateAccessTokenSession
    <3>2. Grant!Issue(r)
      BY <2>1, <3>1 DEF Grant!Issue
    <3> QED
      BY <3>2 DEF Grant!Next
  <2> QED
    BY <2>2, <2>3
<1>4. ASSUME NEW r \in Requests, CreateRefreshTokenSession(r) PROVE [Grant!Next]_(Grant!vars)
  <2>1. Minting = {r} /\ refreshTokens = {} /\ r \notin Answered
    BY <1>4 DEF CreateRefreshTokenSession
  <2>2. Minting' = {} /\ Answered' = Answered \cup {r} /\ refreshTokens' = {r} /\ UNCHANGED authcode
    BY <1>4, <2>1 DEF CreateRefreshTokenSession
  <2>3. Grant!Issue(r)
    BY <2>1, <2>2 DEF Grant!Issue
  <2> QED
    BY <2>3 DEF Grant!Next
<1>5. ASSUME NEW r \in Requests, RevokeRefreshTokenDelete(r) PROVE [Grant!Next]_(Grant!vars)
  <2>1. PICK x \in Requests :
          /\ \/ /\ pc[r] = "deleteRefresh"
                /\ DeleteOne(r, refreshTokens, x, "deleteRefresh", "createAccess", "failed")
             \/ /\ pc[r] = "reuseDeleteRefresh"
                /\ DeleteOne(r, refreshTokens, x, "reuseDeleteRefresh", "rejected", "rejected")
          /\ refreshTokens' = refreshTokens \ {x}
    BY <1>5 DEF RevokeRefreshTokenDelete
  <2>2. UNCHANGED authcode /\ Answered' = Answered /\ r \notin Answered
    BY <2>1 DEF DeleteOne
  <2>3. CASE x \notin refreshTokens
    <3>1. refreshTokens' = refreshTokens /\ Minting' = Minting
      BY <2>1, <2>3 DEF DeleteOne
    <3> QED
      BY <2>2, <3>1 DEF Grant!vars, Grant!right
  <2>4. CASE x \in refreshTokens
    <3>1. refreshTokens' = {} /\ Minting = {} /\ ~authcode.active
      BY <2>1, <2>4
    <3>2. Minting' \in {{}, {r}}
      BY <2>1, <2>4, <3>1 DEF DeleteOne
    <3>3. CASE Minting' = {}
      BY <2>2, <3>1, <3>3 DEF Grant!Lose, Grant!Next
    <3>4. CASE Minting' = {r}
      <4>1. Grant!Use(r)
        BY <2>2, <2>4, <3>1, <3>4 DEF Grant!Use
      <4> QED
        BY <4>1 DEF Grant!Next
    <3> QED
      BY <3>2, <3>3, <3>4
  <2> QED
    BY <2>3, <2>4
<1>6. ASSUME NEW r \in Requests, Abort(r) PROVE [Grant!Next]_(Grant!vars)
  <2>1. UNCHANGED <<authcode, refreshTokens>> /\ Answered' = Answered
    BY <1>6 DEF Abort
  <2>2. CASE MayCreateRefresh(r)
    <3>1. Minting' = {} /\ refreshTokens = {} /\ ~authcode.active
      BY <1>6, <2>2 DEF Abort
    <3> QED
      BY <2>1, <3>1 DEF Grant!Lose, Grant!Next
  <2>3. CASE ~MayCreateRefresh(r)
    <3>1. Minting' = Minting
      BY <1>6, <2>3 DEF Abort
    <3> QED
      BY <2>1, <3>1 DEF Grant!vars, Grant!right
  <2> QED
    BY <2>2, <2>3
<1>7. ASSUME NEW r \in Requests,
             \/ Redeem(r) \/ Refresh(r) \/ GetAuthorizeCodeSession(r) \/ GetPKCERequestSession(r)
             \/ DeletePKCERequestSession(r) \/ PopulateGetAuthorizeCodeSession(r) \/ InvalidateGetSession(r)
             \/ GetRefreshTokenSession(r) \/ UpstreamOIDCRefresh(r) \/ UpstreamLDAPRefresh(r)
             \/ PopulateGetRefreshTokenSession(r) \/ RevokeAccessTokenList(r) \/ RevokeAccessTokenDelete(r)
             \/ RevokeRefreshTokenList(r) \/ RevocationError(r)
      PROVE  UNCHANGED Grant!vars
  <2>1. UNCHANGED <<authcode, refreshTokens>>
    BY <1>7, ZenonT(60) DEF Redeem, Refresh, GetAuthorizeCodeSession, GetPKCERequestSession, DeletePKCERequestSession,
      PopulateGetAuthorizeCodeSession, InvalidateGetSession, GetRefreshTokenSession, UpstreamOIDCRefresh,
      UpstreamLDAPRefresh, PopulateGetRefreshTokenSession, RevokeAccessTokenList, RevokeAccessTokenDelete,
      RevokeRefreshTokenList, RevocationError, ListByLabel, DeleteOne
  <2>2. /\ pc[r] \notin {"createAccess", "createRefresh", "ok"}
        /\ \E step : /\ pc' = [pc EXCEPT ![r] = step]
                     /\ step \notin {"createAccess", "createRefresh", "ok"}
    <3> HIDE DEF Inv, TypeOK, RefreshBaton, ActiveCodeHoldsBatons, AtMostOne
    <3>1. CASE Redeem(r) \/ Refresh(r) \/ GetAuthorizeCodeSession(r) \/ GetPKCERequestSession(r) \/ DeletePKCERequestSession(r)
      BY <3>1 DEF Redeem, Refresh, GetAuthorizeCodeSession, GetPKCERequestSession, DeletePKCERequestSession, ListByLabel, DeleteOne
    <3>2. CASE PopulateGetAuthorizeCodeSession(r) \/ InvalidateGetSession(r) \/ GetRefreshTokenSession(r) \/ UpstreamOIDCRefresh(r) \/ UpstreamLDAPRefresh(r)
      BY <3>2 DEF PopulateGetAuthorizeCodeSession, InvalidateGetSession, GetRefreshTokenSession, UpstreamOIDCRefresh, UpstreamLDAPRefresh, ListByLabel, DeleteOne
    <3>3. CASE \/ PopulateGetRefreshTokenSession(r) \/ RevokeAccessTokenList(r) \/ RevokeAccessTokenDelete(r)
               \/ RevokeRefreshTokenList(r) \/ RevocationError(r)
      BY <3>3 DEF PopulateGetRefreshTokenSession, RevokeAccessTokenList, RevokeAccessTokenDelete, RevokeRefreshTokenList,
        RevocationError, ListByLabel, DeleteOne
    <3> QED
      BY <1>7, <3>1, <3>2, <3>3, ZenonT(60)
  <2>3. Minting' = Minting /\ Answered' = Answered
    <3>1. pc \in [Requests -> {"idle"} \cup Running \cup Finished]
      OBVIOUS
    <3> HIDE DEF Inv, TypeOK, RefreshBaton, ActiveCodeHoldsBatons, AtMostOne, Running, Finished
    <3>2. ASSUME NEW q \in Requests
          PROVE  MayCreateRefresh(q)' = MayCreateRefresh(q) /\ At(q, "ok")' = At(q, "ok")
      BY <1>7, <2>2, <3>1
    <3> QED
      BY <3>2
  <2> QED
    BY <2>1, <2>3 DEF Grant!vars, Grant!right
<1> QED
  BY <1>1, <1>2, <1>3, <1>4, <1>5, <1>6, <1>7 DEF Next, Handle

\* The token endpoint implements the grant, for any number of concurrent requests.
THEOREM EndpointIsAGrant == Spec => ImplementsGrant
<1>1. Init => Grant!Init
  BY DEF Init, Grant!Init, MayCreateRefresh, At
<1> QED
  BY <1>1, InvAlways, GrantStep, PTL DEF Spec, ImplementsGrant, Grant!Spec


\* What a step does to the requests that it is not about, and to quietReuse.
LEMMA OneRequestMoves ==
  ASSUME pc \in [Requests -> {"idle"} \cup Running \cup Finished], NEW r \in Requests, NEW step, Goto(r, step), ReuseOK
  PROVE  /\ pc'[r] = step
         /\ \A q \in quietReuse' : q = r /\ r \in quietReuse
         /\ r \in quietReuse => Quiet(r)' /\ pc[r] \in ReuseSteps \cup {"rejected", "failed"}
<1>1. pc'[r] = step /\ \A q \in Requests \ {r} : pc'[q] = pc[q]
  BY DEF Goto
<1>2. r \in quietReuse => Quiet(r)'
  BY <1>1 DEF ReuseOK, Quiet
<1> QED
  BY <1>1, <1>2 DEF Goto, ReuseOK

\* Nothing disturbs a reuse detection that is quiet, and its own steps leave nothing behind.
LEMMA ReuseNext == Inv /\ ReuseOK /\ [Next]_vars => ReuseOK'
<1> SUFFICES ASSUME Inv, ReuseOK, [Next]_vars PROVE ReuseOK'
  OBVIOUS
<1>0. pc \in [Requests -> {"idle"} \cup Running \cup Finished] /\ listed \in [Requests -> SUBSET Requests]
      /\ quietReuse \subseteq Requests /\ apiErrors \in [Requests -> SUBSET {"access", "refresh"}]
  BY DEF Inv, TypeOK
<1>1. CASE UNCHANGED vars
  BY <1>1 DEF vars, secrets, locals, ReuseOK, Quiet, At
<1>2. ASSUME NEW r \in Requests, GetAuthorizeCodeSession(r) PROVE ReuseOK'
  <2>1. quietReuse' \in {{}, {r}} /\ (quietReuse' = {r} => ~authcode.active /\ Quiet(r))
    BY <1>2 DEF GetAuthorizeCodeSession
  <2>2. CASE quietReuse' = {}
    BY <2>2 DEF ReuseOK
  <2>3. CASE quietReuse' = {r}
    <3>1. pc' = [pc EXCEPT ![r] = "reuseListAccess"]
      BY <1>2, <2>1, <2>3, ZenonT(60) DEF GetAuthorizeCodeSession
    <3>2. pc'[r] = "reuseListAccess" /\ Quiet(r)'
      BY <1>0, <2>1, <2>3, <3>1 DEF Quiet
    <3> QED
      BY <2>3, <3>2 DEF ReuseOK, At, ReuseSteps
  <2> QED
    BY <2>1, <2>2, <2>3
\* All other actions start at a step that a reuse detection does not have.
<1>3. ASSUME NEW r \in Requests,
             \/ Redeem(r) \/ Refresh(r) \/ GetPKCERequestSession(r)
             \/ DeletePKCERequestSession(r) \/ PopulateGetAuthorizeCodeSession(r) \/ InvalidateGetSession(r)
             \/ InvalidateUpdate(r) \/ CreateAccessTokenSession(r) \/ CreateRefreshTokenSession(r)
             \/ GetRefreshTokenSession(r) \/ UpstreamOIDCRefresh(r) \/ UpstreamLDAPRefresh(r)
             \/ PopulateGetRefreshTokenSession(r)
      PROVE  ReuseOK'
  <2>1. /\ \E step : Goto(r, step)
        /\ pc[r] \in {"idle", "getPKCE", "deletePKCE", "populateGetAuthcode", "invalidateGet", "invalidateUpdate", "createAccess",
                      "createRefresh", "getRefresh", "upstreamRefresh", "populateGetRefresh"}
    BY <1>3, ZenonT(60) DEF Redeem, Refresh, GetPKCERequestSession, DeletePKCERequestSession, PopulateGetAuthorizeCodeSession,
      InvalidateGetSession, InvalidateUpdate, CreateAccessTokenSession, CreateRefreshTokenSession,
      GetRefreshTokenSession, UpstreamOIDCRefresh, UpstreamLDAPRefresh, PopulateGetRefreshTokenSession, At
  <2>2. quietReuse' = {}
    BY <1>0, <2>1, OneRequestMoves DEF ReuseSteps
  <2> QED
    BY <2>2 DEF ReuseOK
<1>4. ASSUME NEW r \in Requests, Abort(r) PROVE ReuseOK'
  <2>1. Goto(r, "failed")
    BY <1>4 DEF Abort
  <2> QED
    BY <1>0, <2>1, OneRequestMoves, ZenonT(60) DEF ReuseOK, At
<1>5. ASSUME NEW r \in Requests, RevokeAccessTokenList(r) \/ RevokeRefreshTokenList(r) PROVE ReuseOK'
  <2>1. /\ UNCHANGED <<accessTokens, refreshTokens, apiErrors>>
        /\ \E found, onFound, onError :
             /\ listed' = [listed EXCEPT ![r] = found] /\ Goto(r, IF found = {} THEN onError ELSE onFound)
             /\ \/ pc[r] \in {"listAccess", "listRefresh"}
                \/ /\ pc[r] = "reuseListAccess" /\ found = accessTokens
                   /\ onFound = "reuseDeleteAccess" /\ onError = "reuseListRefresh"
                \/ /\ pc[r] = "reuseListRefresh" /\ found = refreshTokens
                   /\ onFound = "reuseDeleteRefresh" /\ onError = "rejected"
    BY <1>5, ZenonT(60) DEF RevokeAccessTokenList, RevokeRefreshTokenList, ListByLabel, At, secrets
  <2>2. PICK found, onFound, onError :
             /\ listed' = [listed EXCEPT ![r] = found] /\ Goto(r, IF found = {} THEN onError ELSE onFound)
             /\ \/ pc[r] \in {"listAccess", "listRefresh"}
                \/ /\ pc[r] = "reuseListAccess" /\ found = accessTokens
                   /\ onFound = "reuseDeleteAccess" /\ onError = "reuseListRefresh"
                \/ /\ pc[r] = "reuseListRefresh" /\ found = refreshTokens
                   /\ onFound = "reuseDeleteRefresh" /\ onError = "rejected"
    BY <2>1, ZenonT(60)
  <2>3. /\ pc'[r] = IF found = {} THEN onError ELSE onFound
        /\ \A q \in quietReuse' : q = r /\ r \in quietReuse
        /\ r \in quietReuse => Quiet(r)' /\ pc[r] \in ReuseSteps \cup {"rejected", "failed"}
    BY <1>0, <2>2, OneRequestMoves
  <2>4. listed'[r] = found
    BY <1>0, <2>2
  <2> QED
    BY <2>1, <2>2, <2>3, <2>4 DEF ReuseOK, At, ReuseSteps
<1>6. ASSUME NEW r \in Requests, RevokeAccessTokenDelete(r) PROVE ReuseOK'
  <2>1. PICK x \in Requests :
          /\ \/ /\ pc[r] = "deleteAccess"
                /\ DeleteOne(r, accessTokens, x, "deleteAccess", "listRefresh", "failed")
             \/ /\ pc[r] = "reuseDeleteAccess"
                /\ DeleteOne(r, accessTokens, x, "reuseDeleteAccess", "reuseListRefresh", "reuseListRefresh")
          /\ accessTokens' = accessTokens \ {x} /\ UNCHANGED refreshTokens
    BY <1>6 DEF RevokeAccessTokenDelete, At
  <2>2. \E step : Goto(r, step)
    BY <2>1 DEF DeleteOne
  <2>3. /\ \A q \in quietReuse' : q = r /\ r \in quietReuse
        /\ r \in quietReuse => Quiet(r)' /\ pc[r] \in ReuseSteps \cup {"rejected", "failed"}
    BY <1>0, <2>2, OneRequestMoves
  <2>4. ASSUME r \in quietReuse
        PROVE  \/ pc'[r] = "reuseDeleteAccess" /\ listed'[r] = accessTokens'
               \/ pc'[r] = "reuseListRefresh" /\ accessTokens' = {}
    <3>1. DeleteOne(r, accessTokens, x, "reuseDeleteAccess", "reuseListRefresh", "reuseListRefresh")
          /\ listed[r] = accessTokens
      BY <2>1, <2>3, <2>4 DEF ReuseOK, ReuseSteps, At
    <3>2. x \in accessTokens /\ listed'[r] = accessTokens \ {x}
          /\ pc' = [pc EXCEPT ![r] = IF accessTokens = {x} THEN "reuseListRefresh" ELSE "reuseDeleteAccess"]
      BY <1>0, <3>1 DEF DeleteOne, Goto
    <3> QED
      BY <1>0, <2>1, <3>2
  <2> QED
    BY <2>3, <2>4 DEF ReuseOK, At, ReuseSteps
<1>7. ASSUME NEW r \in Requests, RevokeRefreshTokenDelete(r) PROVE ReuseOK'
  <2>1. PICK x \in Requests :
          /\ \/ /\ pc[r] = "deleteRefresh"
                /\ DeleteOne(r, refreshTokens, x, "deleteRefresh", "createAccess", "failed")
             \/ /\ pc[r] = "reuseDeleteRefresh"
                /\ DeleteOne(r, refreshTokens, x, "reuseDeleteRefresh", "rejected", "rejected")
          /\ refreshTokens' = refreshTokens \ {x} /\ UNCHANGED accessTokens
    BY <1>7 DEF RevokeRefreshTokenDelete, At
  <2>2. \E step : Goto(r, step)
    BY <2>1 DEF DeleteOne
  <2>3. /\ \A q \in quietReuse' : q = r /\ r \in quietReuse
        /\ r \in quietReuse => Quiet(r)' /\ pc[r] \in ReuseSteps \cup {"rejected", "failed"}
    BY <1>0, <2>2, OneRequestMoves
  <2>4. ASSUME r \in quietReuse
        PROVE  /\ "access" \in apiErrors'[r] \/ accessTokens' = {}
               /\ \/ pc'[r] = "reuseDeleteRefresh" /\ listed'[r] = refreshTokens'
                  \/ pc'[r] = "rejected" /\ refreshTokens' = {}
    <3>1. DeleteOne(r, refreshTokens, x, "reuseDeleteRefresh", "rejected", "rejected")
          /\ listed[r] = refreshTokens /\ ("access" \in apiErrors[r] \/ accessTokens = {}) /\ UNCHANGED apiErrors
      BY <2>1, <2>3, <2>4 DEF ReuseOK, ReuseSteps, At, DeleteOne
    <3>2. x \in refreshTokens /\ listed'[r] = refreshTokens \ {x}
          /\ pc' = [pc EXCEPT ![r] = IF refreshTokens = {x} THEN "rejected" ELSE "reuseDeleteRefresh"]
      BY <1>0, <3>1 DEF DeleteOne, Goto
    <3> QED
      BY <1>0, <2>1, <3>1, <3>2
  <2> QED
    BY <2>3, <2>4 DEF ReuseOK, At, ReuseSteps
<1>8. ASSUME NEW r \in Requests, RevocationError(r) PROVE ReuseOK'
  <2>1. /\ UNCHANGED <<accessTokens, refreshTokens, listed>>
        /\ \/ /\ Goto(r, "reuseListRefresh") /\ apiErrors' = [apiErrors EXCEPT ![r] = @ \cup {"access"}]
           \/ /\ Goto(r, "rejected") /\ apiErrors' = [apiErrors EXCEPT ![r] = @ \cup {"refresh"}]
              /\ pc[r] \in {"reuseListRefresh", "reuseDeleteRefresh"}
    BY <1>8 DEF RevocationError, secrets
  <2>2. /\ \A q \in quietReuse' : q = r /\ r \in quietReuse
        /\ r \in quietReuse => Quiet(r)'
    BY <1>0, <2>1, OneRequestMoves, ZenonT(60)
  <2>3. \/ pc'[r] = "reuseListRefresh" /\ "access" \in apiErrors'[r]
        \/ /\ pc'[r] = "rejected" /\ "refresh" \in apiErrors'[r] /\ apiErrors[r] \subseteq apiErrors'[r]
           /\ pc[r] \in {"reuseListRefresh", "reuseDeleteRefresh"}
    BY <1>0, <2>1 DEF Goto
  <2> QED
    BY <2>1, <2>2, <2>3 DEF ReuseOK, At, ReuseSteps
<1> QED
  BY <1>1, <1>2, <1>3, <1>4, <1>5, <1>6, <1>7, <1>8, ZenonT(60) DEF Next, Handle

\* When a used code is presented again and nothing else runs meanwhile, the answer invalid_grant
\* means that no token of a kind is left whose revocation the API server did not fail, also
\* when a failure has left the session with one token only.
THEOREM ReuseRevokes == Spec => []ReuseRevokesSession
<1>1. Init => ReuseOK
  BY DEF Init, ReuseOK
<1>2. ReuseOK => ReuseRevokesSession
  BY DEF ReuseOK, ReuseRevokesSession, At
<1> QED
  BY <1>1, <1>2, InvAlways, ReuseNext, PTL DEF Spec
=============================================================================
