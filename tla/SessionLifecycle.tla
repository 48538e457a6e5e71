-------------------------- MODULE SessionLifecycle --------------------------
(***************************************************************************)
(* The life of one downstream session in storage, over time: the Secrets   *)
(* that the login, the redemption and the refreshes create, their expiry,  *)
(* and the garbage collector that sweeps them out of an informer's cache   *)
(* which lags behind the API server, revoking the upstream token of the    *)
(* session on the way.                                                     *)
(*                                                                         *)
(*   internal/oidc/oidc.go                      lifespans and lifetimes    *)
(*   internal/crud/crud.go                      garbage-collect-after      *)
(*   internal/controller/supervisorstorage/garbage_collector.go            *)
(*                                                                         *)
(* Token requests are two steps here, the look-up and the storage writes,  *)
(* at most MaxRequestTime apart, and one is handled at a time;             *)
(* TokenEndpoint splits them into their single API calls and runs them     *)
(* concurrently.                                                           *)
(***************************************************************************)
EXTENDS Integers, Sequences, FiniteSets

CONSTANTS
  AuthorizeCodeLifespan, AccessTokenLifespan, RefreshTokenLifespan,
  StorageMargin,         \* what PKCE and OIDC sessions are kept beyond the code
  MinimumRepeatInterval, \* between two sweeps of the garbage collector
  GiveUpAfter,           \* how long failed revocations are retried: four hours
  MaxCacheLag,           \* how far the informer's cache is behind, at most
  MaxRequestTime,        \* how long a token request takes, at most
  MaxRefreshes,          \* bound: refreshes of the session
  MaxTime,               \* bound: end of time
  RequestsMayFail        \* may the storage writes of a request fail midway?

ASSUME LifespanAssumption ==
  /\ {AuthorizeCodeLifespan, AccessTokenLifespan, RefreshTokenLifespan} \subseteq Nat \ {0}
  /\ {StorageMargin, MinimumRepeatInterval, GiveUpAfter, MaxRefreshes, MaxTime} \subseteq Nat
  /\ {MaxCacheLag, MaxRequestTime} \subseteq Nat
  /\ RequestsMayFail \in BOOLEAN

\* The margins that DefaultOIDCTimeoutsConfiguration leaves are for the cache and
\* for requests that are already running when a credential expires.
ASSUME MarginAssumption ==
  /\ MaxRequestTime + MaxCacheLag <= AccessTokenLifespan
  /\ MaxRequestTime + MaxCacheLag <= RefreshTokenLifespan
  /\ MaxRequestTime <= StorageMargin

-----------------------------------------------------------------------------
(* DefaultOIDCTimeoutsConfiguration.                                       *)

AuthorizationCodeSessionStorageLifetime == AuthorizeCodeLifespan + RefreshTokenLifespan
PKCESessionStorageLifetime == AuthorizeCodeLifespan + StorageMargin
MutOIDCSessionStorageLifetime == AuthorizeCodeLifespan
OIDCSessionStorageLifetime == AuthorizeCodeLifespan + StorageMargin
MutAccessTokenSessionStorageLifetime == AccessTokenLifespan
AccessTokenSessionStorageLifetime == RefreshTokenLifespan + AccessTokenLifespan
MutRefreshTokenSessionStorageLifetime == RefreshTokenLifespan
RefreshTokenSessionStorageLifetime == RefreshTokenLifespan + AccessTokenLifespan

Generations == 0..MaxRefreshes  \* of tokens: 0 from the redemption, then one per refresh

Authcode == <<"authcode", 0>>
PKCE     == <<"pkce", 0>>
OIDC     == <<"oidc", 0>>
Access(g)  == <<"access-token", g>>
Refresh(g) == <<"refresh-token", g>>
Names == {Authcode, PKCE, OIDC} \cup ({"access-token", "refresh-token"} \X Generations)

StorageLifetime(name) ==
  CASE name = Authcode -> AuthorizationCodeSessionStorageLifetime
    [] name = PKCE -> PKCESessionStorageLifetime
    [] name = OIDC -> OIDCSessionStorageLifetime
    [] name[1] = "access-token" -> AccessTokenSessionStorageLifetime
    [] name[1] = "refresh-token" -> RefreshTokenSessionStorageLifetime

Lifespan(name) == IF name[1] = "refresh-token" THEN RefreshTokenLifespan
                  ELSE IF name[1] = "access-token" THEN AccessTokenLifespan
                  ELSE AuthorizeCodeLifespan

VARIABLES
  now,
  offlineAccess,  \* was the offline_access scope granted?
  providerType,   \* the kind of upstream identity provider
  codeIsKnown,    \* did the client get the authorization code?
  store,          \* the session's Secrets at the API server, by name
  cache,          \* the informer's copy of them
  staleSince,     \* when store and cache began to differ (0 when they agree)
  request,        \* the token request being handled
  latest,         \* the upstream token that the session holds now
  revoked,        \* upstream tokens that were revoked
  abandoned,      \* upstream tokens that the collector gave up on
  reused,         \* history: was the code presented again after its use?
  sweep,          \* the sweep being run: its frozen time and the Secrets to go
  sinceSweep      \* time since timeOfMostRecentSweep, up to MinimumRepeatInterval

session == <<offlineAccess, providerType, codeIsKnown>>
upstream == <<latest, revoked, abandoned, reused>>
collector == <<sweep, sinceSweep>>
vars == <<now, session, store, cache, staleSince, request, upstream, collector>>

\* A stored session: what it authorizes is valid up to and including expires.
Secret(gcAfter, expires, active, token) ==
  [garbageCollectAfter |-> gcAfter, expires |-> expires, active |-> active, upstream |-> token]
Secrets == [garbageCollectAfter : Nat, expires : Nat, active : BOOLEAN, upstream : Nat]

\* toSecret: created at time now for a request that started at time asOf.
NewSecret(name, asOf, token) ==
  Secret(now + StorageLifetime(name), asOf + Lifespan(name), TRUE, token)

Stored(name) == name \in DOMAIN store
Put(S, name, secret) == [n \in DOMAIN S \cup {name} |-> IF n = name THEN secret ELSE S[n]]
Remove(S, gone) == [n \in DOMAIN S \ gone |-> S[n]]
SetStore(S) == /\ store' = S
               /\ staleSince' = IF S = cache THEN 0 ELSE IF store = cache THEN now ELSE staleSince
               /\ UNCHANGED cache

Idle == [grant |-> "none", since |-> 0, name |-> Authcode, upstream |-> 0]
NotSweeping == [time |-> 0, todo |-> <<>>, deleting |-> {}]

TypeOK ==
  /\ now \in 0..MaxTime
  /\ offlineAccess \in BOOLEAN /\ codeIsKnown \in BOOLEAN
  /\ providerType \in {"oidc", "ldap"}
  /\ DOMAIN store \subseteq Names /\ \A n \in DOMAIN store : store[n] \in Secrets
  /\ DOMAIN cache \subseteq Names /\ \A n \in DOMAIN cache : cache[n] \in Secrets
  /\ staleSince \in 0..MaxTime /\ sinceSweep \in 0..MinimumRepeatInterval
  /\ request \in [grant : {"none", "redeem", "refresh"}, since : 0..MaxTime, name : Names, upstream : Generations]
  /\ latest \in Generations /\ revoked \subseteq Generations /\ abandoned \subseteq Generations
  /\ reused \in BOOLEAN
  /\ DOMAIN sweep = {"time", "todo", "deleting"}
  /\ sweep.time \in 0..MaxTime /\ sweep.deleting \subseteq Names
  /\ DOMAIN sweep.todo \subseteq Names /\ \A n \in DOMAIN sweep.todo : sweep.todo[n] \in Secrets
  /\ \A n \in DOMAIN sweep.todo : sweep.todo[n].garbageCollectAfter < sweep.time

-----------------------------------------------------------------------------
(* The login: PerformAuthcodeRedirect stores the code, then the OIDC and   *)
(* the PKCE session; the client gets the code when all were stored.        *)

LoginWrites == {{Authcode}, {Authcode, OIDC}, {Authcode, OIDC, PKCE}}

Init ==
  /\ now = 0
  /\ offlineAccess \in BOOLEAN /\ providerType \in {"oidc", "ldap"}
  /\ \E names \in LoginWrites :
       /\ store = [n \in names |-> Secret(StorageLifetime(n), Lifespan(n), TRUE, 0)]
       /\ codeIsKnown = (PKCE \in names)
  /\ cache = <<>> /\ staleSince = 0
  /\ request = Idle
  /\ latest = 0 /\ revoked = {} /\ abandoned = {} /\ reused = FALSE
  /\ sweep = NotSweeping /\ sinceSweep = MinimumRepeatInterval

-----------------------------------------------------------------------------
(* The token endpoint.                                                     *)

\* fosite's validation of a code or a refresh token: valid at its expiry, not after.
Valid(name) == Stored(name) /\ now <= store[name].expires

Tokens(kind) == {n \in DOMAIN store : n[1] = kind}

\* The session looked up in NewAccessRequest; the PKCE session is deleted there.
BeginRedeem ==
  /\ request = Idle /\ codeIsKnown
  /\ Valid(Authcode) /\ store[Authcode].active /\ Stored(PKCE)
  /\ request' = [grant |-> "redeem", since |-> now, name |-> Authcode,
                 upstream |-> store[Authcode].upstream]
  /\ SetStore(Remove(store, {PKCE}))
  /\ UNCHANGED <<now, session, upstream, collector>>

\* upstreamRefresh: an OIDC provider accepts the token it issued last, unless that was
\* revoked, and may answer with a new one.
BeginRefresh(g) ==
  LET token == store[Refresh(g)].upstream IN
  /\ request = Idle /\ g < MaxRefreshes
  /\ Valid(Refresh(g))
  /\ providerType = "oidc" => token = latest /\ token \notin revoked
  /\ latest' \in {latest} \cup (IF providerType = "oidc" THEN {latest + 1} \cap Generations ELSE {})
  /\ request' = [grant |-> "refresh", since |-> now, name |-> Refresh(g), upstream |-> latest']
  /\ UNCHANGED <<now, session, store, cache, staleSince, revoked, abandoned, reused, collector>>

\* The stores that the writes of NewAccessResponse go through, one after the other.
NewTokens(S, g) ==
  LET access == Put(S, Access(g), NewSecret(Access(g), request.since, request.upstream))
  IN <<access>> \o IF offlineAccess
       THEN <<Put(access, Refresh(g), NewSecret(Refresh(g), request.since, request.upstream))>>
       ELSE <<>>

RedeemWrites ==
  IF Stored(Authcode) /\ store[Authcode].active
  THEN LET used == [store EXCEPT ![Authcode].active = FALSE] IN <<store, used>> \o NewTokens(used, 0)
  ELSE <<store>>

RefreshWrites ==
  IF Stored(request.name) /\ Tokens("access-token") # {}
  THEN LET noAccess == Remove(store, Tokens("access-token"))
           noTokens == Remove(noAccess, Tokens("refresh-token"))
       IN <<store, noAccess, noTokens>> \o NewTokens(noTokens, request.name[2] + 1)
  ELSE <<store>>

\* All of the writes are made, or a failure leaves a prefix of them.
Finish(writes) ==
  /\ \E k \in 1..Len(writes) : (RequestsMayFail \/ k = Len(writes)) /\ SetStore(writes[k])
  /\ request' = Idle
  /\ UNCHANGED <<now, session, upstream, collector>>

FinishRedeem == request.grant = "redeem" /\ Finish(RedeemWrites)
FinishRefresh == request.grant = "refresh" /\ Finish(RefreshWrites)

\* A redemption that is rejected after the PKCE session was deleted (a wrong verifier).
RejectRedeem ==
  /\ request.grant = "redeem"
  /\ request' = Idle
  /\ UNCHANGED <<now, session, store, cache, staleSince, upstream, collector>>

\* A used code is presented again, however old it is: the session's tokens are deleted,
\* of each kind unless its revocation fails.  Nothing is revoked upstream.
ReuseCode ==
  /\ request = Idle /\ codeIsKnown
  /\ Stored(Authcode) /\ ~store[Authcode].active
  /\ \E kinds \in SUBSET {"access-token", "refresh-token"} :
       /\ RequestsMayFail \/ kinds = {"access-token", "refresh-token"}
       /\ SetStore(Remove(store, UNION {Tokens(kind) : kind \in kinds}))
  /\ reused' = TRUE
  /\ UNCHANGED <<now, session, request, latest, revoked, abandoned, collector>>

-----------------------------------------------------------------------------
(* The garbage collector.                                                  *)

\* The informer's cache catches up: it always is the store as it was at some moment.
InformerCatchesUp ==
  /\ cache # store
  /\ cache' = store /\ staleSince' = 0
  /\ UNCHANGED <<now, session, store, request, upstream, collector>>

MutExpired(secret) == secret.garbageCollectAfter <= now
Expired(secret) == secret.garbageCollectAfter < now

\* Sync: one frozen time for the whole sweep, and not too soon after the last sweep.
\* (At MaxTime, which stands for that time and all later ones, sweeps go on.)
StartSweep ==
  LET expired == {n \in DOMAIN cache : Expired(cache[n])} IN
  /\ sweep = NotSweeping
  /\ sinceSweep = MinimumRepeatInterval \/ now = MaxTime
  /\ sinceSweep' = 0
  /\ sweep' = IF expired = {} THEN NotSweeping
              ELSE [time |-> now, todo |-> [n \in expired |-> cache[n]], deleting |-> {}]
  /\ UNCHANGED <<now, session, store, cache, staleSince, request, upstream>>

\* maybeRevokeUpstreamOIDCToken: the storage that holds the latest upstream token.
MutOnlyRefreshTokens(name, secret) == name[1] = "refresh-token"
MutAnyAuthcode(name, secret) ==
  name = Authcode \/ (name[1] = "access-token" /\ ~offlineAccess) \/ name[1] = "refresh-token"
HoldsLatestToken(name, secret) ==
  \/ name = Authcode /\ secret.active
  \/ name[1] = "access-token" /\ ~offlineAccess
  \/ name[1] = "refresh-token"

SweepDone(name) ==
  LET rest == Remove(sweep.todo, {name})
  IN sweep' = IF DOMAIN rest = {} THEN NotSweeping ELSE [sweep EXCEPT !.todo = rest, !.deleting = {}]

MutKeepToRetry(name) == TRUE
KeepToRetry(name) == sweep.todo[name].garbageCollectAfter > sweep.time - GiveUpAfter

\* One expired Secret of the sweep, up to its deletion.  RevokeToken succeeds, fails
\* with a RetryableRevocationError, or fails for good (or the provider is gone).
SweepSecret(name, outcome) ==
  LET secret == sweep.todo[name]
      needed == HoldsLatestToken(name, secret) /\ providerType = "oidc"
  IN
  /\ sweep.deleting = {}
  /\ needed \/ outcome = "ok"
  /\ IF needed /\ outcome = "retryable" /\ KeepToRetry(name)
     THEN SweepDone(name)
     ELSE sweep' = [sweep EXCEPT !.deleting = {name}]
  /\ revoked' = IF needed /\ outcome = "ok" THEN revoked \cup {secret.upstream} ELSE revoked
  /\ abandoned' = IF needed /\ outcome # "ok" /\ sweep'.deleting = {name}
                  THEN abandoned \cup {secret.upstream} ELSE abandoned
  /\ UNCHANGED <<now, session, store, cache, staleSince, request, latest, reused, sinceSweep>>

\* The deletion, if the Secret is still what the cache said; on a pod that is not the
\* leader, or when the API call fails, the Secret stays for a later sweep.
SweepDelete(name, ok) ==
  /\ name \in sweep.deleting
  /\ LET unchanged == Stored(name) /\ store[name] = sweep.todo[name]
     IN SetStore(IF ok /\ unchanged THEN Remove(store, {name}) ELSE store)
  /\ SweepDone(name)
  /\ UNCHANGED <<now, session, request, upstream, sinceSweep>>

-----------------------------------------------------------------------------
Tick ==
  /\ now < MaxTime
  /\ request # Idle => now < request.since + MaxRequestTime
  /\ cache # store => now < staleSince + MaxCacheLag
  /\ now' = now + 1
  /\ sinceSweep' = IF sinceSweep < MinimumRepeatInterval THEN sinceSweep + 1 ELSE sinceSweep
  /\ UNCHANGED <<session, store, cache, staleSince, request, upstream, sweep>>

TokenRequest == BeginRedeem \/ FinishRedeem \/ RejectRedeem \/ FinishRefresh \/ ReuseCode
                \/ \E g \in Generations : BeginRefresh(g)
Outcomes == {"ok", "retryable", "permanent"}
Sweep == \E n \in DOMAIN sweep.todo :
           \/ \E outcome \in Outcomes : SweepSecret(n, outcome)
           \/ \E ok \in BOOLEAN : SweepDelete(n, ok)
Next == TokenRequest \/ InformerCatchesUp \/ StartSweep \/ Sweep \/ Tick
Spec == Init /\ [][Next]_vars

\* Requests end, the informer catches up and time passes; sweeps start again and again
\* (the informer resyncs) and go on, and some pod that is the leader gets its deletes
\* through now and then.
FairSpec ==
  /\ Spec
  /\ WF_vars(FinishRedeem \/ FinishRefresh) /\ WF_vars(InformerCatchesUp) /\ SF_vars(Tick)
  /\ WF_vars(StartSweep) /\ WF_vars(Sweep)
  /\ SF_vars(\E n \in sweep.deleting : SweepDelete(n, TRUE))

-----------------------------------------------------------------------------
(* Properties.                                                             *)

\* What the client can still use to keep the session going.
Usable(name) == /\ Valid(name)
                /\ \/ name = Authcode /\ store[Authcode].active /\ codeIsKnown
                   \/ name[1] = "refresh-token"

\* The collector never revokes the upstream token under a session that can go on: not
\* from a stale cache, and not while a redemption or refresh of it is being handled
\* (tryRevokeUpstreamOIDCToken with the margins of DefaultOIDCTimeoutsConfiguration).
NoLiveSessionRevoked ==
  /\ \A n \in DOMAIN store : Usable(n) => store[n].upstream \notin revoked
  /\ request # Idle => request.upstream \notin revoked

\* "always revoke the latest upstream refresh token that we are holding for the session,
\* and only the latest" (garbage_collector.go:174), when no token request fails midway.
OnlyLatestRevoked == ~RequestsMayFail => revoked \cup abandoned \subseteq {latest}

\* Nothing of the session is left behind at the provider: once its last Secret is gone
\* the latest upstream token was revoked or given up on, when no request fails midway and
\* the code was not presented again after its use.  (RevokeAccessToken and RevokeRefreshToken
\* delete the Secrets that hold the upstream token without revoking it, and the collector
\* passes over a code that is not active: after a reuse nothing revokes the token.)
LatestRevokedAtTheEnd ==
  ~RequestsMayFail /\ ~reused /\ providerType = "oidc" /\ store = <<>>
    => latest \in revoked \cup abandoned

\* A refresh never fails for lack of the access token session that it deletes: that one
\* is kept as long as the refresh token is valid, and as long as a refresh runs.
RefreshFindsAccessToken ==
  /\ ~RequestsMayFail
  /\ request.grant = "refresh" \/ \E g \in Generations : Valid(Refresh(g))
  => Tokens("access-token") # {}

\* The collector takes neither the code nor the OIDC session from under a redemption
\* that is being handled: they are kept a margin beyond the code's lifespan.
RedemptionFindsSession == request.grant = "redeem" => Stored(Authcode) /\ Stored(OIDC)

\* Every Secret of the session is deleted in the end, also those whose upstream token
\* cannot be revoked because the provider keeps failing.
EverySecretCollected == <>[](store = <<>>)

\* "If it was already used (i.e. not active anymore), then the latest upstream token can
\* be found in one of the other storage types" (garbage_collector.go:188).  Violated: a
\* redemption that fails after it invalidated the code leaves it in no other storage, and
\* so does a reuse of the code.
UsedCodeTokenIsElsewhere ==
  Stored(Authcode) /\ ~store[Authcode].active /\ latest \notin revoked \cup abandoned
    => \E n \in Tokens("access-token") \cup Tokens("refresh-token") : store[n].upstream = latest

-----------------------------------------------------------------------------
(* The inductive invariant.                                                *)

\* A request and the lag of the cache last no longer than they may.
ClocksOK ==
  /\ staleSince <= now /\ sweep.time <= now
  /\ cache # store => now <= staleSince + MaxCacheLag
  /\ request.grant # "none" => request.since <= now /\ now <= request.since + MaxRequestTime

\* What every copy of a Secret says, be it the store's, the cache's or the sweep's.
CopiesOK(S) ==
  /\ \A n \in DOMAIN S : S[n].upstream \in Generations
  /\ Authcode \in DOMAIN S =>
       /\ S[Authcode].garbageCollectAfter = AuthorizationCodeSessionStorageLifetime
       /\ S[Authcode].expires = AuthorizeCodeLifespan /\ S[Authcode].upstream = 0
  /\ OIDC \in DOMAIN S => S[OIDC].garbageCollectAfter = OIDCSessionStorageLifetime
  /\ \A g \in Generations :
       /\ Access(g) \in DOMAIN S => offlineAccess \/ S[Access(g)].upstream = 0
       /\ Refresh(g) \in DOMAIN S =>
            /\ offlineAccess
            /\ S[Refresh(g)].expires + AccessTokenLifespan <= S[Refresh(g)].garbageCollectAfter

CodeActive == Stored(Authcode) /\ store[Authcode].active
NoTokens(S) == \A g \in Generations : Access(g) \notin DOMAIN S /\ Refresh(g) \notin DOMAIN S

\* As long as the code can be redeemed there are no tokens.
ActiveIsUnused ==
  CodeActive => NoTokens(store) /\ NoTokens(cache) /\ latest = 0 /\ request.grant # "refresh"

\* What the login stored goes only after its time.
KeptForItsTime ==
  /\ Stored(Authcode) \/ now > AuthorizationCodeSessionStorageLifetime
  /\ codeIsKnown => Stored(OIDC) \/ now > OIDCSessionStorageLifetime

\* A request started while its credential was valid, and that is still stored.
RequestOK ==
  /\ request.grant = "none" => request = Idle
  /\ request.grant = "redeem" =>
       /\ CodeActive /\ codeIsKnown
       /\ request.since <= AuthorizeCodeLifespan /\ request.upstream = 0
  /\ request.grant = "refresh" =>
       \E g \in Generations : /\ g < MaxRefreshes /\ request.name = Refresh(g) /\ Stored(Refresh(g))
                              /\ request.since <= store[Refresh(g)].expires
                              /\ request.upstream = latest

\* The session has one refresh token, which holds the latest upstream token.
OneRefreshToken ==
  \A g \in Generations : Stored(Refresh(g)) =>
    /\ \A h \in Generations : Stored(Refresh(h)) => h = g
    /\ ~RequestsMayFail /\ request.grant # "refresh" => store[Refresh(g)].upstream = latest
    /\ ~RequestsMayFail => \/ now > store[Refresh(g)].garbageCollectAfter
                           \/ /\ Stored(Access(g))
                              /\ store[Access(g)].garbageCollectAfter = store[Refresh(g)].garbageCollectAfter

NoOfflineAccess == offlineAccess \/ latest = 0

\* A cached code that was not used yet is the truth, or the cache is not up to date since
\* the code was used.
CachedCode ==
  Authcode \in DOMAIN cache /\ cache[Authcode].active =>
    \/ /\ Stored(Authcode) => CodeActive
       /\ NoTokens(store) /\ latest = 0 /\ request.grant # "refresh"
    \/ ~CodeActive /\ staleSince <= AuthorizeCodeLifespan + MaxRequestTime

\* A cached refresh token was not used yet, or the cache is not up to date since it was.
CachedRefreshToken ==
  \A g \in Generations : Refresh(g) \in DOMAIN cache =>
    \/ /\ \A h \in Generations : Stored(Refresh(h)) => h = g /\ store[Refresh(g)] = cache[Refresh(g)]
       /\ ~RequestsMayFail /\ request.grant # "refresh" => cache[Refresh(g)].upstream = latest
    \/ /\ \A h \in Generations : Stored(Refresh(h)) => h > g
       /\ staleSince <= cache[Refresh(g)].expires + MaxRequestTime

\* No request is handled and none will be.
Dead == request = Idle /\ \A n \in DOMAIN store : ~Usable(n)

\* The sweep revokes for dead sessions, the token that they held last, and before it
\* deletes what holds that token.
SweepOK ==
  /\ \A n \in DOMAIN sweep.todo :
       HoldsLatestToken(n, sweep.todo[n]) => Dead /\ (RequestsMayFail \/ sweep.todo[n].upstream = latest)
  /\ \A n \in sweep.deleting :
       /\ n \in DOMAIN sweep.todo
       /\ HoldsLatestToken(n, sweep.todo[n]) /\ providerType = "oidc"
            => sweep.todo[n].upstream \in revoked \cup abandoned

RevokedIsDead ==
  revoked \cup abandoned # {} => Dead /\ (RequestsMayFail \/ revoked \cup abandoned \subseteq {latest})

\* The latest upstream token is stored where the sweep looks for it, until it is revoked.
LatestIsHeld ==
  ~RequestsMayFail /\ ~reused /\ providerType = "oidc" =>
    \/ latest \in revoked \cup abandoned
    \/ CodeActive
    \/ offlineAccess /\ \E g \in Generations : Stored(Refresh(g))
    \/ ~offlineAccess /\ \E g \in Generations : Stored(Access(g))

Inv ==
  /\ TypeOK /\ ClocksOK /\ CopiesOK(store) /\ CopiesOK(cache) /\ CopiesOK(sweep.todo)
  /\ ActiveIsUnused /\ KeptForItsTime /\ RequestOK /\ OneRefreshToken /\ NoOfflineAccess
  /\ CachedCode /\ CachedRefreshToken /\ SweepOK /\ RevokedIsDead /\ LatestIsHeld
=============================================================================
