----------------------- MODULE SessionLifecycleProofs -----------------------
(***************************************************************************)
(* Proofs about SessionLifecycle for any lifespans, lags and number of     *)
(* refreshes that satisfy LifespanAssumption and MarginAssumption.  What   *)
(* the collector does to a session depends on a cached Secret that has     *)
(* expired.  The invariant says that, if that Secret holds the upstream    *)
(* token, it was not used since: had it been used, that would have been    *)
(* while it was valid, and the cache would have caught up before the       *)
(* Secret's storage expired.  So the session is Dead, and stays so.        *)
(***************************************************************************)
EXTENDS SessionLifecycle, TLAPS

\* The provers of a leaf that names none, with time to spare on a busy machine.
USE SMTT(30), ZenonT(60)

-----------------------------------------------------------------------------
(* Names, lifetimes and stores.                                            *)

\* The constants are natural numbers.
LEMMA ConstantsAreNat ==
  /\ AuthorizeCodeLifespan \in Nat /\ AccessTokenLifespan \in Nat /\ RefreshTokenLifespan \in Nat
  /\ StorageMargin \in Nat /\ MinimumRepeatInterval \in Nat /\ GiveUpAfter \in Nat
  /\ MaxRefreshes \in Nat /\ MaxTime \in Nat /\ MaxCacheLag \in Nat /\ MaxRequestTime \in Nat
  /\ RequestsMayFail \in BOOLEAN
  BY LifespanAssumption

\* Time stays within its bound.
LEMMA LaterIsATime ==
  ASSUME now \in 0..MaxTime, now < MaxTime, now' = now + 1
  PROVE  now \in Nat /\ now' \in 0..MaxTime
  BY ConstantsAreNat

\* No sweep: nothing is left to be done.
LEMMA NotSweepingIs ==
  /\ DOMAIN NotSweeping = {"time", "todo", "deleting"} /\ NotSweeping.time = 0
  /\ DOMAIN NotSweeping.todo = {} /\ NotSweeping.deleting = {}
<1>1. /\ NotSweeping.time = 0 /\ NotSweeping.todo = <<>> /\ NotSweeping.deleting = {}
      /\ DOMAIN NotSweeping = {"time", "todo", "deleting"}
  BY DEF NotSweeping
<1>2. DOMAIN <<>> = {}
  OBVIOUS
<1> QED
  BY <1>1, <1>2, ZenonT(60)

\* Times are natural numbers.
LEMMA Times ==
  ASSUME TypeOK
  PROVE  /\ now \in Nat /\ staleSince \in Nat /\ request.since \in Nat /\ sweep.time \in Nat
         /\ \A n \in DOMAIN store : store[n].garbageCollectAfter \in Nat /\ store[n].expires \in Nat
         /\ \A n \in DOMAIN cache : cache[n].garbageCollectAfter \in Nat /\ cache[n].expires \in Nat
         /\ \A n \in DOMAIN sweep.todo : sweep.todo[n].garbageCollectAfter \in Nat
<1>1. now \in 0..MaxTime /\ staleSince \in 0..MaxTime /\ request.since \in 0..MaxTime /\ sweep.time \in 0..MaxTime
  BY DEF TypeOK
<1>2. now \in Nat /\ staleSince \in Nat /\ request.since \in Nat /\ sweep.time \in Nat
  BY <1>1, ConstantsAreNat
<1>3. \A secret \in Secrets : secret.garbageCollectAfter \in Nat /\ secret.expires \in Nat
  BY DEF Secrets
<1>4. /\ \A n \in DOMAIN store : store[n] \in Secrets
      /\ \A n \in DOMAIN cache : cache[n] \in Secrets
      /\ \A n \in DOMAIN sweep.todo : sweep.todo[n] \in Secrets
  BY DEF TypeOK
<1> QED
  BY <1>2, <1>3, <1>4

\* It is not before the start, nor before the sweep began.
LEMMA Clocks ==
  ASSUME TypeOK
  PROVE  /\ now \in Nat /\ now <= now /\ 0 <= now
         /\ now \in 0..MaxTime /\ 0 \in 0..MaxTime /\ 0 \in 0..MinimumRepeatInterval
<1>1. now \in 0..MaxTime
  BY DEF TypeOK
<1> QED
  BY <1>1, ConstantsAreNat

\* A bound on a time is one on every earlier time.
LEMMA Earlier == \A s \in Nat, u \in Nat, v \in Nat, w \in Nat :
  /\ s <= u /\ u <= v + w => s <= v + w
  /\ s <= u => (s + v) + w <= (u + v) + w
  OBVIOUS

\* The first generation of tokens is one.
LEMMA FirstGeneration == 0 \in Generations
  BY ConstantsAreNat DEF Generations

\* The Secrets of a session have names of their own: the types in crud.go's SecretName.
LEMMA NamesDiffer ==
  /\ Authcode \in Names /\ PKCE \in Names /\ OIDC \in Names
  /\ Authcode # PKCE /\ Authcode # OIDC /\ PKCE # OIDC
  /\ \A g \in Generations :
       /\ Access(g) \in Names /\ Refresh(g) \in Names
       /\ Access(g) # Authcode /\ Access(g) # PKCE /\ Access(g) # OIDC
       /\ Refresh(g) # Authcode /\ Refresh(g) # PKCE /\ Refresh(g) # OIDC
       /\ \A h \in Generations : /\ Access(g) # Refresh(h)
                                 /\ Access(g) = Access(h) => g = h
                                 /\ Refresh(g) = Refresh(h) => g = h
  BY DEF Names, Authcode, PKCE, OIDC, Access, Refresh

\* The kind of a Secret tells the tokens from the rest.
LEMMA Kinds ==
  ASSUME NEW n \in Names
  PROVE  /\ n[1] = "access-token" <=> \E g \in Generations : n = Access(g)
         /\ n[1] = "refresh-token" <=> \E g \in Generations : n = Refresh(g)
  BY DEF Names, Authcode, PKCE, OIDC, Access, Refresh

\* toSecret gives both tokens of a generation the same storage lifetime, which is longer
\* than the refresh token's lifespan by that of the access token.
LEMMA NewTokenSecrets ==
  ASSUME NEW g \in Generations, NEW asOf, NEW token
  PROVE  /\ NewSecret(Access(g), asOf, token) =
              Secret(now + AccessTokenSessionStorageLifetime, asOf + AccessTokenLifespan, TRUE, token)
         /\ NewSecret(Refresh(g), asOf, token) =
              Secret(now + RefreshTokenSessionStorageLifetime, asOf + RefreshTokenLifespan, TRUE, token)
<1>1. Access(g)[1] = "access-token" /\ Refresh(g)[1] = "refresh-token"
  BY DEF Access, Refresh
<1>2. /\ Access(g) # Authcode /\ Access(g) # PKCE /\ Access(g) # OIDC
      /\ Refresh(g) # Authcode /\ Refresh(g) # PKCE /\ Refresh(g) # OIDC
  BY NamesDiffer
<1>3. StorageLifetime(Access(g)) = AccessTokenSessionStorageLifetime
  BY <1>1, <1>2 DEF StorageLifetime
<1>4. StorageLifetime(Refresh(g)) = RefreshTokenSessionStorageLifetime
  BY <1>1, <1>2 DEF StorageLifetime
<1>5. Lifespan(Access(g)) = AccessTokenLifespan /\ Lifespan(Refresh(g)) = RefreshTokenLifespan
  BY <1>1 DEF Lifespan
<1> QED
  BY <1>3, <1>4, <1>5 DEF NewSecret

-----------------------------------------------------------------------------
(* The writes of a token request.                                          *)

Used == [store EXCEPT ![Authcode].active = FALSE]
NoAccess == Remove(store, Tokens("access-token"))
NoneLeft == Remove(NoAccess, Tokens("refresh-token"))
WithAccess(S, g) == Put(S, Access(g), NewSecret(Access(g), request.since, request.upstream))
WithTokens(S, g) ==
  Put(WithAccess(S, g), Refresh(g), NewSecret(Refresh(g), request.since, request.upstream))

\* Two or three writes before the new tokens, of which there are one or two.
LEMMA ThreeWrites ==
  ASSUME NEW a, NEW b, NEW d
  PROVE  LET w == <<a, b>> \o (<<d>> \o <<>>)
         IN  w[Len(w)] = d /\ \A k \in 1..Len(w) : w[k] \in {a, b, d}
  OBVIOUS

\* The same with both new tokens.
LEMMA FourWrites ==
  ASSUME NEW a, NEW b, NEW d, NEW e
  PROVE  LET w == <<a, b>> \o (<<d>> \o <<e>>)
         IN  w[Len(w)] = e /\ \A k \in 1..Len(w) : w[k] \in {a, b, d, e}
  OBVIOUS

\* The same of a refresh, which takes the old tokens away before.
LEMMA FiveWrites ==
  ASSUME NEW a, NEW b, NEW c, NEW d, NEW e
  PROVE  LET w == <<a, b, c>> \o (<<d>> \o <<e>>)
         IN  w[Len(w)] = e /\ \A k \in 1..Len(w) : w[k] \in {a, b, c, d, e}
  OBVIOUS

\* The stores that a redemption goes through: the code is used, then NewAccessResponse
\* creates the access token, and the refresh token if it was asked for.
LEMMA RedeemOutcome ==
  ASSUME CodeActive, FinishRedeem
  PROVE  /\ \/ store' \in {store, Used, WithAccess(Used, 0)}
            \/ store' = WithTokens(Used, 0) /\ offlineAccess
         /\ ~RequestsMayFail => store' = IF offlineAccess THEN WithTokens(Used, 0) ELSE WithAccess(Used, 0)
<1> DEFINE A == WithAccess(Used, 0)
           R == WithTokens(Used, 0)
           W == RedeemWrites
<1>1. PICK k \in 1..Len(W) : (RequestsMayFail \/ k = Len(W)) /\ store' = W[k]
  BY DEF FinishRedeem, Finish, SetStore
<1>2. W = <<store, Used>> \o NewTokens(Used, 0)
  BY DEF RedeemWrites, CodeActive, Used
<1>3. CASE offlineAccess
  <2>1. W = <<store, Used>> \o (<<A>> \o <<R>>)
    BY <1>2, <1>3 DEF NewTokens, WithAccess, WithTokens
  <2> HIDE DEF A, R, W
  <2>2. W[Len(W)] = R /\ W[k] \in {store, Used, A, R}
    <3>1. LET w == <<store, Used>> \o (<<A>> \o <<R>>)
          IN w[Len(w)] = R /\ \A i \in 1..Len(w) : w[i] \in {store, Used, A, R}
      BY FourWrites, ZenonT(60)
    <3> QED
      BY <2>1, <3>1, ZenonT(60)
  <2> QED
    BY <1>1, <1>3, <2>2 DEF A, R
<1>4. CASE ~offlineAccess
  <2>1. W = <<store, Used>> \o (<<A>> \o <<>>)
    BY <1>2, <1>4 DEF NewTokens, WithAccess
  <2> HIDE DEF A, W
  <2>2. W[Len(W)] = A /\ W[k] \in {store, Used, A}
    <3>1. LET w == <<store, Used>> \o (<<A>> \o <<>>)
          IN w[Len(w)] = A /\ \A i \in 1..Len(w) : w[i] \in {store, Used, A}
      BY ThreeWrites, ZenonT(60)
    <3> QED
      BY <2>1, <3>1, ZenonT(60)
  <2> QED
    BY <1>1, <1>4, <2>2 DEF A
<1> QED
  BY <1>3, <1>4

\* The stores that a refresh goes through: the old tokens go, one after the other, before
\* the new ones are created.
LEMMA RefreshOutcome ==
  ASSUME NEW g, request.name = Refresh(g), Stored(Refresh(g)), offlineAccess, FinishRefresh
  PROVE  /\ \/ store' = store
            \/ /\ Tokens("access-token") # {}
               /\ store' \in {NoAccess, NoneLeft, WithAccess(NoneLeft, g + 1), WithTokens(NoneLeft, g + 1)}
         /\ ~RequestsMayFail /\ Tokens("access-token") # {} => store' = WithTokens(NoneLeft, g + 1)
<1> DEFINE A == WithAccess(NoneLeft, g + 1)
           R == WithTokens(NoneLeft, g + 1)
           W == RefreshWrites
<1>1. PICK k \in 1..Len(W) : (RequestsMayFail \/ k = Len(W)) /\ store' = W[k]
  BY DEF FinishRefresh, Finish, SetStore
<1>2. CASE Tokens("access-token") # {}
  <2>1. Refresh(g)[2] = g
    BY DEF Refresh
  <2>2. W = <<store, NoAccess, NoneLeft>> \o NewTokens(NoneLeft, g + 1)
    BY <1>2, <2>1 DEF RefreshWrites, NoAccess, NoneLeft
  <2>3. W = <<store, NoAccess, NoneLeft>> \o (<<A>> \o <<R>>)
    BY <2>2 DEF NewTokens, WithAccess, WithTokens
  <2> HIDE DEF A, R, W
  <2>4. W[Len(W)] = R /\ W[k] \in {store, NoAccess, NoneLeft, A, R}
    <3>1. LET w == <<store, NoAccess, NoneLeft>> \o (<<A>> \o <<R>>)
          IN w[Len(w)] = R /\ \A i \in 1..Len(w) : w[i] \in {store, NoAccess, NoneLeft, A, R}
      BY FiveWrites, ZenonT(60)
    <3> QED
      BY <2>3, <3>1, ZenonT(60)
  <2> QED
    BY <1>1, <1>2, <2>4 DEF A, R
<1>3. CASE Tokens("access-token") = {}
  <2>1. W = <<store>>
    BY <1>3 DEF RefreshWrites
  <2> QED
    BY <1>1, <1>3, <2>1
<1> QED
  BY <1>2, <1>3

-----------------------------------------------------------------------------
(* Dead sessions.                                                          *)

\* The credentials of a session, by name.
LEMMA UsableIs ==
  ASSUME TypeOK
  PROVE  Dead <=> /\ request = Idle
                  /\ ~(CodeActive /\ codeIsKnown /\ now <= store[Authcode].expires)
                  /\ \A g \in Generations : Stored(Refresh(g)) => ~(now <= store[Refresh(g)].expires)
<1>1. DOMAIN store \subseteq Names
  BY DEF TypeOK
<1>2. ASSUME NEW n \in DOMAIN store
      PROVE  Usable(n) <=> /\ now <= store[n].expires
                           /\ \/ n = Authcode /\ CodeActive /\ codeIsKnown
                              \/ \E g \in Generations : n = Refresh(g)
  BY <1>1, <1>2, Kinds DEF Usable, Valid, Stored, CodeActive
<1> QED
  BY <1>2 DEF Dead, Stored, CodeActive

\* A dead session stays dead when time passes and Secrets go.
LEMMA DeadStays ==
  ASSUME TypeOK, Dead, request' = request, codeIsKnown' = codeIsKnown, now' \in Nat, now <= now',
         DOMAIN store' \subseteq DOMAIN store, \A n \in DOMAIN store' : store'[n] = store[n]
  PROVE  Dead'
<1>1. now \in Nat
  BY DEF TypeOK
<1>2. ASSUME NEW n \in DOMAIN store', Usable(n)' PROVE FALSE
  <2>1. n \in DOMAIN store /\ store[n].expires \in Nat /\ store'[n] = store[n]
    BY DEF TypeOK, Secrets
  <2>2. Usable(n)
    BY <1>1, <1>2, <2>1 DEF Usable, Valid, Stored
  <2> QED
    BY <2>1, <2>2 DEF Dead
<1> QED
  BY <1>2 DEF Dead, Idle

\* While a request is handled, or can begin, nothing was revoked and nothing will be.
LEMMA LiveIsUnswept ==
  ASSUME Inv, ~Dead
  PROVE  /\ revoked \cup abandoned = {}
         /\ \A n \in DOMAIN sweep.todo : ~HoldsLatestToken(n, sweep.todo[n])
  BY DEF Inv, RevokedIsDead, SweepOK

\* The Secrets that the collector takes the upstream token from, by name.
LEMMA HoldersAre ==
  ASSUME NEW n \in Names, NEW secret
  PROVE  HoldsLatestToken(n, secret) <=> \/ n = Authcode /\ secret.active
                                         \/ ~offlineAccess /\ \E g \in Generations : n = Access(g)
                                         \/ \E g \in Generations : n = Refresh(g)
  BY Kinds DEF HoldsLatestToken

\* The heart of the matter.  A cached Secret that expired and that holds the upstream token
\* belongs to a dead session, and holds its latest token: if the code or the refresh token
\* had been used, the cache would show it by now.
LEMMA ExpiredIsDead ==
  ASSUME Inv, NEW n \in DOMAIN cache, Expired(cache[n]), HoldsLatestToken(n, cache[n])
  PROVE  Dead /\ (RequestsMayFail \/ cache[n].upstream = latest)
<1> DEFINE C == AuthorizeCodeLifespan
           A == AccessTokenLifespan
           R == RefreshTokenLifespan
<1>1. TypeOK
  BY DEF Inv
<1>2. /\ now \in Nat /\ staleSince \in Nat /\ request.since \in Nat
      /\ C \in Nat /\ A \in Nat /\ R \in Nat /\ MaxCacheLag \in Nat /\ MaxRequestTime \in Nat
  BY <1>1, ConstantsAreNat DEF TypeOK
<1>3. n \in Names /\ cache[n].garbageCollectAfter \in Nat /\ cache[n].expires \in Nat
      /\ cache[n].garbageCollectAfter < now
  BY <1>1 DEF TypeOK, Secrets, Expired
<1>4. /\ MaxRequestTime + MaxCacheLag <= A /\ MaxRequestTime + MaxCacheLag <= R
  BY MarginAssumption
<1>5. CASE n = Authcode /\ cache[n].active
  <2>1. now > C + R /\ cache[n].upstream = 0
    BY <1>3, <1>5 DEF Inv, CopiesOK, AuthorizationCodeSessionStorageLifetime
  <2>2. ~(staleSince <= C + MaxRequestTime /\ cache # store)
    BY <2>1, <1>2, <1>4 DEF Inv, ClocksOK
  <2>3. (Stored(Authcode) => CodeActive) /\ NoTokens(store) /\ latest = 0 /\ request.grant # "refresh"
    BY <2>2, <1>5 DEF Inv, CachedCode, CodeActive, Stored
  <2>4. request = Idle
    <3>1. request.grant # "redeem"
      BY <2>1, <1>2, <1>4 DEF Inv, RequestOK, ClocksOK
    <3> QED
      BY <2>3, <3>1, <1>1 DEF Inv, RequestOK, TypeOK
  <2>5. CodeActive => store[Authcode].expires = C
    BY DEF Inv, CopiesOK, CodeActive, Stored
  <2> QED
    BY <1>1, <1>2, <2>1, <2>3, <2>4, <2>5, UsableIs DEF NoTokens, Stored
<1>6. CASE ~offlineAccess /\ \E g \in Generations : n = Access(g)
  <2>1. ~CodeActive
    BY <1>6 DEF Inv, ActiveIsUnused, NoTokens
  <2>2. cache[n].upstream = 0 /\ latest = 0
    BY <1>6 DEF Inv, CopiesOK, NoOfflineAccess
  <2>3. \A g \in Generations : ~Stored(Refresh(g))
    BY <1>6 DEF Inv, CopiesOK, Stored
  <2>4. request = Idle
    BY <2>1, <2>3, <1>1 DEF Inv, RequestOK, TypeOK
  <2> QED
    BY <1>1, <2>1, <2>2, <2>3, <2>4, UsableIs
<1>7. ASSUME NEW g \in Generations, n = Refresh(g) PROVE Dead /\ (RequestsMayFail \/ cache[n].upstream = latest)
  <2>1. ~CodeActive
    BY <1>7 DEF Inv, ActiveIsUnused, NoTokens
  <2>2. cache[n].expires + A < now
    BY <1>2, <1>3, <1>7 DEF Inv, CopiesOK
  <2>3. ~(staleSince <= cache[n].expires + MaxRequestTime /\ cache # store)
    BY <2>2, <1>2, <1>3, <1>4 DEF Inv, ClocksOK
  <2>4. ASSUME \A h \in Generations : Stored(Refresh(h)) => h > g PROVE cache # store
    BY <2>4, <1>7 DEF Stored, Generations
  <2>5. /\ \A h \in Generations : Stored(Refresh(h)) => h = g /\ store[Refresh(g)] = cache[Refresh(g)]
        /\ ~RequestsMayFail /\ request.grant # "refresh" => cache[Refresh(g)].upstream = latest
    BY <2>3, <2>4, <1>7 DEF Inv, CachedRefreshToken
  <2>6. request.grant # "refresh"
    BY <2>2, <2>5, <1>2, <1>3, <1>4, <1>7 DEF Inv, RequestOK, ClocksOK
  <2>7. request = Idle
    BY <2>1, <2>6, <1>1 DEF Inv, RequestOK, TypeOK
  <2>8. \A h \in Generations : Stored(Refresh(h)) => ~(now <= store[Refresh(h)].expires)
    BY <2>2, <2>5, <1>2, <1>3, <1>7
  <2> QED
    BY <1>1, <1>7, <2>1, <2>5, <2>6, <2>7, <2>8, UsableIs
<1> QED
  BY <1>3, <1>5, <1>6, <1>7, HoldersAre

-----------------------------------------------------------------------------
(* What the steps do to the store.                                         *)

\* The cache is not up to date from the moment at which the store left it behind.
LEMMA SetStoreIs ==
  ASSUME TypeOK, ClocksOK, NEW S, SetStore(S)
  PROVE  /\ store' = S /\ cache' = cache
         /\ staleSince' \in 0..MaxTime /\ staleSince' <= now
         /\ store # cache => staleSince' <= staleSince
         /\ store' # cache' => now <= staleSince' + MaxCacheLag
  BY ConstantsAreNat DEF SetStore, TypeOK, ClocksOK

\* The new tokens in a store that had none of their generation.
LEMMA WithTokensIs ==
  ASSUME NEW S, NEW g \in Generations, Access(g) \notin DOMAIN S, Refresh(g) \notin DOMAIN S
  PROVE  /\ DOMAIN WithAccess(S, g) = DOMAIN S \cup {Access(g)}
         /\ WithAccess(S, g)[Access(g)] = NewSecret(Access(g), request.since, request.upstream)
         /\ \A n \in DOMAIN S : WithAccess(S, g)[n] = S[n]
         /\ DOMAIN WithTokens(S, g) = DOMAIN S \cup {Access(g), Refresh(g)}
         /\ WithTokens(S, g)[Access(g)] = NewSecret(Access(g), request.since, request.upstream)
         /\ WithTokens(S, g)[Refresh(g)] = NewSecret(Refresh(g), request.since, request.upstream)
         /\ \A n \in DOMAIN S : WithTokens(S, g)[n] = S[n]
<1> DEFINE a == NewSecret(Access(g), request.since, request.upstream)
           r == NewSecret(Refresh(g), request.since, request.upstream)
           A == WithAccess(S, g)
           T == WithTokens(S, g)
<1>1. A = Put(S, Access(g), a) /\ T = Put(A, Refresh(g), r)
  BY DEF WithAccess, WithTokens
<1>2. Access(g) # Refresh(g)
  BY NamesDiffer
<1> HIDE DEF a, r, A, T
<1>3. DOMAIN A = DOMAIN S \cup {Access(g)} /\ A[Access(g)] = a /\ \A n \in DOMAIN S : A[n] = S[n]
  BY <1>1 DEF Put
<1>4. DOMAIN T = DOMAIN A \cup {Refresh(g)} /\ T[Refresh(g)] = r
  BY <1>1 DEF Put
<1>5. \A n \in DOMAIN A : n # Refresh(g) => T[n] = A[n]
  BY <1>1 DEF Put
<1>6. T[Access(g)] = a /\ \A n \in DOMAIN S : T[n] = S[n]
  BY <1>2, <1>3, <1>5
<1> QED
  BY <1>3, <1>4, <1>6 DEF a, r, A, T

\* What a redemption leaves: nothing new, or a used code and perhaps tokens.
LEMMA AfterRedeem ==
  ASSUME Inv, FinishRedeem
  PROVE  \/ RequestsMayFail /\ store' = store
         \/ /\ DOMAIN store \subseteq DOMAIN store'
            /\ DOMAIN store' \subseteq DOMAIN store \cup {Access(0), Refresh(0)}
            /\ \A n \in DOMAIN store : n # Authcode => store'[n] = store[n]
            /\ store'[Authcode] = [store[Authcode] EXCEPT !.active = FALSE]
            /\ Access(0) \in DOMAIN store' => store'[Access(0)] = NewSecret(Access(0), request.since, 0)
            /\ Refresh(0) \in DOMAIN store' =>
                 /\ offlineAccess /\ Access(0) \in DOMAIN store'
                 /\ store'[Refresh(0)] = NewSecret(Refresh(0), request.since, 0)
            /\ ~RequestsMayFail => IF offlineAccess THEN Refresh(0) \in DOMAIN store'
                                   ELSE Access(0) \in DOMAIN store'
<1>1. CodeActive /\ request.upstream = 0
  BY DEF Inv, RequestOK, FinishRedeem
<1>2. 0 \in Generations
  BY ConstantsAreNat DEF Generations
<1>3. Access(0) \notin DOMAIN store /\ Refresh(0) \notin DOMAIN store
  BY <1>1, <1>2 DEF Inv, ActiveIsUnused, NoTokens
<1>4. /\ DOMAIN Used = DOMAIN store
      /\ \A n \in DOMAIN store : n # Authcode => Used[n] = store[n]
      /\ Used[Authcode] = [store[Authcode] EXCEPT !.active = FALSE]
  BY <1>1 DEF Used, CodeActive, Stored
<1>5. Access(0) \notin DOMAIN Used /\ Refresh(0) \notin DOMAIN Used
  BY <1>3, <1>4
<1>6. /\ DOMAIN WithAccess(Used, 0) = DOMAIN Used \cup {Access(0)}
      /\ WithAccess(Used, 0)[Access(0)] = NewSecret(Access(0), request.since, request.upstream)
      /\ \A n \in DOMAIN Used : WithAccess(Used, 0)[n] = Used[n]
      /\ DOMAIN WithTokens(Used, 0) = DOMAIN Used \cup {Access(0), Refresh(0)}
      /\ WithTokens(Used, 0)[Access(0)] = NewSecret(Access(0), request.since, request.upstream)
      /\ WithTokens(Used, 0)[Refresh(0)] = NewSecret(Refresh(0), request.since, request.upstream)
      /\ \A n \in DOMAIN Used : WithTokens(Used, 0)[n] = Used[n]
  BY <1>2, <1>5, WithTokensIs, ZenonT(60)
<1>7. Authcode \in DOMAIN store /\ Refresh(0) # Access(0)
  BY <1>1, <1>2, NamesDiffer DEF CodeActive, Stored
<1>8. CASE store' = store
  BY <1>1, <1>3, <1>4, <1>6, <1>8, RedeemOutcome
<1>9. CASE store' = Used
  BY <1>1, <1>3, <1>4, <1>6, <1>9, RedeemOutcome
<1>10. CASE store' = WithAccess(Used, 0)
  <2>1. ~RequestsMayFail /\ offlineAccess => Refresh(0) \in DOMAIN store'
    BY <1>1, <1>6, RedeemOutcome
  <2> QED
    BY <1>1, <1>3, <1>4, <1>6, <1>7, <1>10, <2>1, ZenonT(60)
<1>11. CASE store' = WithTokens(Used, 0) /\ offlineAccess
  BY <1>1, <1>4, <1>6, <1>7, <1>11, ZenonT(60)
<1> QED
  BY <1>1, <1>8, <1>9, <1>10, <1>11, RedeemOutcome

\* What a refresh of generation g leaves: nothing new, no access token, no token at all, or
\* tokens of the next generation.
LEMMA AfterRefresh ==
  ASSUME Inv, FinishRefresh, NEW g \in Generations, request.name = Refresh(g), NEW next, next = g + 1
  PROVE  \/ RequestsMayFail /\ store' = store
         \/ /\ next \in Generations
            /\ DOMAIN store' \subseteq DOMAIN store \cup {Access(next), Refresh(next)}
            /\ \A n \in DOMAIN store' : n \in {Access(next), Refresh(next)} \/ store'[n] = store[n]
            /\ \A n \in {Authcode, OIDC} : n \in DOMAIN store => n \in DOMAIN store'
            /\ \A h \in Generations : Access(h) \in DOMAIN store' => h = next
            /\ Access(next) \in DOMAIN store' =>
                 store'[Access(next)] = NewSecret(Access(next), request.since, request.upstream)
            /\ \/ RequestsMayFail /\ Refresh(next) \notin DOMAIN store'
               \/ /\ \A h \in Generations : Refresh(h) \in DOMAIN store' => h = next
                  /\ Refresh(next) \in DOMAIN store' =>
                       /\ Access(next) \in DOMAIN store'
                       /\ store'[Refresh(next)] = NewSecret(Refresh(next), request.since, request.upstream)
            /\ ~RequestsMayFail => Refresh(next) \in DOMAIN store'
<1>1. /\ TypeOK /\ g < MaxRefreshes /\ Stored(Refresh(g)) /\ offlineAccess
      /\ request.since <= store[Refresh(g)].expires
  BY NamesDiffer, ZenonT(60) DEF Inv, RequestOK, FinishRefresh, CopiesOK, Stored
<1>2. next \in Generations /\ next # g /\ DOMAIN store \subseteq Names
  BY <1>1, ConstantsAreNat DEF Generations, TypeOK
<1>3. ~RequestsMayFail => Tokens("access-token") # {}
  <2>1. now <= store[Refresh(g)].garbageCollectAfter /\ now \in Nat
        /\ store[Refresh(g)].garbageCollectAfter \in Nat
    <3>1. request.since \in Nat /\ now \in Nat /\ store[Refresh(g)] \in Secrets
      BY <1>1 DEF TypeOK, Stored
    <3>2. store[Refresh(g)].expires + AccessTokenLifespan <= store[Refresh(g)].garbageCollectAfter
      BY <1>1 DEF Inv, CopiesOK, Stored
    <3>3. now <= request.since + MaxRequestTime
      BY DEF Inv, ClocksOK, FinishRefresh
    <3> QED
      BY <1>1, <3>1, <3>2, <3>3, ConstantsAreNat, MarginAssumption DEF Secrets
  <2>2. ~RequestsMayFail => Stored(Access(g))
    BY <1>1, <2>1 DEF Inv, OneRefreshToken
  <2>3. Access(g)[1] = "access-token"
    BY DEF Access
  <2> QED
    BY <2>2, <2>3, ZenonT(60) DEF Tokens, Stored
<1> DEFINE N == NoneLeft
<1>4. /\ \A n \in DOMAIN store : n \in DOMAIN NoAccess <=> ~\E h \in Generations : n = Access(h)
      /\ DOMAIN NoAccess \subseteq DOMAIN store /\ \A n \in DOMAIN NoAccess : NoAccess[n] = store[n]
  BY <1>2, Kinds DEF NoAccess, Remove, Tokens
<1>5. /\ \A n \in DOMAIN NoAccess : n \in DOMAIN N <=> ~\E h \in Generations : n = Refresh(h)
      /\ DOMAIN N \subseteq DOMAIN NoAccess /\ \A n \in DOMAIN N : N[n] = NoAccess[n]
  BY <1>2, <1>4, Kinds DEF NoneLeft, Remove, Tokens
<1>6. /\ DOMAIN N \subseteq DOMAIN store /\ \A n \in DOMAIN N : N[n] = store[n]
      /\ \A h \in Generations : Access(h) \notin DOMAIN N /\ Refresh(h) \notin DOMAIN N
      /\ \A n \in {Authcode, OIDC} : n \in DOMAIN store => n \in DOMAIN N
  BY <1>4, <1>5, NamesDiffer
<1>7. /\ DOMAIN WithAccess(N, next) = DOMAIN N \cup {Access(next)}
      /\ WithAccess(N, next)[Access(next)] = NewSecret(Access(next), request.since, request.upstream)
      /\ \A n \in DOMAIN N : WithAccess(N, next)[n] = N[n]
      /\ DOMAIN WithTokens(N, next) = DOMAIN N \cup {Access(next), Refresh(next)}
      /\ WithTokens(N, next)[Access(next)] = NewSecret(Access(next), request.since, request.upstream)
      /\ WithTokens(N, next)[Refresh(next)] = NewSecret(Refresh(next), request.since, request.upstream)
      /\ \A n \in DOMAIN N : WithTokens(N, next)[n] = N[n]
  BY <1>2, <1>6, WithTokensIs, ZenonT(60)
<1>8. /\ store' = store \/ store' \in {NoAccess, N, WithAccess(N, next), WithTokens(N, next)}
      /\ ~RequestsMayFail => store' = WithTokens(N, next)
  BY <1>1, <1>3, RefreshOutcome
<1> HIDE DEF N
<1>9. Refresh(next) \notin DOMAIN store
  BY <1>1, <1>2 DEF Inv, OneRefreshToken, Stored
<1>10. /\ Access(next) # Refresh(next)
       /\ \A h \in Generations : /\ Access(h) = Access(next) => h = next
                                 /\ Refresh(h) = Refresh(next) => h = next
                                 /\ Access(h) # Refresh(next) /\ Refresh(h) # Access(next)
  BY <1>2, NamesDiffer
<1>11. CASE store' = WithTokens(N, next)
  <2>1. DOMAIN store' = DOMAIN N \cup {Access(next), Refresh(next)}
        /\ store'[Access(next)] = NewSecret(Access(next), request.since, request.upstream)
        /\ store'[Refresh(next)] = NewSecret(Refresh(next), request.since, request.upstream)
    BY <1>7, <1>11
  <2>2. \A n \in DOMAIN N : store'[n] = store[n]
    BY <1>6, <1>7, <1>11
  <2>3. ASSUME NEW h \in Generations
        PROVE  (Access(h) \in DOMAIN store' => h = next) /\ (Refresh(h) \in DOMAIN store' => h = next)
    <3>1. Access(h) \notin DOMAIN N /\ Refresh(h) \notin DOMAIN N
      BY <1>6
    <3> QED
      BY <1>10, <2>1, <3>1, ZenonT(60)
  <2>4. \A n \in DOMAIN store' : n \in {Access(next), Refresh(next)} \/ store'[n] = store[n]
    BY <2>1, <2>2
  <2> QED
    BY <1>2, <1>6, <2>1, <2>3, <2>4
<1>12. CASE RequestsMayFail /\ store' = WithAccess(N, next)
  <2>1. DOMAIN store' = DOMAIN N \cup {Access(next)}
        /\ store'[Access(next)] = NewSecret(Access(next), request.since, request.upstream)
    BY <1>7, <1>12
  <2>2. \A n \in DOMAIN N : store'[n] = store[n]
    BY <1>6, <1>7, <1>12
  <2>3. ASSUME NEW h \in Generations
        PROVE  (Access(h) \in DOMAIN store' => h = next) /\ Refresh(h) \notin DOMAIN store'
    <3>1. Access(h) \notin DOMAIN N /\ Refresh(h) \notin DOMAIN N
      BY <1>6
    <3> QED
      BY <1>10, <2>1, <3>1, ZenonT(60)
  <2>4. \A n \in DOMAIN store' : n \in {Access(next), Refresh(next)} \/ store'[n] = store[n]
    BY <2>1, <2>2
  <2> QED
    BY <1>2, <1>6, <1>12, <2>1, <2>3, <2>4
<1>13. CASE RequestsMayFail /\ store' = N
  BY <1>2, <1>6, <1>9, <1>13
<1>14. CASE RequestsMayFail /\ store' = NoAccess
  <2>1. \A n \in {Authcode, OIDC} : n \in DOMAIN store => n \in DOMAIN NoAccess
    BY <1>5, <1>6
  <2>2. \A h \in Generations : Access(h) \notin DOMAIN NoAccess
    BY <1>4
  <2> QED
    BY <1>2, <1>4, <1>9, <1>14, <2>1, <2>2
<1> QED
  BY <1>8, <1>11, <1>12, <1>13, <1>14, ZenonT(60)

\* The Secrets of new tokens.
LEMMA NewTokenFields ==
  ASSUME TypeOK, NEW g \in Generations, NEW token \in Generations
  PROVE  LET a == NewSecret(Access(g), request.since, token)
             r == NewSecret(Refresh(g), request.since, token)
         IN  /\ a \in Secrets /\ r \in Secrets
             /\ a.garbageCollectAfter = now + RefreshTokenLifespan + AccessTokenLifespan
             /\ r.garbageCollectAfter = now + RefreshTokenLifespan + AccessTokenLifespan
             /\ r.expires = request.since + RefreshTokenLifespan
             /\ a.upstream = token /\ r.upstream = token
<1> DEFINE a == NewSecret(Access(g), request.since, token)
           r == NewSecret(Refresh(g), request.since, token)
<1>1. now \in Nat /\ request.since \in Nat /\ token \in Nat
  BY Times, ConstantsAreNat DEF Generations
<1>2. a = Secret(now + (RefreshTokenLifespan + AccessTokenLifespan), request.since + AccessTokenLifespan, TRUE, token)
  BY NewTokenSecrets, ZenonT(60) DEF AccessTokenSessionStorageLifetime
<1>3. r = Secret(now + (RefreshTokenLifespan + AccessTokenLifespan), request.since + RefreshTokenLifespan, TRUE, token)
  BY NewTokenSecrets, ZenonT(60) DEF RefreshTokenSessionStorageLifetime
<1> HIDE DEF a, r
<1>4. /\ a \in Secrets /\ r \in Secrets
      /\ a.garbageCollectAfter = now + (RefreshTokenLifespan + AccessTokenLifespan)
      /\ r.garbageCollectAfter = now + (RefreshTokenLifespan + AccessTokenLifespan)
      /\ r.expires = request.since + RefreshTokenLifespan
      /\ a.upstream = token /\ r.upstream = token
  BY <1>1, <1>2, <1>3, ConstantsAreNat DEF Secret, Secrets
<1>5. now + (RefreshTokenLifespan + AccessTokenLifespan) = now + RefreshTokenLifespan + AccessTokenLifespan
  BY <1>1, ConstantsAreNat
<1> QED
  BY <1>4, <1>5, ZenonT(60) DEF a, r

-----------------------------------------------------------------------------
(* The invariant.                                                          *)

\* The login's Secrets are stored, nothing is cached and nothing is being done.
LEMMA InvInit == Init => Inv
<1> SUFFICES ASSUME Init PROVE Inv
  OBVIOUS
<1>1. PICK names \in LoginWrites : /\ store = [n \in names |-> Secret(StorageLifetime(n), Lifespan(n), TRUE, 0)]
                                   /\ codeIsKnown = (PKCE \in names)
  BY DEF Init
<1>2. /\ Authcode \in names /\ names \subseteq {Authcode, OIDC, PKCE}
      /\ PKCE \in names => OIDC \in names
  BY NamesDiffer DEF LoginWrites
<1>3. /\ StorageLifetime(Authcode) = AuthorizationCodeSessionStorageLifetime
      /\ StorageLifetime(OIDC) = OIDCSessionStorageLifetime
      /\ StorageLifetime(PKCE) = PKCESessionStorageLifetime
  <2>1. \A n \in {Authcode, OIDC, PKCE} : n[1] # "access-token" /\ n[1] # "refresh-token"
    BY DEF Authcode, OIDC, PKCE
  <2>2. StorageLifetime(Authcode) = AuthorizationCodeSessionStorageLifetime
    BY <2>1, NamesDiffer DEF StorageLifetime
  <2>3. StorageLifetime(OIDC) = OIDCSessionStorageLifetime
    BY <2>1, NamesDiffer DEF StorageLifetime
  <2>4. StorageLifetime(PKCE) = PKCESessionStorageLifetime
    BY <2>1, NamesDiffer DEF StorageLifetime
  <2> QED
    BY <2>2, <2>3, <2>4
<1>4. \A n \in {Authcode, OIDC, PKCE} : Lifespan(n) = AuthorizeCodeLifespan
  BY DEF Lifespan, Authcode, OIDC, PKCE
<1>5. \A n \in names : StorageLifetime(n) \in Nat /\ Lifespan(n) \in Nat
  BY <1>2, <1>3, <1>4, ConstantsAreNat DEF AuthorizationCodeSessionStorageLifetime,
    OIDCSessionStorageLifetime, PKCESessionStorageLifetime
<1>6. /\ DOMAIN store = names
      /\ \A n \in names : store[n] = Secret(StorageLifetime(n), Lifespan(n), TRUE, 0)
  BY <1>1
<1>7. /\ now = 0 /\ staleSince = 0 /\ request = Idle /\ DOMAIN cache = {}
      /\ latest = 0 /\ revoked = {} /\ abandoned = {} /\ reused = FALSE /\ sweep = NotSweeping
      /\ sinceSweep = MinimumRepeatInterval /\ offlineAccess \in BOOLEAN /\ providerType \in {"oidc", "ldap"}
  BY DEF Init
<1>8. /\ DOMAIN sweep.todo = {} /\ sweep.deleting = {} /\ sweep.time = 0
      /\ DOMAIN sweep = {"time", "todo", "deleting"}
  BY <1>7 DEF NotSweeping
<1>9. 0 \in Generations /\ 0 \in 0..MaxTime
  BY ConstantsAreNat DEF Generations
<1>10. CodeActive /\ \A n \in DOMAIN store : store[n] \in Secrets /\ store[n].upstream = 0
  <2>1. ASSUME NEW n \in names
        PROVE  store[n] \in Secrets /\ store[n].upstream = 0 /\ store[n].active
    <3>1. store[n] = Secret(StorageLifetime(n), Lifespan(n), TRUE, 0)
      BY <1>6, ZenonT(60)
    <3> QED
      BY <1>5, <3>1 DEF Secret, Secrets
  <2> QED
    BY <1>2, <1>6, <2>1 DEF CodeActive, Stored
<1>11. \A g \in Generations : Access(g) \notin names /\ Refresh(g) \notin names
  BY <1>2, NamesDiffer
<1>12. TypeOK
  <2>1. request \in [grant : {"none", "redeem", "refresh"}, since : 0..MaxTime, name : Names, upstream : Generations]
    BY <1>7, <1>9, NamesDiffer DEF Idle
  <2>2. DOMAIN store \subseteq Names
    BY <1>2, <1>6, NamesDiffer
  <2>3. codeIsKnown \in BOOLEAN /\ sinceSweep \in 0..MinimumRepeatInterval
    BY <1>1, <1>7, ConstantsAreNat
  <2> QED
    BY <1>7, <1>8, <1>9, <1>10, <2>1, <2>2, <2>3 DEF TypeOK
<1>13. ClocksOK
  BY <1>7, <1>8, ConstantsAreNat DEF ClocksOK, Idle
<1>14. CopiesOK(store) /\ CopiesOK(cache) /\ CopiesOK(sweep.todo)
  <2>1. Authcode \in DOMAIN store => /\ store[Authcode].garbageCollectAfter = AuthorizationCodeSessionStorageLifetime
                                     /\ store[Authcode].expires = AuthorizeCodeLifespan
    BY <1>2, <1>3, <1>4, <1>6 DEF Secret
  <2>2. OIDC \in DOMAIN store => store[OIDC].garbageCollectAfter = OIDCSessionStorageLifetime
    BY <1>3, <1>6 DEF Secret
  <2> QED
    BY <1>6, <1>7, <1>8, <1>9, <1>10, <1>11, <2>1, <2>2 DEF CopiesOK
<1>15. ActiveIsUnused /\ NoOfflineAccess /\ OneRefreshToken
  BY <1>6, <1>7, <1>11 DEF ActiveIsUnused, NoTokens, NoOfflineAccess, OneRefreshToken, Stored, Idle
<1>16. KeptForItsTime /\ RequestOK
  BY <1>1, <1>2, <1>6, <1>7, ZenonT(60) DEF KeptForItsTime, RequestOK, Stored, Idle
<1>17. CachedCode /\ CachedRefreshToken /\ SweepOK /\ RevokedIsDead /\ LatestIsHeld
  BY <1>7, <1>8, <1>10 DEF CachedCode, CachedRefreshToken, SweepOK, RevokedIsDead, LatestIsHeld
<1> QED
  BY <1>12, <1>13, <1>14, <1>15, <1>16, <1>17 DEF Inv

-----------------------------------------------------------------------------
(* What a step leaves alone keeps its part of the invariant.               *)

\* Steps that touch neither a Secret nor a request.
LEMMA SessionStays ==
  ASSUME Inv, UNCHANGED <<offlineAccess, codeIsKnown, store, cache, staleSince, request, latest>>
  PROVE  ActiveIsUnused' /\ RequestOK' /\ NoOfflineAccess' /\ CachedCode' /\ CachedRefreshToken'
<1>1. ActiveIsUnused' /\ RequestOK' /\ NoOfflineAccess'
  BY DEF Inv, ActiveIsUnused, RequestOK, NoOfflineAccess, NoTokens, CodeActive, Stored, Idle
<1>2. CachedCode' /\ CachedRefreshToken'
  BY DEF Inv, CachedCode, CachedRefreshToken, NoTokens, CodeActive, Stored
<1> QED
  BY <1>1, <1>2

\* Copies of Secrets that stay, and Secrets that go.
LEMMA CopiesStay ==
  ASSUME Inv, UNCHANGED offlineAccess
  PROVE  /\ DOMAIN store' \subseteq DOMAIN store /\ (\A n \in DOMAIN store' : store'[n] = store[n]) => CopiesOK(store)'
         /\ cache' = cache => CopiesOK(cache)'
         /\ DOMAIN sweep'.todo \subseteq DOMAIN sweep.todo /\ (\A n \in DOMAIN sweep'.todo : sweep'.todo[n] = sweep.todo[n])
              => CopiesOK(sweep.todo)'
<1>1. CopiesOK(store) /\ CopiesOK(cache) /\ CopiesOK(sweep.todo)
  BY DEF Inv
<1>2. ASSUME DOMAIN store' \subseteq DOMAIN store, \A n \in DOMAIN store' : store'[n] = store[n] PROVE CopiesOK(store)'
  BY <1>1, <1>2 DEF CopiesOK
<1>3. ASSUME cache' = cache PROVE CopiesOK(cache)'
  BY <1>1, <1>3 DEF CopiesOK
<1>4. ASSUME DOMAIN sweep'.todo \subseteq DOMAIN sweep.todo, \A n \in DOMAIN sweep'.todo : sweep'.todo[n] = sweep.todo[n]
      PROVE  CopiesOK(sweep.todo)'
  BY <1>1, <1>4 DEF CopiesOK
<1> QED
  BY <1>2, <1>3, <1>4

\* What the collector is doing, in steps that are not the collector's: nothing was taken up
\* that matters while the session is not dead, and a dead session stays dead.
LEMMA SweepStays ==
  ASSUME Inv, UNCHANGED <<offlineAccess, providerType, revoked, abandoned, sweep>>,
         Dead => Dead' /\ latest' = latest
  PROVE  SweepOK' /\ RevokedIsDead'
<1>1. CASE Dead
  BY <1>1 DEF Inv, SweepOK, RevokedIsDead, HoldsLatestToken
<1>2. CASE ~Dead
  BY <1>2, LiveIsUnswept DEF Inv, SweepOK, RevokedIsDead, HoldsLatestToken
<1> QED
  BY <1>1, <1>2

\* What the cache says stays right when Secrets go: it is not up to date since no later a time.
LEMMA CacheStays ==
  ASSUME Inv, UNCHANGED <<cache, request, latest>>, staleSince' \in 0..MaxTime,
         store # cache => staleSince' <= staleSince,
         DOMAIN store' \subseteq DOMAIN store, \A n \in DOMAIN store' : store'[n] = store[n]
  PROVE  CachedCode' /\ CachedRefreshToken'
<1>0. TypeOK
  BY DEF Inv
<1>1. \A n \in DOMAIN store' : n \in DOMAIN store /\ store'[n] = store[n]
  OBVIOUS
<1>2. CodeActive' => CodeActive
  BY <1>1 DEF CodeActive, Stored
<1>3. CachedCode'
  <2> SUFFICES ASSUME Authcode \in DOMAIN cache, cache[Authcode].active PROVE CachedCode'
    BY DEF CachedCode
  <2>1. CASE ~CodeActive /\ staleSince <= AuthorizeCodeLifespan + MaxRequestTime
    <3>1. store # cache
      BY <2>1 DEF CodeActive, Stored
    <3>2. staleSince' <= AuthorizeCodeLifespan + MaxRequestTime
      <4>1. staleSince' \in Nat /\ staleSince' <= staleSince
        BY <3>1, ConstantsAreNat
      <4> QED
        BY <1>0, <2>1, <4>1, Times, ConstantsAreNat, Earlier, ZenonT(60)
    <3> QED
      BY <1>2, <2>1, <3>2, ZenonT(60) DEF CachedCode
  <2>2. CASE (Stored(Authcode) => CodeActive) /\ NoTokens(store) /\ latest = 0 /\ request.grant # "refresh"
    BY <1>1, <2>2, ZenonT(60) DEF CachedCode, CodeActive, Stored, NoTokens
  <2> QED
    BY <2>1, <2>2, ZenonT(60) DEF Inv, CachedCode
<1>4. CachedRefreshToken'
  <2> SUFFICES ASSUME NEW g \in Generations, Refresh(g) \in DOMAIN cache
               PROVE  \/ /\ \A h \in Generations : Stored(Refresh(h))' => h = g /\ store'[Refresh(g)] = cache[Refresh(g)]
                         /\ ~RequestsMayFail /\ request.grant # "refresh" => cache[Refresh(g)].upstream = latest
                      \/ /\ \A h \in Generations : Stored(Refresh(h))' => h > g
                         /\ staleSince' <= cache[Refresh(g)].expires + MaxRequestTime
    BY ZenonT(60) DEF CachedRefreshToken
  <2>1. CASE /\ \A h \in Generations : Stored(Refresh(h)) => h > g
             /\ staleSince <= cache[Refresh(g)].expires + MaxRequestTime
    <3>1. store # cache
      BY <2>1 DEF Stored, Generations
    <3>2. staleSince' <= cache[Refresh(g)].expires + MaxRequestTime
      <4>1. staleSince' \in Nat /\ staleSince' <= staleSince
        BY <3>1, ConstantsAreNat
      <4> QED
        BY <1>0, <2>1, <4>1, Times, ConstantsAreNat, Earlier, ZenonT(60)
    <3> QED
      BY <1>1, <2>1, <3>2, ZenonT(60) DEF Stored
  <2>2. CASE /\ \A h \in Generations : Stored(Refresh(h)) => h = g /\ store[Refresh(g)] = cache[Refresh(g)]
             /\ ~RequestsMayFail /\ request.grant # "refresh" => cache[Refresh(g)].upstream = latest
    BY <1>1, <2>2, ZenonT(60) DEF Stored
  <2> QED
    BY <2>1, <2>2, ZenonT(60) DEF Inv, CachedRefreshToken
<1> QED
  BY <1>3, <1>4

\* No request.
LEMMA IdleIs ==
  /\ Idle \in [grant : {"none", "redeem", "refresh"}, since : 0..MaxTime, name : Names, upstream : Generations]
  /\ Idle.grant = "none"
  BY ConstantsAreNat, NamesDiffer, FirstGeneration DEF Idle

-----------------------------------------------------------------------------
(* The steps.                                                              *)

\* Time passes: no request and no lag of the cache outlasts its bound.
LEMMA TickStep == ASSUME Inv, Tick PROVE Inv'
<1>1. TypeOK /\ now \in Nat /\ now' = now + 1 /\ now' \in 0..MaxTime
  <2>1. TypeOK /\ now \in 0..MaxTime
    BY ZenonT(60) DEF Inv, TypeOK
  <2>2. now < MaxTime /\ now' = now + 1
    BY ZenonT(60) DEF Tick
  <2> QED
    BY <2>1, <2>2, LaterIsATime, ZenonT(60)
<1>2. /\ UNCHANGED <<offlineAccess, providerType, codeIsKnown>> /\ UNCHANGED <<store, cache, staleSince, request>>
      /\ UNCHANGED <<latest, revoked, abandoned, reused, sweep>>
  BY DEF Tick, session, upstream
<1>3. TypeOK'
  <2>1. sinceSweep' \in 0..MinimumRepeatInterval
    BY <1>1, ConstantsAreNat DEF Tick, TypeOK
  <2> QED
    BY <1>1, <1>2, <2>1 DEF TypeOK
<1>4. ClocksOK'
  <2>1. request.grant # "none" => request # Idle
    BY DEF Idle
  <2>2. staleSince \in Nat /\ sweep.time \in Nat /\ request.since \in Nat
    BY <1>1 DEF TypeOK
  <2> QED
    BY <1>1, <1>2, <2>1, <2>2, ConstantsAreNat DEF Inv, ClocksOK, Tick
<1>5. CopiesOK(store)' /\ CopiesOK(cache)' /\ CopiesOK(sweep.todo)'
  BY <1>2, CopiesStay
<1>6. ActiveIsUnused' /\ RequestOK' /\ NoOfflineAccess' /\ CachedCode' /\ CachedRefreshToken'
  BY <1>2, SessionStays
<1>7. KeptForItsTime'
  <2>1. AuthorizationCodeSessionStorageLifetime \in Nat /\ OIDCSessionStorageLifetime \in Nat
    BY ConstantsAreNat DEF AuthorizationCodeSessionStorageLifetime, OIDCSessionStorageLifetime
  <2> QED
    BY <1>1, <1>2, <2>1 DEF Inv, KeptForItsTime, Stored
<1>8. OneRefreshToken'
  <2> SUFFICES ASSUME NEW g \in Generations, Stored(Refresh(g))
               PROVE  /\ \A h \in Generations : Stored(Refresh(h)) => h = g
                      /\ ~RequestsMayFail /\ request.grant # "refresh" => store[Refresh(g)].upstream = latest
                      /\ ~RequestsMayFail => \/ now + 1 > store[Refresh(g)].garbageCollectAfter
                                             \/ /\ Stored(Access(g))
                                                /\ store[Access(g)].garbageCollectAfter = store[Refresh(g)].garbageCollectAfter
    BY <1>1, <1>2 DEF OneRefreshToken, Stored
  <2>1. store[Refresh(g)].garbageCollectAfter \in Nat
    BY <1>1 DEF TypeOK, Secrets, Stored
  <2> QED
    BY <1>1, <2>1 DEF Inv, OneRefreshToken
<1>9. Dead => Dead'
  BY <1>1, <1>2, DeadStays
<1>10. SweepOK' /\ RevokedIsDead'
  BY <1>2, <1>9, SweepStays
<1>11. LatestIsHeld'
  BY <1>2 DEF Inv, LatestIsHeld, CodeActive, Stored
<1> QED
  BY <1>3, <1>4, <1>5, <1>6, <1>7, <1>8, <1>10, <1>11 DEF Inv

\* The cache becomes the store, which says the truth.
LEMMA InformerStep == ASSUME Inv, InformerCatchesUp PROVE Inv'
<1>1. /\ UNCHANGED <<now, offlineAccess, providerType, codeIsKnown>> /\ UNCHANGED <<store, request>>
      /\ UNCHANGED <<latest, revoked, abandoned, reused, sweep, sinceSweep>> /\ cache' = store /\ staleSince' = 0
  BY DEF InformerCatchesUp, session, upstream, collector
<1>2. TypeOK'
  <2>1. TypeOK /\ 0 \in 0..MaxTime
    BY Clocks, ZenonT(60) DEF Inv
  <2> QED
    BY <1>1, <2>1, ZenonT(60) DEF TypeOK
<1>3. ClocksOK'
  <2>1. 0 <= now
    BY Clocks, ZenonT(60) DEF Inv
  <2> QED
    BY <1>1, <2>1, ZenonT(60) DEF Inv, ClocksOK
<1>4. CopiesOK(store)' /\ CopiesOK(cache)' /\ CopiesOK(sweep.todo)'
  <2>1. CopiesOK(store)' /\ CopiesOK(sweep.todo)'
    BY <1>1, CopiesStay
  <2>2. CopiesOK(cache)'
    BY <1>1, ZenonT(60) DEF Inv, CopiesOK
  <2> QED
    BY <2>1, <2>2
<1>5. ActiveIsUnused' /\ RequestOK' /\ NoOfflineAccess' /\ KeptForItsTime'
  BY <1>1, ZenonT(60) DEF Inv, ActiveIsUnused, RequestOK, NoOfflineAccess, KeptForItsTime, NoTokens, CodeActive, Stored, Idle
<1>6. OneRefreshToken' /\ LatestIsHeld'
  BY <1>1, ZenonT(60) DEF Inv, OneRefreshToken, LatestIsHeld, CodeActive, Stored
<1>7. CachedCode'
  BY <1>1 DEF Inv, CachedCode, ActiveIsUnused, NoTokens, CodeActive, Stored
<1>8. CachedRefreshToken'
  BY <1>1 DEF Inv, CachedRefreshToken, OneRefreshToken, Stored
<1>9. Dead => Dead'
  BY <1>1 DEF Dead, Usable, Valid, Stored, Idle
<1>10. SweepOK' /\ RevokedIsDead'
  BY <1>1, <1>9, SweepStays
<1> QED
  BY <1>2, <1>3, <1>4, <1>5, <1>6, <1>7, <1>8, <1>10 DEF Inv

\* A sweep takes up only what ExpiredIsDead is about.
LEMMA StartSweepStep == ASSUME Inv, StartSweep PROVE Inv'
<1> DEFINE expired == {n \in DOMAIN cache : Expired(cache[n])}
           todo == [n \in expired |-> cache[n]]
<1>1. /\ UNCHANGED <<now, offlineAccess, providerType, codeIsKnown>> /\ UNCHANGED <<store, cache, staleSince, request>>
      /\ UNCHANGED <<latest, revoked, abandoned, reused>> /\ sinceSweep' = 0
  BY DEF StartSweep, session, upstream
<1>2. /\ sweep'.deleting = {} /\ DOMAIN sweep' = {"time", "todo", "deleting"}
      /\ \/ sweep'.time = 0 /\ DOMAIN sweep'.todo = {}
         \/ sweep'.time = now /\ sweep'.todo = todo
  BY DEF StartSweep, NotSweeping
<1>3. /\ now \in 0..MaxTime /\ 0 \in 0..MaxTime /\ 0 \in 0..MinimumRepeatInterval
      /\ now <= now /\ 0 <= now
  BY Clocks, ZenonT(60) DEF Inv
<1>4. \A n \in DOMAIN sweep'.todo : /\ n \in DOMAIN cache /\ sweep'.todo[n] = cache[n]
                                   /\ Expired(cache[n]) /\ sweep'.time = now
  BY <1>2
<1>5. TypeOK'
  BY <1>1, <1>2, <1>3, <1>4, ZenonT(60) DEF Inv, TypeOK, Expired
<1>6. ClocksOK'
  BY <1>1, <1>2, <1>3, ZenonT(60) DEF Inv, ClocksOK
<1>7. CopiesOK(store)' /\ CopiesOK(cache)' /\ CopiesOK(sweep.todo)'
  <2>1. CopiesOK(store)' /\ CopiesOK(cache)'
    BY <1>1, CopiesStay
  <2>2. CopiesOK(cache)
    BY DEF Inv
  <2>3. CopiesOK(sweep.todo)'
    BY <1>1, <1>4, <2>2, ZenonT(60) DEF CopiesOK
  <2> QED
    BY <2>1, <2>3
<1>8. ActiveIsUnused' /\ RequestOK' /\ NoOfflineAccess' /\ CachedCode' /\ CachedRefreshToken'
  BY <1>1, SessionStays
<1>9. KeptForItsTime' /\ LatestIsHeld'
  BY <1>1 DEF Inv, KeptForItsTime, LatestIsHeld, CodeActive, Stored
<1>10. OneRefreshToken'
  BY <1>1 DEF Inv, OneRefreshToken, Stored
<1>11. Dead => Dead'
  BY <1>1 DEF Dead, Usable, Valid, Stored, Idle
<1>12. RevokedIsDead'
  BY <1>1, <1>11 DEF Inv, RevokedIsDead
<1>13. SweepOK'
  <2>1. \A n \in DOMAIN sweep'.todo : HoldsLatestToken(n, sweep'.todo[n]) =>
          Dead /\ (RequestsMayFail \/ sweep'.todo[n].upstream = latest)
    BY <1>4, ExpiredIsDead
  <2> QED
    BY <1>1, <1>2, <1>11, <2>1 DEF SweepOK, HoldsLatestToken
<1> QED
  BY <1>5, <1>6, <1>7, <1>8, <1>9, <1>10, <1>12, <1>13 DEF Inv

\* A rejected redemption leaves the session as it was.
LEMMA RejectRedeemStep == ASSUME Inv, RejectRedeem PROVE Inv'
<1>1. /\ UNCHANGED <<now, offlineAccess, providerType, codeIsKnown>> /\ UNCHANGED <<store, cache, staleSince>>
      /\ UNCHANGED <<latest, revoked, abandoned, reused, sweep, sinceSweep>>
      /\ request.grant = "redeem" /\ request' = Idle
  BY DEF RejectRedeem, session, upstream, collector
<1>2. TypeOK'
  BY <1>1, IdleIs, ZenonT(60) DEF Inv, TypeOK
<1>3. Idle.grant = "none"
  BY IdleIs
<1>4. ClocksOK' /\ RequestOK' /\ NoOfflineAccess' /\ KeptForItsTime'
  BY <1>1, <1>3, ZenonT(60) DEF Inv, ClocksOK, RequestOK, NoOfflineAccess, KeptForItsTime, Stored, Idle
<1>5. CopiesOK(store)' /\ CopiesOK(cache)' /\ CopiesOK(sweep.todo)'
  BY <1>1, CopiesStay
<1>6. ActiveIsUnused' /\ CachedCode' /\ CachedRefreshToken'
  BY <1>1, <1>3, ZenonT(60) DEF Inv, ActiveIsUnused, CachedCode, CachedRefreshToken, NoTokens, CodeActive, Stored
<1>7. OneRefreshToken' /\ LatestIsHeld'
  BY <1>1, <1>3, ZenonT(60) DEF Inv, OneRefreshToken, LatestIsHeld, CodeActive, Stored
<1>8. ~Dead
  BY <1>1, <1>3 DEF Dead
<1>9. SweepOK' /\ RevokedIsDead'
  BY <1>1, <1>8, SweepStays
<1> QED
  BY <1>2, <1>4, <1>5, <1>6, <1>7, <1>9 DEF Inv

\* A redemption begins with a code that is valid and was not used: there are no tokens yet.
LEMMA BeginRedeemStep == ASSUME Inv, BeginRedeem PROVE Inv'
<1>1. /\ UNCHANGED <<now, offlineAccess, providerType, codeIsKnown>>
      /\ UNCHANGED <<latest, revoked, abandoned, reused, sweep, sinceSweep>>
      /\ request = Idle /\ codeIsKnown /\ CodeActive /\ now <= store[Authcode].expires
  BY DEF BeginRedeem, session, upstream, collector, Valid, CodeActive
<1>2. request' = [grant |-> "redeem", since |-> now, name |-> Authcode, upstream |-> store[Authcode].upstream]
  BY DEF BeginRedeem
<1>3. /\ store' = Remove(store, {PKCE}) /\ cache' = cache
      /\ staleSince' \in 0..MaxTime /\ staleSince' <= now
      /\ store' # cache' => now <= staleSince' + MaxCacheLag
  BY SetStoreIs DEF Inv, BeginRedeem
<1>4. /\ DOMAIN store' = DOMAIN store \ {PKCE}
      /\ \A n \in DOMAIN store' : store'[n] = store[n]
  BY <1>3 DEF Remove
<1>5. /\ store[Authcode].upstream = 0 /\ store[Authcode].expires = AuthorizeCodeLifespan
      /\ now \in 0..MaxTime /\ now \in Nat /\ 0 \in Generations
  <2>1. store[Authcode].upstream = 0 /\ store[Authcode].expires = AuthorizeCodeLifespan
    BY <1>1, ZenonT(60) DEF Inv, CopiesOK, CodeActive, Stored
  <2>2. TypeOK /\ now \in 0..MaxTime
    BY ZenonT(60) DEF Inv, TypeOK
  <2> QED
    BY <2>1, <2>2, Times, FirstGeneration
<1>6. /\ CodeActive' /\ NoTokens(store)' /\ NoTokens(cache)' /\ latest' = 0
      /\ request'.grant = "redeem" /\ request'.since = now /\ request'.upstream = 0
  BY <1>1, <1>2, <1>3, <1>4, <1>5, NamesDiffer, ZenonT(60) DEF Inv, CodeActive, Stored, ActiveIsUnused, NoTokens
<1>7. TypeOK'
  <2>1. request' \in [grant : {"none", "redeem", "refresh"}, since : 0..MaxTime, name : Names, upstream : Generations]
    BY <1>2, <1>5, NamesDiffer, ZenonT(60)
  <2> QED
    BY <1>1, <1>3, <1>4, <2>1, ZenonT(60) DEF Inv, TypeOK
<1>8. ClocksOK'
  <2>1. now <= now /\ now <= now + MaxRequestTime
    BY <1>5, ConstantsAreNat
  <2>2. sweep.time <= now
    BY DEF Inv, ClocksOK
  <2> QED
    BY <1>1, <1>3, <1>6, <2>1, <2>2, ZenonT(60) DEF ClocksOK
<1>9. CopiesOK(store)' /\ CopiesOK(cache)' /\ CopiesOK(sweep.todo)'
  BY <1>1, <1>3, <1>4, CopiesStay, ZenonT(60)
<1>10. ActiveIsUnused' /\ CachedCode' /\ CachedRefreshToken' /\ OneRefreshToken'
  BY <1>6, ZenonT(60) DEF ActiveIsUnused, CachedCode, CachedRefreshToken, OneRefreshToken, NoTokens, Stored
<1>11. KeptForItsTime'
  BY <1>1, <1>4, NamesDiffer, ZenonT(60) DEF Inv, KeptForItsTime, Stored
<1>12. RequestOK' /\ NoOfflineAccess' /\ LatestIsHeld'
  BY <1>1, <1>5, <1>6 DEF RequestOK, NoOfflineAccess, LatestIsHeld
<1>13. ~Dead
  BY <1>1, UsableIs DEF Inv
<1>14. SweepOK' /\ RevokedIsDead'
  BY <1>1, <1>13, SweepStays
<1> QED
  BY <1>7, <1>8, <1>9, <1>10, <1>11, <1>12, <1>14 DEF Inv

\* A refresh begins with a valid refresh token; the session's upstream token may change now,
\* and the store has the new one only when the refresh finishes.
LEMMA BeginRefreshStep == ASSUME Inv, NEW g \in Generations, BeginRefresh(g) PROVE Inv'
<1>1. /\ UNCHANGED <<now, offlineAccess, providerType, codeIsKnown>> /\ UNCHANGED <<store, cache, staleSince>>
      /\ UNCHANGED <<revoked, abandoned, reused, sweep, sinceSweep>>
      /\ request = Idle /\ g < MaxRefreshes /\ Stored(Refresh(g)) /\ now <= store[Refresh(g)].expires
  BY DEF BeginRefresh, session, collector, Valid
<1>2. request' = [grant |-> "refresh", since |-> now, name |-> Refresh(g), upstream |-> latest']
  BY DEF BeginRefresh
<1>3. latest' \in Generations
  BY ZenonT(60) DEF BeginRefresh, Inv, TypeOK
<1>4. now \in 0..MaxTime /\ now \in Nat /\ offlineAccess
  <2>1. TypeOK /\ now \in 0..MaxTime
    BY ZenonT(60) DEF Inv, TypeOK
  <2>2. offlineAccess
    BY <1>1, ZenonT(60) DEF Inv, CopiesOK, Stored
  <2> QED
    BY <2>1, <2>2, Times
<1>5. request'.grant = "refresh" /\ request'.since = now /\ request'.upstream = latest' /\ request'.name = Refresh(g)
  BY <1>2
<1>6. ~CodeActive
  BY <1>1, ZenonT(60) DEF Inv, ActiveIsUnused, NoTokens, Stored
<1>7. TypeOK'
  <2>1. request' \in [grant : {"none", "redeem", "refresh"}, since : 0..MaxTime, name : Names, upstream : Generations]
    BY <1>2, <1>3, <1>4, NamesDiffer
  <2> QED
    BY <1>1, <1>3, <2>1, ZenonT(60) DEF Inv, TypeOK
<1>8. ClocksOK'
  <2>1. now <= now /\ now <= now + MaxRequestTime
    BY <1>4, ConstantsAreNat
  <2> QED
    BY <1>1, <1>5, <2>1, ZenonT(60) DEF Inv, ClocksOK
<1>9. CopiesOK(store)' /\ CopiesOK(cache)' /\ CopiesOK(sweep.todo)'
  BY <1>1, CopiesStay
<1>10. ActiveIsUnused' /\ KeptForItsTime' /\ NoOfflineAccess' /\ RequestOK'
  BY <1>1, <1>4, <1>5, <1>6, ZenonT(60) DEF Inv, ActiveIsUnused, KeptForItsTime, NoOfflineAccess, RequestOK, CodeActive, Stored
<1>11. OneRefreshToken' /\ LatestIsHeld'
  BY <1>1, <1>4, <1>5, ZenonT(60) DEF Inv, OneRefreshToken, LatestIsHeld, Stored
<1>12. CachedCode'
  BY <1>1, <1>6, ZenonT(60) DEF Inv, CachedCode, NoTokens, CodeActive, Stored
<1>13. CachedRefreshToken'
  BY <1>1, <1>5, ZenonT(60) DEF Inv, CachedRefreshToken, Stored
<1>14. ~Dead
  BY <1>1, UsableIs, ZenonT(60) DEF Inv
<1>15. SweepOK' /\ RevokedIsDead'
  BY <1>1, <1>14, SweepStays
<1> QED
  BY <1>7, <1>8, <1>9, <1>10, <1>11, <1>12, <1>13, <1>15 DEF Inv

\* The tokens of a used code that is presented again go; the login's Secrets stay.
LEMMA ReuseCodeStep == ASSUME Inv, ReuseCode PROVE Inv'
<1>1. /\ UNCHANGED <<now, offlineAccess, providerType, codeIsKnown>>
      /\ UNCHANGED <<request, latest, revoked, abandoned, sweep, sinceSweep>>
      /\ request = Idle /\ Stored(Authcode) /\ ~store[Authcode].active /\ reused' = TRUE
  BY DEF ReuseCode, session, collector
<1>2. PICK kinds \in SUBSET {"access-token", "refresh-token"} :
             /\ RequestsMayFail \/ kinds = {"access-token", "refresh-token"}
             /\ SetStore(Remove(store, UNION {Tokens(kind) : kind \in kinds}))
  BY ZenonT(60) DEF ReuseCode
<1> DEFINE gone == UNION {Tokens(kind) : kind \in kinds}
<1>3. /\ store' = Remove(store, gone) /\ cache' = cache
      /\ staleSince' \in 0..MaxTime /\ staleSince' <= now
      /\ store # cache => staleSince' <= staleSince
      /\ store' # cache' => now <= staleSince' + MaxCacheLag
  BY <1>2, SetStoreIs DEF Inv
<1>4. DOMAIN store' = DOMAIN store \ gone /\ \A n \in DOMAIN store' : store'[n] = store[n]
  BY <1>3 DEF Remove
<1>5. TypeOK /\ DOMAIN store \subseteq Names
  BY ZenonT(60) DEF Inv, TypeOK
<1>6. Authcode \notin gone /\ OIDC \notin gone
  BY DEF Tokens, Authcode, OIDC
<1>7. ~RequestsMayFail => \A g \in Generations : ~Stored(Refresh(g))'
  <2> SUFFICES ASSUME ~RequestsMayFail, NEW g \in Generations, Refresh(g) \in DOMAIN store, Refresh(g) \notin gone
               PROVE  FALSE
    BY <1>4, ZenonT(60) DEF Stored
  <2>1. Refresh(g) \in Tokens("refresh-token") /\ "refresh-token" \in kinds
    BY <1>2 DEF Tokens, Refresh
  <2> QED
    BY <2>1, ZenonT(60)
<1> HIDE DEF gone
<1>8. ~CodeActive /\ ~CodeActive' /\ Stored(Authcode)' /\ (Stored(OIDC) => Stored(OIDC)')
  BY <1>1, <1>4, <1>6, ZenonT(60) DEF CodeActive, Stored
<1>9. TypeOK'
  BY <1>1, <1>3, <1>4, <1>5, ZenonT(60) DEF TypeOK
<1>10. ClocksOK'
  BY <1>1, <1>3, ZenonT(60) DEF Inv, ClocksOK
<1>11. CopiesOK(store)' /\ CopiesOK(cache)' /\ CopiesOK(sweep.todo)'
  BY <1>1, <1>3, <1>4, CopiesStay, ZenonT(60)
<1>12. ActiveIsUnused' /\ KeptForItsTime' /\ NoOfflineAccess' /\ LatestIsHeld'
  BY <1>1, <1>8, ZenonT(60) DEF Inv, ActiveIsUnused, KeptForItsTime, NoOfflineAccess, LatestIsHeld
<1>13. RequestOK'
  BY <1>1, IdleIs DEF RequestOK, Idle
<1>14. OneRefreshToken'
  BY <1>4, <1>7, ZenonT(60) DEF Inv, OneRefreshToken, Stored
<1>15. CachedCode' /\ CachedRefreshToken'
  BY <1>1, <1>3, <1>4, CacheStays, ZenonT(60)
<1>16. Dead => Dead'
  <2>1. now' \in Nat /\ now <= now'
    BY <1>1, <1>5, Clocks
  <2> QED
    BY <1>1, <1>4, <1>5, <2>1, DeadStays, ZenonT(60)
<1>17. SweepOK' /\ RevokedIsDead'
  BY <1>1, <1>16, SweepStays
<1> QED
  BY <1>9, <1>10, <1>11, <1>12, <1>13, <1>14, <1>15, <1>17 DEF Inv

\* What is left of a sweep.
LEMMA SweepDoneIs ==
  ASSUME TypeOK, NEW name, SweepDone(name)
  PROVE  /\ sweep'.deleting = {} /\ DOMAIN sweep' = {"time", "todo", "deleting"}
         /\ DOMAIN sweep'.todo \subseteq DOMAIN sweep.todo
         /\ \A n \in DOMAIN sweep'.todo : sweep'.todo[n] = sweep.todo[n] /\ sweep'.time = sweep.time
         /\ sweep'.time = 0 \/ sweep'.time = sweep.time
<1> DEFINE rest == Remove(sweep.todo, {name})
<1>1. DOMAIN rest \subseteq DOMAIN sweep.todo /\ \A n \in DOMAIN rest : rest[n] = sweep.todo[n]
  BY DEF Remove
<1> HIDE DEF rest
<1>2. CASE sweep' = NotSweeping
  BY <1>2, NotSweepingIs, ZenonT(60)
<1>3. CASE sweep' = [sweep EXCEPT !.todo = rest, !.deleting = {}]
  BY <1>1, <1>3 DEF TypeOK
<1> QED
  BY <1>2, <1>3, ZenonT(60) DEF SweepDone, rest

\* Revoking the token of a dead session, or giving up on it; the Secret is up for deletion
\* only after that, or if it does not hold the token.
LEMMA SweepSecretStep ==
  ASSUME Inv, NEW name \in DOMAIN sweep.todo, NEW outcome \in Outcomes, SweepSecret(name, outcome)
  PROVE  Inv'
<1> DEFINE token == sweep.todo[name].upstream
           needed == HoldsLatestToken(name, sweep.todo[name]) /\ providerType = "oidc"
<1>1. /\ UNCHANGED <<now, offlineAccess, providerType, codeIsKnown>>
      /\ UNCHANGED <<store, cache, staleSince, request, latest, reused, sinceSweep>>
  BY DEF SweepSecret, session
<1>2. TypeOK /\ token \in Generations /\ name \in Names
  BY ZenonT(60) DEF Inv, CopiesOK, TypeOK
<1>3. /\ sweep'.deleting \in {{}, {name}} /\ DOMAIN sweep' = {"time", "todo", "deleting"}
      /\ DOMAIN sweep'.todo \subseteq DOMAIN sweep.todo /\ sweep'.deleting \subseteq DOMAIN sweep'.todo
      /\ \A n \in DOMAIN sweep'.todo : sweep'.todo[n] = sweep.todo[n] /\ sweep'.time = sweep.time
      /\ sweep'.time = 0 \/ sweep'.time = sweep.time
  <2>1. CASE SweepDone(name)
    BY <1>2, <2>1, SweepDoneIs, ZenonT(60)
  <2>2. CASE sweep' = [sweep EXCEPT !.deleting = {name}]
    BY <1>2, <2>2 DEF TypeOK
  <2> QED
    BY <2>1, <2>2 DEF SweepSecret
<1>4. /\ revoked \subseteq revoked' /\ abandoned \subseteq abandoned'
      /\ revoked' \cup abandoned' \subseteq revoked \cup abandoned \cup {token}
      /\ ~needed => revoked' = revoked /\ abandoned' = abandoned
      /\ needed /\ sweep'.deleting = {name} => token \in revoked' \cup abandoned'
  BY DEF SweepSecret
<1>5. needed => Dead /\ (RequestsMayFail \/ token = latest)
  BY ZenonT(60) DEF Inv, SweepOK
<1>6. TypeOK'
  <2>1. revoked' \subseteq Generations /\ abandoned' \subseteq Generations
    BY <1>2, <1>4, ZenonT(60) DEF TypeOK
  <2>2. /\ sweep'.time \in 0..MaxTime /\ sweep'.deleting \subseteq Names /\ DOMAIN sweep'.todo \subseteq Names
        /\ \A n \in DOMAIN sweep'.todo : sweep'.todo[n] \in Secrets
        /\ \A n \in DOMAIN sweep'.todo : sweep'.todo[n].garbageCollectAfter < sweep'.time
    <3>1. 0 \in 0..MaxTime
      BY ConstantsAreNat
    <3>2. /\ sweep.time \in 0..MaxTime /\ DOMAIN sweep.todo \subseteq Names
          /\ \A n \in DOMAIN sweep.todo : sweep.todo[n] \in Secrets
          /\ \A n \in DOMAIN sweep.todo : sweep.todo[n].garbageCollectAfter < sweep.time
      BY <1>2, ZenonT(60) DEF TypeOK
    <3> QED
      BY <1>2, <1>3, <3>1, <3>2, ZenonT(60)
  <2> QED
    BY <1>1, <1>2, <1>3, <2>1, <2>2, ZenonT(60) DEF TypeOK
<1>7. ClocksOK'
  <2>1. sweep'.time <= now
    <3>1. 0 <= now /\ sweep.time <= now
      BY <1>2, Clocks, ZenonT(60) DEF Inv, ClocksOK
    <3> QED
      BY <1>3, <3>1, ZenonT(60)
  <2> QED
    BY <1>1, <2>1, ZenonT(60) DEF Inv, ClocksOK
<1>8. CopiesOK(store)' /\ CopiesOK(cache)' /\ CopiesOK(sweep.todo)'
  BY <1>1, <1>3, CopiesStay, ZenonT(60)
<1>9. ActiveIsUnused' /\ RequestOK' /\ NoOfflineAccess' /\ CachedCode' /\ CachedRefreshToken'
  BY <1>1, SessionStays
<1>10. KeptForItsTime' /\ OneRefreshToken'
  BY <1>1, ZenonT(60) DEF Inv, KeptForItsTime, OneRefreshToken, Stored
<1>11. Dead => Dead'
  BY <1>1, ZenonT(60) DEF Dead, Usable, Valid, Stored, Idle
<1>12. RevokedIsDead'
  BY <1>1, <1>4, <1>5, <1>11, ZenonT(60) DEF Inv, RevokedIsDead
<1>13. SweepOK'
  <2>1. ASSUME NEW n \in DOMAIN sweep'.todo, HoldsLatestToken(n, sweep.todo[n])
        PROVE  Dead' /\ (RequestsMayFail \/ sweep'.todo[n].upstream = latest')
    BY <1>1, <1>3, <1>11, <2>1, ZenonT(60) DEF Inv, SweepOK
  <2>2. ASSUME NEW n \in sweep'.deleting, HoldsLatestToken(n, sweep.todo[n]), providerType = "oidc"
        PROVE  sweep'.todo[n].upstream \in revoked' \cup abandoned'
    BY <1>3, <1>4, <2>2, ZenonT(60)
  <2> QED
    BY <1>1, <1>3, <2>1, <2>2, ZenonT(60) DEF SweepOK, HoldsLatestToken
<1>14. LatestIsHeld'
  BY <1>1, <1>4, ZenonT(60) DEF Inv, LatestIsHeld, CodeActive, Stored
<1> QED
  BY <1>6, <1>7, <1>8, <1>9, <1>10, <1>12, <1>13, <1>14 DEF Inv

\* A Secret is deleted after its time, and if it held the upstream token, after that was
\* revoked or given up on.
LEMMA SweepDeleteStep ==
  ASSUME Inv, NEW name \in DOMAIN sweep.todo, NEW ok \in BOOLEAN, SweepDelete(name, ok)
  PROVE  Inv'
<1> DEFINE gone == IF ok /\ Stored(name) /\ store[name] = sweep.todo[name] THEN {name} ELSE {}
<1>1. /\ UNCHANGED <<now, offlineAccess, providerType, codeIsKnown>>
      /\ UNCHANGED <<request, latest, revoked, abandoned, reused, sinceSweep>> /\ name \in sweep.deleting
  BY ZenonT(60) DEF SweepDelete, session, upstream
<1>2. TypeOK /\ name \in Names
  BY ZenonT(60) DEF Inv, TypeOK
<1>3. PICK S : /\ SetStore(S)
               /\ S = IF ok /\ Stored(name) /\ store[name] = sweep.todo[name] THEN Remove(store, {name}) ELSE store
  BY ZenonT(60) DEF SweepDelete
<1>4. /\ store' = S /\ cache' = cache
      /\ staleSince' \in 0..MaxTime /\ staleSince' <= now
      /\ store # cache => staleSince' <= staleSince
      /\ store' # cache' => now <= staleSince' + MaxCacheLag
  BY <1>3, SetStoreIs DEF Inv
<1>5. DOMAIN store' = DOMAIN store \ gone /\ \A n \in DOMAIN store' : store'[n] = store[n]
  BY <1>3, <1>4 DEF Remove
<1>6. \A n \in gone : /\ n = name /\ n \in DOMAIN store /\ store[n] = sweep.todo[n]
                      /\ store[n].garbageCollectAfter < now
  <2>1. sweep.todo[name].garbageCollectAfter < now
    <3>1. sweep.todo[name].garbageCollectAfter < sweep.time
      BY <1>2 DEF TypeOK
    <3>2. sweep.time <= now
      BY DEF Inv, ClocksOK
    <3> QED
      BY <1>2, <3>1, <3>2, Times
  <2> QED
    BY <2>1 DEF Stored
<1> HIDE DEF gone
<1>7. /\ sweep'.deleting = {} /\ DOMAIN sweep' = {"time", "todo", "deleting"}
      /\ DOMAIN sweep'.todo \subseteq DOMAIN sweep.todo
      /\ \A n \in DOMAIN sweep'.todo : sweep'.todo[n] = sweep.todo[n] /\ sweep'.time = sweep.time
      /\ sweep'.time = 0 \/ sweep'.time = sweep.time
  BY <1>2, SweepDoneIs DEF SweepDelete
<1>8. \A n \in gone : HoldsLatestToken(n, store[n]) =>
        /\ Dead /\ (RequestsMayFail \/ store[n].upstream = latest)
        /\ providerType = "oidc" => store[n].upstream \in revoked \cup abandoned
  BY <1>1, <1>6, ZenonT(60) DEF Inv, SweepOK
<1>9. /\ Authcode \in gone /\ CodeActive => HoldsLatestToken(Authcode, store[Authcode])
      /\ \A g \in Generations : HoldsLatestToken(Refresh(g), store[Refresh(g)])
      /\ ~offlineAccess => \A g \in Generations : HoldsLatestToken(Access(g), store[Access(g)])
  BY HoldersAre, NamesDiffer, ZenonT(60) DEF CodeActive
<1>10. TypeOK'
  <2>1. /\ sweep'.time \in 0..MaxTime /\ sweep'.deleting \subseteq Names /\ DOMAIN sweep'.todo \subseteq Names
        /\ \A n \in DOMAIN sweep'.todo : sweep'.todo[n] \in Secrets
        /\ \A n \in DOMAIN sweep'.todo : sweep'.todo[n].garbageCollectAfter < sweep'.time
    <3>1. 0 \in 0..MaxTime
      BY ConstantsAreNat
    <3>2. /\ sweep.time \in 0..MaxTime /\ DOMAIN sweep.todo \subseteq Names
          /\ \A n \in DOMAIN sweep.todo : sweep.todo[n] \in Secrets
          /\ \A n \in DOMAIN sweep.todo : sweep.todo[n].garbageCollectAfter < sweep.time
      BY <1>2, ZenonT(60) DEF TypeOK
    <3> QED
      BY <1>2, <1>7, <3>1, <3>2, ZenonT(60)
  <2> QED
    BY <1>1, <1>2, <1>4, <1>5, <1>7, <2>1, ZenonT(60) DEF TypeOK
<1>11. ClocksOK'
  <2>1. sweep'.time <= now
    <3>1. 0 <= now /\ sweep.time <= now
      BY <1>2, Clocks, ZenonT(60) DEF Inv, ClocksOK
    <3> QED
      BY <1>7, <3>1
  <2> QED
    BY <1>1, <1>4, <2>1, ZenonT(60) DEF Inv, ClocksOK
<1>12. CopiesOK(store)' /\ CopiesOK(cache)' /\ CopiesOK(sweep.todo)'
  BY <1>1, <1>4, <1>5, <1>7, CopiesStay, ZenonT(60)
<1>13. CodeActive' => CodeActive
  BY <1>5 DEF CodeActive, Stored
<1>14. ActiveIsUnused' /\ NoOfflineAccess'
  BY <1>1, <1>4, <1>5, <1>13, ZenonT(60) DEF Inv, ActiveIsUnused, NoOfflineAccess, NoTokens
<1>15. KeptForItsTime'
  <2>1. Authcode \in gone => now > AuthorizationCodeSessionStorageLifetime
    BY <1>2, <1>6, ZenonT(60) DEF Inv, CopiesOK
  <2>2. OIDC \in gone => now > OIDCSessionStorageLifetime
    BY <1>2, <1>6, ZenonT(60) DEF Inv, CopiesOK
  <2> QED
    BY <1>1, <1>5, <2>1, <2>2, ZenonT(60) DEF Inv, KeptForItsTime, Stored
<1>16. RequestOK'
  <2>1. CASE request.grant = "none"
    BY <1>1, <2>1, ZenonT(60) DEF Inv, RequestOK, Idle
  <2>2. CASE request.grant = "redeem"
    <3>1. ~Dead
      BY <2>2 DEF Dead, Idle
    <3>2. CodeActive
      BY <2>2 DEF Inv, RequestOK
    <3>3. Authcode \notin gone
      BY <1>8, <1>9, <3>1, <3>2
    <3>4. CodeActive'
      BY <1>5, <3>2, <3>3, ZenonT(60) DEF CodeActive, Stored
    <3> QED
      BY <1>1, <2>2, <3>4, ZenonT(60) DEF Inv, RequestOK
  <2>3. CASE request.grant = "refresh"
    <3>1. ~Dead
      BY <2>3 DEF Dead, Idle
    <3>2. PICK g \in Generations : /\ g < MaxRefreshes /\ request.name = Refresh(g) /\ Stored(Refresh(g))
                                   /\ request.since <= store[Refresh(g)].expires /\ request.upstream = latest
      BY <2>3 DEF Inv, RequestOK
    <3>3. Stored(Refresh(g))' /\ store'[Refresh(g)] = store[Refresh(g)]
      BY <1>5, <1>8, <1>9, <3>1, <3>2, ZenonT(60) DEF Stored
    <3> QED
      BY <1>1, <2>3, <3>2, <3>3, ZenonT(60) DEF RequestOK
  <2> QED
    BY <1>2, <2>1, <2>2, <2>3, ZenonT(60) DEF TypeOK
<1>17. OneRefreshToken'
  <2> SUFFICES ASSUME NEW g \in Generations, Stored(Refresh(g))'
               PROVE  /\ \A h \in Generations : Stored(Refresh(h))' => h = g
                      /\ ~RequestsMayFail /\ request.grant # "refresh" => store'[Refresh(g)].upstream = latest
                      /\ ~RequestsMayFail =>
                           \/ now > store'[Refresh(g)].garbageCollectAfter
                           \/ /\ Stored(Access(g))'
                              /\ store'[Access(g)].garbageCollectAfter = store'[Refresh(g)].garbageCollectAfter
    BY <1>1, ZenonT(60) DEF OneRefreshToken
  <2>1. Stored(Refresh(g)) /\ store'[Refresh(g)] = store[Refresh(g)]
    BY <1>5 DEF Stored
  <2>2. \A h \in Generations : Stored(Refresh(h))' => h = g
    BY <1>5, <2>1, ZenonT(60) DEF Inv, OneRefreshToken, Stored
  <2>3. ~RequestsMayFail /\ request.grant # "refresh" => store[Refresh(g)].upstream = latest
    BY <2>1, ZenonT(60) DEF Inv, OneRefreshToken
  <2>4. ASSUME ~RequestsMayFail, ~(now > store[Refresh(g)].garbageCollectAfter)
        PROVE  Stored(Access(g))' /\ store'[Access(g)].garbageCollectAfter = store[Refresh(g)].garbageCollectAfter
    <3>1. Stored(Access(g)) /\ store[Access(g)].garbageCollectAfter = store[Refresh(g)].garbageCollectAfter
      BY <2>1, <2>4, ZenonT(60) DEF Inv, OneRefreshToken
    <3>2. Access(g) \notin gone
      BY <1>6, <2>4, <3>1
    <3> QED
      BY <1>5, <3>1, <3>2, ZenonT(60) DEF Stored
  <2> QED
    BY <2>1, <2>2, <2>3, <2>4, ZenonT(60)
<1>18. CachedCode' /\ CachedRefreshToken'
  BY <1>1, <1>4, <1>5, CacheStays, ZenonT(60)
<1>20. Dead => Dead'
  <2>1. now' \in Nat /\ now <= now'
    <3>1. now \in Nat /\ now <= now /\ now' = now
      BY <1>1, <1>2, Clocks, ZenonT(60)
    <3> QED
      BY <3>1, ZenonT(60)
  <2> QED
    BY <1>1, <1>2, <1>5, <2>1, DeadStays, ZenonT(60)
<1>21. SweepOK' /\ RevokedIsDead'
  BY <1>1, <1>7, <1>20, ZenonT(60) DEF Inv, SweepOK, RevokedIsDead, HoldsLatestToken
<1>22. LatestIsHeld'
  <2> SUFFICES ASSUME ~RequestsMayFail, ~reused, providerType = "oidc", latest \notin revoked \cup abandoned
               PROVE  \/ CodeActive'
                      \/ offlineAccess /\ \E g \in Generations : Stored(Refresh(g))'
                      \/ ~offlineAccess /\ \E g \in Generations : Stored(Access(g))'
    BY <1>1, ZenonT(60) DEF LatestIsHeld
  <2>1. \A n \in gone : ~HoldsLatestToken(n, store[n])
    BY <1>8
  <2>2. CASE CodeActive
    BY <1>5, <1>9, <2>1, <2>2, ZenonT(60) DEF CodeActive, Stored
  <2>3. CASE offlineAccess /\ \E g \in Generations : Stored(Refresh(g))
    BY <1>5, <1>9, <2>1, <2>3, ZenonT(60) DEF Stored
  <2>4. CASE ~offlineAccess /\ \E g \in Generations : Stored(Access(g))
    BY <1>5, <1>9, <2>1, <2>4, ZenonT(60) DEF Stored
  <2> QED
    BY <2>2, <2>3, <2>4 DEF Inv, LatestIsHeld
<1> QED
  BY <1>10, <1>11, <1>12, <1>14, <1>15, <1>16, <1>17, <1>18, <1>21, <1>22 DEF Inv

\* A redemption that finishes uses the code up before it creates tokens; the cache does not
\* show it at once, and not for longer than it may lag behind.
LEMMA FinishRedeemStep == ASSUME Inv, FinishRedeem PROVE Inv'
<1>1. /\ UNCHANGED <<now, offlineAccess, providerType, codeIsKnown>>
      /\ UNCHANGED <<latest, revoked, abandoned, reused, sweep, sinceSweep>>
      /\ request.grant = "redeem" /\ request' = Idle
  BY DEF FinishRedeem, Finish, session, upstream, collector
<1>2. PICK S : SetStore(S)
  BY DEF FinishRedeem, Finish
<1>3. /\ cache' = cache /\ staleSince' \in 0..MaxTime /\ staleSince' <= now
      /\ store' # cache' => now <= staleSince' + MaxCacheLag
  BY <1>2, SetStoreIs DEF Inv
<1>4. /\ TypeOK /\ CodeActive /\ NoTokens(store) /\ NoTokens(cache) /\ latest = 0
      /\ request.since <= AuthorizeCodeLifespan
  BY <1>1, ZenonT(60) DEF Inv, RequestOK, ActiveIsUnused
<1>5. /\ request.since \in Nat /\ now \in Nat /\ request.since <= now /\ now <= request.since + MaxRequestTime
      /\ 0 \in Generations
  BY <1>1, <1>4, Times, FirstGeneration, ZenonT(60) DEF Inv, ClocksOK
<1>6. Idle.grant = "none"
  BY IdleIs
<1>7. ~Dead
  BY <1>1, <1>6 DEF Dead
<1>8. SweepOK' /\ RevokedIsDead'
  BY <1>1, <1>7, SweepStays
<1>9. ClocksOK' /\ RequestOK' /\ NoOfflineAccess' /\ CachedRefreshToken'
  <2>1. ClocksOK'
    BY <1>1, <1>3, <1>6, ZenonT(60) DEF Inv, ClocksOK
  <2>2. RequestOK'
    BY <1>1, <1>6, ZenonT(60) DEF RequestOK, Idle
  <2>3. NoOfflineAccess' /\ CachedRefreshToken'
    BY <1>1, <1>3, <1>4, ZenonT(60) DEF NoOfflineAccess, CachedRefreshToken, NoTokens
  <2> QED
    BY <2>1, <2>2, <2>3
<1>10. CopiesOK(cache)' /\ CopiesOK(sweep.todo)'
  BY <1>1, <1>3, CopiesStay, ZenonT(60)
<1>11. ASSUME DOMAIN store' \subseteq Names, \A n \in DOMAIN store' : store'[n] \in Secrets PROVE TypeOK'
  BY <1>1, <1>3, <1>4, <1>11, IdleIs, ZenonT(60) DEF TypeOK
<1>12. CASE RequestsMayFail /\ store' = store
  <2>1. TypeOK'
    BY <1>4, <1>11, <1>12, ZenonT(60) DEF TypeOK
  <2>2. CopiesOK(store)' /\ KeptForItsTime'
    BY <1>1, <1>12, ZenonT(60) DEF Inv, CopiesOK, KeptForItsTime, Stored
  <2>3. CodeActive' /\ NoTokens(store)' /\ NoTokens(cache)' /\ latest' = 0 /\ request'.grant = "none"
    BY <1>1, <1>3, <1>4, <1>6, <1>12 DEF CodeActive, Stored, NoTokens
  <2>4. ActiveIsUnused' /\ OneRefreshToken' /\ CachedCode' /\ LatestIsHeld'
    BY <1>12, <2>3, ZenonT(60) DEF ActiveIsUnused, OneRefreshToken, CachedCode, LatestIsHeld, NoTokens, Stored
  <2> QED
    BY <1>8, <1>9, <1>10, <2>1, <2>2, <2>4 DEF Inv
<1>13. CASE ~(RequestsMayFail /\ store' = store)
  <2> DEFINE a == NewSecret(Access(0), request.since, 0)
             r == NewSecret(Refresh(0), request.since, 0)
  <2>1. /\ DOMAIN store \subseteq DOMAIN store'
        /\ DOMAIN store' \subseteq DOMAIN store \cup {Access(0), Refresh(0)}
        /\ \A n \in DOMAIN store : n # Authcode => store'[n] = store[n]
        /\ store'[Authcode] = [store[Authcode] EXCEPT !.active = FALSE]
        /\ Access(0) \in DOMAIN store' => store'[Access(0)] = a
        /\ Refresh(0) \in DOMAIN store' => offlineAccess /\ Access(0) \in DOMAIN store' /\ store'[Refresh(0)] = r
        /\ ~RequestsMayFail => IF offlineAccess THEN Refresh(0) \in DOMAIN store'
                               ELSE Access(0) \in DOMAIN store'
    BY <1>13, AfterRedeem
  <2>2. /\ a \in Secrets /\ r \in Secrets
        /\ a.garbageCollectAfter = now + RefreshTokenLifespan + AccessTokenLifespan
        /\ r.garbageCollectAfter = now + RefreshTokenLifespan + AccessTokenLifespan
        /\ r.expires = request.since + RefreshTokenLifespan
        /\ a.upstream = 0 /\ r.upstream = 0
    BY <1>4, <1>5, NewTokenFields, ZenonT(60)
  <2> HIDE DEF a, r
  <2>3. /\ Authcode \in DOMAIN store /\ store'[Authcode] \in Secrets /\ store'[Authcode].active = FALSE
        /\ store'[Authcode].garbageCollectAfter = store[Authcode].garbageCollectAfter
        /\ store'[Authcode].expires = store[Authcode].expires
        /\ store'[Authcode].upstream = store[Authcode].upstream
    <3>1. Authcode \in DOMAIN store /\ store[Authcode] \in Secrets
      BY <1>4 DEF CodeActive, Stored, TypeOK
    <3> QED
      BY <2>1, <3>1, ZenonT(60) DEF Secrets
  <2>4. \A g \in Generations : /\ Access(g) \in DOMAIN store' => g = 0
                               /\ Refresh(g) \in DOMAIN store' => g = 0
    BY <1>4, <1>5, <2>1, NamesDiffer DEF NoTokens
  <2>5. \A n \in DOMAIN store' : n \in {Authcode, Access(0), Refresh(0)} \/ (n \in DOMAIN store /\ store'[n] = store[n])
    BY <2>1
  <2>6. TypeOK'
    <3>1. DOMAIN store' \subseteq Names
      BY <1>4, <1>5, <2>1, NamesDiffer DEF TypeOK
    <3>2. \A n \in DOMAIN store' : store'[n] \in Secrets
      BY <1>4, <2>1, <2>2, <2>3, <2>5 DEF TypeOK
    <3> QED
      BY <1>11, <3>1, <3>2
  <2>7. CopiesOK(store)'
    <3>1. \A n \in DOMAIN store' : store'[n].upstream \in Generations
      <4>1. \A n \in DOMAIN store : store[n].upstream \in Generations
        BY ZenonT(60) DEF Inv, CopiesOK
      <4> QED
        BY <1>5, <2>1, <2>2, <2>3, <2>5, <4>1, ZenonT(60)
    <3>2. /\ Authcode \in DOMAIN store' =>
               /\ store'[Authcode].garbageCollectAfter = AuthorizationCodeSessionStorageLifetime
               /\ store'[Authcode].expires = AuthorizeCodeLifespan /\ store'[Authcode].upstream = 0
          /\ OIDC \in DOMAIN store' => store'[OIDC].garbageCollectAfter = OIDCSessionStorageLifetime
      BY <1>5, <2>1, <2>3, NamesDiffer DEF Inv, CopiesOK
    <3>3. ASSUME NEW g \in Generations
          PROVE  /\ Access(g) \in DOMAIN store' => offlineAccess \/ store'[Access(g)].upstream = 0
                 /\ Refresh(g) \in DOMAIN store' =>
                      /\ offlineAccess
                      /\ store'[Refresh(g)].expires + AccessTokenLifespan <= store'[Refresh(g)].garbageCollectAfter
      BY <1>5, <2>1, <2>2, <2>4, ConstantsAreNat
    <3> QED
      BY <1>1, <3>1, <3>2, <3>3, ZenonT(60) DEF CopiesOK
  <2>8. ~CodeActive'
    BY <2>3 DEF CodeActive
  <2>9. ActiveIsUnused'
    BY <2>8 DEF ActiveIsUnused
  <2>10. KeptForItsTime'
    BY <1>1, <2>1 DEF Inv, KeptForItsTime, Stored
  <2>11. OneRefreshToken'
    BY <1>1, <1>4, <2>1, <2>2, <2>4 DEF OneRefreshToken, Stored
  <2>12. CachedCode'
    BY <1>3, <1>4, <1>5, <2>8, ConstantsAreNat DEF CachedCode
  <2>13. LatestIsHeld'
    BY <1>1, <1>5, <2>1 DEF LatestIsHeld, Stored
  <2> QED
    BY <1>8, <1>9, <1>10, <2>6, <2>7, <2>9, <2>10, <2>11, <2>12, <2>13 DEF Inv
<1> QED
  BY <1>12, <1>13

\* A refresh that finishes replaces the refresh token; the cache may still have the old one,
\* but not for longer than it may lag behind.
LEMMA FinishRefreshStep == ASSUME Inv, FinishRefresh PROVE Inv'
<1>1. /\ UNCHANGED <<now, offlineAccess, providerType, codeIsKnown>>
      /\ UNCHANGED <<latest, revoked, abandoned, reused, sweep, sinceSweep>>
      /\ request.grant = "refresh" /\ request' = Idle
  BY DEF FinishRefresh, Finish, session, upstream, collector
<1>2. PICK S : SetStore(S)
  BY DEF FinishRefresh, Finish
<1>3. /\ cache' = cache /\ staleSince' \in 0..MaxTime /\ staleSince' <= now
      /\ store # cache => staleSince' <= staleSince
      /\ store' # cache' => now <= staleSince' + MaxCacheLag
  BY <1>2, SetStoreIs DEF Inv
<1>4. PICK g \in Generations : /\ g < MaxRefreshes /\ request.name = Refresh(g) /\ Stored(Refresh(g))
                               /\ request.since <= store[Refresh(g)].expires /\ request.upstream = latest
  BY <1>1, ZenonT(60) DEF Inv, RequestOK
<1>5. /\ TypeOK /\ ~CodeActive /\ offlineAccess /\ latest \in Generations
      /\ \A h \in Generations : Stored(Refresh(h)) => h = g
  BY <1>1, <1>4, ZenonT(60) DEF Inv, ActiveIsUnused, CopiesOK, OneRefreshToken, Stored, TypeOK
<1>6. /\ request.since \in Nat /\ now \in Nat /\ request.since <= now /\ now <= request.since + MaxRequestTime
      /\ staleSince \in Nat /\ staleSince' \in Nat
  <2>1. staleSince' \in Nat
    BY <1>3, ConstantsAreNat
  <2> QED
    BY <1>1, <1>5, <2>1, Times, ZenonT(60) DEF Inv, ClocksOK
<1>7. Idle.grant = "none"
  BY IdleIs
<1>8. ~Dead
  BY <1>1, <1>7 DEF Dead
<1>9. SweepOK' /\ RevokedIsDead'
  BY <1>1, <1>8, SweepStays
<1>10. ClocksOK' /\ RequestOK' /\ NoOfflineAccess'
  <2>1. ClocksOK'
    BY <1>1, <1>3, <1>7, ZenonT(60) DEF Inv, ClocksOK
  <2>2. RequestOK' /\ NoOfflineAccess'
    BY <1>1, <1>5, <1>7, ZenonT(60) DEF RequestOK, NoOfflineAccess, Idle
  <2> QED
    BY <2>1, <2>2
<1>11. CopiesOK(cache)' /\ CopiesOK(sweep.todo)'
  BY <1>1, <1>3, CopiesStay, ZenonT(60)
<1>12. ASSUME DOMAIN store' \subseteq Names, \A n \in DOMAIN store' : store'[n] \in Secrets PROVE TypeOK'
  BY <1>1, <1>3, <1>5, <1>12, IdleIs, ZenonT(60) DEF TypeOK
<1>13. ASSUME ~CodeActive' PROVE ActiveIsUnused' /\ CachedCode'
  <2>1. ASSUME Authcode \in DOMAIN cache, cache[Authcode].active
        PROVE  staleSince' <= AuthorizeCodeLifespan + MaxRequestTime
    <3>1. staleSince <= AuthorizeCodeLifespan + MaxRequestTime
      BY <1>1, <2>1 DEF Inv, CachedCode
    <3>2. store # cache
      BY <1>5, <2>1 DEF CodeActive, Stored
    <3> QED
      BY <1>3, <1>6, <3>1, <3>2, ConstantsAreNat
  <2> QED
    BY <1>3, <1>13, <2>1 DEF ActiveIsUnused, CachedCode
<1>14. ASSUME NEW h \in Generations, Refresh(h) \in DOMAIN cache, h # g
       PROVE  g > h /\ staleSince' <= cache[Refresh(h)].expires + MaxRequestTime
  <2>1. g > h /\ staleSince <= cache[Refresh(h)].expires + MaxRequestTime
    BY <1>4, <1>14, ZenonT(60) DEF Inv, CachedRefreshToken
  <2>2. store # cache
    BY <1>5, <1>14 DEF Stored
  <2>3. cache[Refresh(h)].expires \in Nat
    BY <1>5, <1>14 DEF TypeOK, Secrets
  <2> QED
    BY <1>3, <1>6, <2>1, <2>2, <2>3, ConstantsAreNat
<1>15. Refresh(g) \in DOMAIN cache => store[Refresh(g)] = cache[Refresh(g)]
  <2>1. ~(g > g)
    BY DEF Generations
  <2> QED
    BY <1>4, <2>1, ZenonT(60) DEF Inv, CachedRefreshToken
<1>16. CASE RequestsMayFail /\ store' = store
  <2>1. TypeOK'
    BY <1>5, <1>12, <1>16, ZenonT(60) DEF TypeOK
  <2>2. CopiesOK(store)' /\ KeptForItsTime' /\ OneRefreshToken' /\ LatestIsHeld'
    BY <1>1, <1>16, ZenonT(60) DEF Inv, CopiesOK, KeptForItsTime, OneRefreshToken, LatestIsHeld, Stored
  <2>3. ActiveIsUnused' /\ CachedCode'
    BY <1>5, <1>13, <1>16 DEF CodeActive, Stored
  <2>4. CachedRefreshToken'
    BY <1>3, <1>5, <1>14, <1>15, <1>16 DEF CachedRefreshToken, Stored
  <2> QED
    BY <1>9, <1>10, <1>11, <2>1, <2>2, <2>3, <2>4 DEF Inv
<1>17. ASSUME ~(RequestsMayFail /\ store' = store), NEW next, next = g + 1 PROVE Inv'
  <2> DEFINE a == NewSecret(Access(next), request.since, latest)
             r == NewSecret(Refresh(next), request.since, latest)
             Superseded == /\ \A h \in Generations : Refresh(h) \in DOMAIN store' => h = next
                           /\ Refresh(next) \in DOMAIN store' =>
                                Access(next) \in DOMAIN store' /\ store'[Refresh(next)] = r
  <2>1. /\ next \in Generations
        /\ DOMAIN store' \subseteq DOMAIN store \cup {Access(next), Refresh(next)}
        /\ \A n \in DOMAIN store' : n \in {Access(next), Refresh(next)} \/ store'[n] = store[n]
        /\ \A n \in {Authcode, OIDC} : n \in DOMAIN store => n \in DOMAIN store'
        /\ \A h \in Generations : Access(h) \in DOMAIN store' => h = next
        /\ Access(next) \in DOMAIN store' => store'[Access(next)] = a
        /\ (RequestsMayFail /\ Refresh(next) \notin DOMAIN store') \/ Superseded
        /\ ~RequestsMayFail => Refresh(next) \in DOMAIN store'
    BY <1>4, <1>17, AfterRefresh, ZenonT(60)
  <2>2. /\ a \in Secrets /\ r \in Secrets
        /\ a.garbageCollectAfter = now + RefreshTokenLifespan + AccessTokenLifespan
        /\ r.garbageCollectAfter = now + RefreshTokenLifespan + AccessTokenLifespan
        /\ r.expires = request.since + RefreshTokenLifespan
        /\ a.upstream = latest /\ r.upstream = latest
    BY <1>5, <2>1, NewTokenFields, ZenonT(60)
  <2> HIDE DEF a, r
  <2>3. /\ \A n \in DOMAIN store' : \/ n \in DOMAIN store /\ store'[n] = store[n]
                                    \/ n = Access(next) /\ store'[n] = a
                                    \/ n = Refresh(next) /\ store'[n] = r
        /\ \A n \in {Authcode, OIDC} : n \in DOMAIN store' => n \in DOMAIN store /\ store'[n] = store[n]
    <3>1. Refresh(next) \in DOMAIN store' => store'[Refresh(next)] = r
      BY <2>1, ZenonT(60)
    <3>2. \A n \in {Authcode, OIDC} : n \notin {Access(next), Refresh(next)}
      BY <2>1, NamesDiffer, ZenonT(60)
    <3> QED
      BY <2>1, <3>1, <3>2, ZenonT(60)
  <2>4. TypeOK'
    <3>1. DOMAIN store' \subseteq Names
      BY <1>5, <2>1, NamesDiffer, ZenonT(60) DEF TypeOK
    <3>2. \A n \in DOMAIN store' : store'[n] \in Secrets
      BY <1>5, <2>2, <2>3, ZenonT(60) DEF TypeOK
    <3> QED
      BY <1>12, <3>1, <3>2
  <2>5. ~CodeActive'
    BY <1>5, <2>3, ZenonT(60) DEF CodeActive, Stored
  <2>6. ActiveIsUnused' /\ CachedCode'
    BY <1>13, <2>5
  <2>7. KeptForItsTime'
    BY <1>1, <2>1, ZenonT(60) DEF Inv, KeptForItsTime, Stored
  <2>8. LatestIsHeld'
    BY <1>1, <1>5, <2>1, ZenonT(60) DEF LatestIsHeld, Stored
  <2>9. \A h \in Generations : Refresh(h) \in DOMAIN store' => h = next \/ (RequestsMayFail /\ h = g)
    BY <1>5, <2>1, NamesDiffer, ZenonT(60) DEF Stored
  <2>10. CopiesOK(store)'
    <3>1. \A n \in DOMAIN store' : store'[n].upstream \in Generations
      BY <1>5, <2>2, <2>3, ZenonT(60) DEF Inv, CopiesOK
    <3>2. /\ Authcode \in DOMAIN store' =>
               /\ store'[Authcode].garbageCollectAfter = AuthorizationCodeSessionStorageLifetime
               /\ store'[Authcode].expires = AuthorizeCodeLifespan /\ store'[Authcode].upstream = 0
          /\ OIDC \in DOMAIN store' => store'[OIDC].garbageCollectAfter = OIDCSessionStorageLifetime
      BY <2>3, ZenonT(60) DEF Inv, CopiesOK
    <3>3. ASSUME NEW h \in Generations, Refresh(h) \in DOMAIN store'
          PROVE  store'[Refresh(h)].expires + AccessTokenLifespan <= store'[Refresh(h)].garbageCollectAfter
      <4>1. CASE Refresh(h) \in DOMAIN store /\ store'[Refresh(h)] = store[Refresh(h)]
        BY <3>3, <4>1, ZenonT(60) DEF Inv, CopiesOK
      <4>2. CASE store'[Refresh(h)] = r
        <5>1. /\ r.expires + AccessTokenLifespan = (request.since + RefreshTokenLifespan) + AccessTokenLifespan
              /\ r.garbageCollectAfter = (now + RefreshTokenLifespan) + AccessTokenLifespan
          BY <2>2, ZenonT(60)
        <5>2. (request.since + RefreshTokenLifespan) + AccessTokenLifespan
                <= (now + RefreshTokenLifespan) + AccessTokenLifespan
          BY <1>6, ConstantsAreNat, Earlier, ZenonT(60)
        <5> QED
          BY <4>2, <5>1, <5>2, ZenonT(60)
      <4> QED
        BY <2>1, <2>3, <3>3, <4>1, <4>2, NamesDiffer, ZenonT(60)
    <3> QED
      BY <1>1, <1>5, <3>1, <3>2, <3>3, ZenonT(60) DEF CopiesOK
  <2>11. OneRefreshToken'
    <3>1. CASE RequestsMayFail /\ Refresh(next) \notin DOMAIN store'
      BY <2>9, <3>1 DEF OneRefreshToken, Stored
    <3>2. CASE Superseded
      BY <1>1, <2>1, <2>2, <3>2, ZenonT(60) DEF OneRefreshToken, Stored
    <3> QED
      BY <2>1, <3>1, <3>2, ZenonT(60)
  <2>12. CachedRefreshToken'
    <3> SUFFICES ASSUME NEW h \in Generations, Refresh(h) \in DOMAIN cache
                 PROVE  \/ /\ RequestsMayFail
                           /\ \A k \in Generations : Stored(Refresh(k))' => k = h /\ store'[Refresh(h)] = cache[Refresh(h)]
                        \/ /\ \A k \in Generations : Stored(Refresh(k))' => k > h
                           /\ staleSince' <= cache[Refresh(h)].expires + MaxRequestTime
      BY <1>1, <1>3, ZenonT(60) DEF CachedRefreshToken
    <3>1. g \in Int /\ h \in Int /\ next = g + 1
      BY <1>17 DEF Generations
    <3>2. CASE h # g
      <4>1. g > h /\ staleSince' <= cache[Refresh(h)].expires + MaxRequestTime
        BY <1>14, <3>2, ZenonT(60)
      <4>2. next > h
        BY <3>1, <4>1
      <4>3. \A k \in Generations : Stored(Refresh(k))' => k = next \/ k = g
        BY <2>9, ZenonT(60) DEF Stored
      <4>4. \A k \in Generations : Stored(Refresh(k))' => k > h
        BY <4>1, <4>2, <4>3, ZenonT(60)
      <4> QED
        BY <4>1, <4>4, ZenonT(60)
    <3>3. CASE h = g /\ Superseded
      <4>1. cache[Refresh(g)].expires = store[Refresh(g)].expires /\ store[Refresh(g)].expires \in Nat
        BY <1>4, <1>5, <1>15, <3>3, Times, ZenonT(60) DEF Stored
      <4>2. staleSince' <= cache[Refresh(g)].expires + MaxRequestTime
        <5>1. request.since <= store[Refresh(g)].expires
          BY <1>4
        <5>2. staleSince' <= now
          BY <1>3
        <5> QED
          BY <1>6, <4>1, <5>1, <5>2, ConstantsAreNat
      <4>3. next > h
        BY <3>1, <3>3
      <4>4. \A k \in Generations : Stored(Refresh(k))' => k > h
        BY <3>3, <4>3, ZenonT(60) DEF Stored
      <4> QED
        BY <3>3, <4>2, <4>4, ZenonT(60)
    <3>4. CASE h = g /\ RequestsMayFail /\ Refresh(next) \notin DOMAIN store'
      <4>1. \A k \in Generations : Stored(Refresh(k))' => k = g
        BY <2>9, <3>4 DEF Stored
      <4>2. Stored(Refresh(g))' => store'[Refresh(g)] = store[Refresh(g)]
        BY <2>1, <2>3, <3>4, NamesDiffer, ZenonT(60) DEF Stored
      <4> QED
        BY <1>15, <3>4, <4>1, <4>2
    <3> QED
      BY <2>1, <3>2, <3>3, <3>4, ZenonT(60)
  <2> QED
    BY <1>9, <1>10, <1>11, <2>4, <2>6, <2>7, <2>8, <2>10, <2>11, <2>12 DEF Inv
<1> QED
  BY <1>16, <1>17

-----------------------------------------------------------------------------
(* The theorems.                                                           *)

\* Every step of a token request, of the informer, of the garbage collector and of time keeps the invariant.
LEMMA InvNext == Inv /\ [Next]_vars => Inv'
<1> SUFFICES ASSUME Inv, [Next]_vars PROVE Inv'
  OBVIOUS
<1>1. CASE TokenRequest
  BY <1>1, BeginRedeemStep, FinishRedeemStep, RejectRedeemStep, FinishRefreshStep, BeginRefreshStep,
    ReuseCodeStep DEF TokenRequest
<1>2. CASE InformerCatchesUp
  BY <1>2, InformerStep
<1>3. CASE StartSweep
  BY <1>3, StartSweepStep
<1>4. CASE Sweep
  BY <1>4, SweepSecretStep, SweepDeleteStep DEF Sweep
<1>5. CASE Tick
  BY <1>5, TickStep
<1>6. CASE UNCHANGED vars
  <2>1. /\ UNCHANGED <<now, offlineAccess, providerType, codeIsKnown>> /\ UNCHANGED <<store, cache, staleSince, request>>
        /\ UNCHANGED <<latest, revoked, abandoned, reused, sweep, sinceSweep>>
    BY <1>6 DEF vars, session, upstream, collector
  <2>2. TypeOK' /\ ClocksOK'
    BY <2>1, ZenonT(60) DEF Inv, TypeOK, ClocksOK
  <2>3. CopiesOK(store)' /\ CopiesOK(cache)' /\ CopiesOK(sweep.todo)'
    BY <2>1, CopiesStay
  <2>4. ActiveIsUnused' /\ RequestOK' /\ NoOfflineAccess' /\ CachedCode' /\ CachedRefreshToken'
    BY <2>1, SessionStays
  <2>5. KeptForItsTime' /\ OneRefreshToken' /\ LatestIsHeld'
    BY <2>1, ZenonT(60) DEF Inv, KeptForItsTime, OneRefreshToken, LatestIsHeld, CodeActive, Stored
  <2>6. Dead => Dead'
    BY <2>1, ZenonT(60) DEF Dead, Usable, Valid, Stored, Idle
  <2>7. SweepOK' /\ RevokedIsDead'
    BY <2>1, <2>6, SweepStays
  <2> QED
    BY <2>2, <2>3, <2>4, <2>5, <2>7 DEF Inv
<1> QED
  BY <1>1, <1>2, <1>3, <1>4, <1>5, <1>6 DEF Next

\* The invariant holds, whatever the lifespans, the margins and the number of refreshes.
THEOREM InvAlways == Spec => []Inv
  BY InvInit, InvNext, PTL DEF Spec

\* The session's state keeps its shape: every copy of a Secret is one, and a sweep only has
\* Secrets that expired before the sweep's frozen time (garbageCollectorController.Sync).
THEOREM TypeCorrect == Spec => []TypeOK
<1>1. Inv => TypeOK
  BY DEF Inv
<1> QED
  BY <1>1, InvAlways, PTL

\* The garbage collector never revokes the upstream token under a session that can go on or
\* that a request is being handled for (tryRevokeUpstreamOIDCToken), also when token requests
\* fail midway.
THEOREM LiveSessionsKeepTheirToken == Spec => []NoLiveSessionRevoked
<1>1. Inv => NoLiveSessionRevoked
  <2> SUFFICES ASSUME Inv, ~Dead PROVE NoLiveSessionRevoked
    BY DEF Dead, NoLiveSessionRevoked
  <2> QED
    BY LiveIsUnswept DEF NoLiveSessionRevoked
<1> QED
  BY <1>1, InvAlways, PTL

\* Only the latest upstream token of a session is revoked or given up on, if no token request
\* fails midway (maybeRevokeUpstreamOIDCToken).
THEOREM LatestIsRevoked == Spec => []OnlyLatestRevoked
<1>1. Inv => OnlyLatestRevoked
  BY DEF Inv, RevokedIsDead, OnlyLatestRevoked
<1> QED
  BY <1>1, InvAlways, PTL

\* A session whose last Secret was collected left no upstream token behind that the collector
\* did not revoke or give up on, if no token request fails midway and the code was not presented
\* again after its use.
THEOREM NothingLeftBehind == Spec => []LatestRevokedAtTheEnd
<1>1. Inv => LatestRevokedAtTheEnd
  <2> SUFFICES ASSUME Inv, ~RequestsMayFail, ~reused, providerType = "oidc", store = <<>>
               PROVE  latest \in revoked \cup abandoned
    BY DEF LatestRevokedAtTheEnd
  <2>1. DOMAIN store = {}
    OBVIOUS
  <2> QED
    BY <2>1, ZenonT(60) DEF Inv, LatestIsHeld, CodeActive, Stored
<1> QED
  BY <1>1, InvAlways, PTL

\* The access token session that a refresh deletes is stored for as long as the refresh token
\* is valid and a refresh is being handled (RevokeAccessToken in fosite's refresh flow).
THEOREM RefreshHasAccessToken == Spec => []RefreshFindsAccessToken
<1>1. Inv => RefreshFindsAccessToken
  <2> SUFFICES ASSUME Inv, ~RequestsMayFail,
                      request.grant = "refresh" \/ \E g \in Generations : Valid(Refresh(g))
               PROVE  Tokens("access-token") # {}
    BY DEF RefreshFindsAccessToken
  <2>1. PICK g \in Generations : /\ Stored(Refresh(g)) /\ store[Refresh(g)] \in Secrets /\ now \in Nat
                                 /\ now <= store[Refresh(g)].expires + MaxRequestTime
    <3>1. TypeOK /\ now \in Nat /\ request.since \in Nat
      BY Times DEF Inv
    <3>2. CASE request.grant = "refresh"
      <4>1. PICK g \in Generations : Stored(Refresh(g)) /\ request.since <= store[Refresh(g)].expires
        BY <3>2 DEF Inv, RequestOK
      <4>2. store[Refresh(g)] \in Secrets
        BY <3>1, <4>1, ZenonT(60) DEF TypeOK, Stored
      <4>3. now <= request.since + MaxRequestTime
        BY <3>2, ZenonT(60) DEF Inv, ClocksOK
      <4>4. store[Refresh(g)].expires \in Nat
        BY <3>1, <4>1, Times DEF Stored
      <4>5. now <= store[Refresh(g)].expires + MaxRequestTime
        BY <3>1, <4>1, <4>3, <4>4, ConstantsAreNat
      <4> QED
        BY <3>1, <4>1, <4>2, <4>5
    <3>3. ASSUME NEW g \in Generations, Valid(Refresh(g))
          PROVE  /\ Stored(Refresh(g)) /\ store[Refresh(g)] \in Secrets
                 /\ now <= store[Refresh(g)].expires + MaxRequestTime
      <4>1. Refresh(g) \in DOMAIN store /\ now <= store[Refresh(g)].expires
        BY <3>3 DEF Valid, Stored
      <4>2. store[Refresh(g)] \in Secrets
        BY <3>1, <4>1, ZenonT(60) DEF TypeOK
      <4>3. store[Refresh(g)].expires \in Nat
        BY <3>1, <4>1, Times
      <4> QED
        <5>1. now <= store[Refresh(g)].expires + MaxRequestTime
          BY <3>1, <4>1, <4>3, ConstantsAreNat
        <5> QED
          BY <4>1, <4>2, <5>1 DEF Stored
    <3> QED
      BY <3>1, <3>2, <3>3, ZenonT(60)
  <2>2. ~(now > store[Refresh(g)].garbageCollectAfter)
    <3>1. store[Refresh(g)].expires + AccessTokenLifespan <= store[Refresh(g)].garbageCollectAfter
      BY <2>1, ZenonT(60) DEF Inv, CopiesOK, Stored
    <3>2. store[Refresh(g)].expires \in Nat /\ store[Refresh(g)].garbageCollectAfter \in Nat
      BY <2>1, ZenonT(60) DEF Secrets
    <3>3. MaxRequestTime + MaxCacheLag <= AccessTokenLifespan
      BY MarginAssumption
    <3>4. now \in Nat /\ now <= store[Refresh(g)].expires + MaxRequestTime
      BY <2>1, ZenonT(60)
    <3> QED
      BY <3>1, <3>2, <3>3, <3>4, ConstantsAreNat
  <2>3. Stored(Access(g))
    BY <2>1, <2>2, ZenonT(60) DEF Inv, OneRefreshToken
  <2>4. Access(g)[1] = "access-token"
    BY DEF Access
  <2> QED
    BY <2>3, <2>4, ZenonT(60) DEF Tokens, Stored
<1> QED
  BY <1>1, InvAlways, PTL

\* The collector takes neither the code nor the OIDC session from under a redemption that is
\* being handled (DefaultOIDCTimeoutsConfiguration's storage lifetimes).
THEOREM RedemptionHasSession == Spec => []RedemptionFindsSession
<1>1. Inv => RedemptionFindsSession
  <2> SUFFICES ASSUME Inv, request.grant = "redeem" PROVE Stored(Authcode) /\ Stored(OIDC)
    BY DEF RedemptionFindsSession
  <2>1. CodeActive /\ codeIsKnown /\ request.since <= AuthorizeCodeLifespan
    BY DEF Inv, RequestOK
  <2>2. ~(now > OIDCSessionStorageLifetime)
    <3>1. now \in Nat /\ request.since \in Nat /\ now <= request.since + MaxRequestTime
      BY Times DEF Inv, ClocksOK
    <3> QED
      BY <2>1, <3>1, ConstantsAreNat, MarginAssumption DEF OIDCSessionStorageLifetime
  <2> QED
    BY <2>1, <2>2 DEF Inv, KeptForItsTime, CodeActive
<1> QED
  BY <1>1, InvAlways, PTL
=============================================================================
