# Pinniped in TLA+

Specifications of the parts of Pinniped in which concurrency, time and partial
failure decide whether they are correct: sessions of the Supervisor and their
storage, garbage collection, leader election, the controllers that hand keys and
issuers to the request handlers, the authenticator cache and the impersonation
proxy's controller of the Concierge, and the login command of the CLI. TLC checks
them on small instances. TLAPS proves every safety property of the passing runs for
every instance, and that two of the parts implement an abstract specification.
Liveness is checked by TLC only.

Definitions keep the names of the Go code where possible. `PROJECT.json` maps
every definition to the lines it models, and lists runs, hazards and theorems.

## 1. The system

### Parts

| Part | State | Operations | What is hard | Module |
|---|---|---|---|---|
| Token endpoint and session storage (`oidc/token`, `oidc/kube_storage.go`, `fositestorage/*`, `crud`) | one Secret per code, PKCE, OIDC, access token and refresh token session | redeem a code, refresh, detect a reused code | many API calls per request and no transaction; several pods; any call may fail | `TokenEndpoint`, `SessionGrant` |
| Session lifetimes, garbage collector (`oidc/oidc.go`, `supervisorstorage`) | `garbage-collect-after` of the Secrets, the informer's copy, the upstream token | sweep, revoke upstream, delete | the copy is old; requests overlap with expiry; revocation fails | `SessionLifecycle` |
| Leader election (`leaderelection`, `controllerinit`) | the Lease, `isLeaderTracker` | acquire, renew, release, write | clocks, lost answers, crashes, order of release and status | `LeaderElection`, `WriterLock` |
| Keys of issuers (`supervisorconfig/generator`, `secret`) | Secrets, `secret.Cache` | create, repair, cache | pods race to create; non-atomic cache; late informers | `IssuerSecrets` |
| FederationDomains (`federation_domain_watcher.go`, `tls_cert_observer.go`, `oidc/provider`) | the resources and their status, `Manager.providers`, certificates by host | judge, write status, `SetProviders` | old lists, other writers of the same status, followers that may not write | `FederationDomains` |
| Authenticator cache (`controller/authenticator/*`) | `authncache.Cache` | fill, close, clean | three controllers on one map | `AuthenticatorCache` |
| JWKS writer and observer, CSRF key | Secrets, caches | create, cache | as for the keys of issuers | planned |
| Impersonator controller (`impersonatorconfig`, `issuerconfig`) | proxy, Services, Secrets, CredentialIssuer | start, stop, create, delete, publish | a Sync of many calls that fails in the middle; late informers; a server that dies | `ImpersonatorConfig` |
| CLI login (`cmd/pinniped`, `pkg/oidcclient`, `execcredcache`) | files with sessions and credentials, the callback channel | read, refresh, log in, write | processes that share files; goroutines that share a channel | `CLILogin` |
| API certificates (`apicerts`, `dynamiccert`) | Secret, APIService, dynamic certificate | create, expire, observe | rotation seen by pods at different times | the signer's rotation in `ImpersonatorConfig`; the rest planned |
| Kube cert agent (`kubecertagent`) | Deployment, signing key | create, read key | several pods of old and new Deployments | planned |
| Upstream watchers, OIDC clients and their secrets | conditions, caches, secret hashes | validate, rotate | cached validations, concurrent rotations | planned |
| Authorize, callback, login | state parameter, CSRF cookie | browser flows | order of steps across tabs and pods | planned |
| Controller library (`controllerlib`) | work queues | run, retry | start order, shutdown | part of the controllers' modules; planned |
| Impersonation proxy server, local user authenticator, configuration, logging, certificate helpers, generated code | none that outlives a request | | | not modelled: single requests, I/O or library computation |

### Interactions

The browser flows end by storing a session. The token endpoint reads and
replaces its Secrets, and the garbage collector deletes them when the lifetimes
are over, from its own copy. Tokens are signed with the keys that
`IssuerSecrets` describes, under the issuers that `FederationDomains` serves.
All controllers run in every pod and read freely; their writes pass the
middleware of `LeaderElection`. In the modules of controllers that means: a
write may fail in any pod at any time, and the leader's succeeds in the end. In
`FederationDomains` and `ImpersonatorConfig` the lead changes hands; all writes
of a pod that does not lead fail, and the other pods appear as one leader whose
informers are up to date. Request handlers do not use the middleware, so that
`TokenEndpoint` knows no leader. The provider of `CLILogin` is the Supervisor as
`SessionGrant` describes it: a refresh token is used once.

## 2. Modules, state and actions

Every module has its variables and their code counterparts in its header. A
step is what the code does without another actor being able to see the middle:
one API call, one operation of a `sync.Map`, or a whole method under a lock.
Optimistic concurrency is kept as a flag "nobody wrote since I read" (`fresh`,
`seen`), which is what a resource version decides.

**TokenEndpoint.** One session, any number of requests. Each action is one
storage call of a request, in the order that fosite makes them. `Abort` is any
failure, a crash included, at any point. One failure does not end a request: when
a used code is presented, fosite goes on after the revocation of one kind of token
has failed (`RevocationError`, remembered in `apiErrors`). Secrets of tokens are named after the
request that creates them; `upstreamIn` and `upstreamLast` say which upstream
token a session holds and which is the last one issued.

**SessionGrant.** What `TokenEndpoint` promises without its storage: the right to
the session's refresh token is one thing, which is in the code, with one request,
or in one token, and may be lost. The refinement (`ImplementsGrant`) takes as
`minting` the request that has invalidated the code, or deleted the old refresh
token, and has not created its own yet.

**SessionLifecycle.** One session over time. Token requests are two steps, the
lookup and the writes, at most `MaxRequestTime` apart (a prefix of the writes
happens if `RequestsMayFail`). A code that is presented again after its use
(`ReuseCode`) has the session's tokens deleted, however old it is, and revokes
nothing upstream. The collector's sweep has one step for each Secret
and each deletion. Lifetimes are computed as in
`DefaultOIDCTimeoutsConfiguration`. `MaxTime` stands for that time and all later
ones.

**LeaderElection.** Ages instead of clocks. client-go's elector is external and
modelled by the calls it makes on the lock; `BeforeRelease`, `Release`,
`ControllersStop`, `NewElector` and the middleware are the repository's code.
`isLeader` is what the middleware asks before a write. The writes themselves, and the
return of the workers that a shutdown waits for, are not steps of the model.
Durations are parameters; `LeaseAssumption` is what the code's 137, 107 and 26
seconds satisfy if the API server answers within four seconds.

**WriterLock.** The lock that the controllers rely on: it changes hands only while
nobody may write, and only its holder may begin to. The refinement
(`ImplementsLock`) takes the holder from the Lease at the API server and the
writers from the status in each pod's memory.

**IssuerSecrets.** For each pod and use of a key a controller, from the
informers to the Secret, the cell of `secret.Cache` and the status. A cell is
identified by who made it, which tells lost cells from current ones.
`Readers` are requests that look into the cache before a controller did. `Starts`
are the clusters to begin with: which pods run, which FederationDomains and Secrets
there are, which of the Secrets lack their key, and how many changes are left.

**FederationDomains.** For each pod the watcher, call by call, and the TLS
observer. A spec is what the code tells apart of an issuer URL: does it parse, is
it valid, its key among duplicates, its host, its TLS Secret. `OtherStatusWriter`
are the controllers that write the same status, `OtherPodUpdates` the watcher of
another pod that leads.

**AuthenticatorCache.** The two fillers and the cleaner; each `Get`, `Store` and
`Delete` on the cache is a step. An entry is the spec it was built from and
whether it was closed.

**CLILogin.** Processes started with the same arguments. A use of the session file
is three steps: `Enter` locks and reads, `Truncate` empties the file (the open in
`os.WriteFile`), `Leave` writes and unlocks. A process that dies, or whose write
fails, after `Truncate` leaves a torn file; one that fails before leaves the file as
it was. A file that cannot be read is taken for an empty one, and a lock that cannot
be had skips the use. `live` are the refresh tokens that the provider would accept,
`lost` those whose replacement never reached the file. A browser login has its three
actors: the listener (`Callback`), the prompt's goroutine and the receiver of the
channel, whose buffer of two is kept.

**ImpersonatorConfig.** One pod's Sync, place by place; each place makes at most
one call. An object is its content, with a flag `stale` while the informer has an
older one, which is what a precondition on the resource version decides. A
certificate is the CA that signed it and the name it is for; CAs are numbered in
the order they were made. A Service keeps its annotations and the record of those
that came from the spec. A call is refused, fails (`CallFails`), or is carried out
and its answer may be lost (`CallUnanswered`). `OtherPodCalls` and `OtherPodPublishes` are the leader's
controller when this pod does not lead. The server is what the pod runs, `handle`
what the controller remembers of it.

`MC*` modules add symmetry sets and values for `.cfg` files. Definitions whose
names begin with `Mut` are faulty variants of the definition that follows them,
one or more for each property, used to show that the property can fail.

## 3. Runs

| Run | Shows | Bounds |
|---|---|---|
| `token_safety` | one pair of tokens, one redemption, PKCE Secret implies unused code, reuse revokes all; the endpoint is a `SessionGrant` | four requests: two that race, one before and one after |
| `session_safety` | nothing is revoked or deleted under a session that can go on; only the latest upstream token is revoked, and it is revoked in the end unless the used code was presented again | one refresh, lifespans of 1 and 2, lag and request time of 1, time to 10, when all has expired and been retried |
| `session_live` | all Secrets go in the end | no refresh, failing requests and revocations |
| `leader` | one writer, and it holds the Lease; there is always a writer again; the election is a `WriterLock` | two pods, of which one crashes and shuts down at will; durations 4, 1, 1 and an answer's delay of 1: the least that satisfy the assumption with late answers |
| `issuer` | cached keys were stored, valid keys are never replaced; a controller at rest has written the status; domains that change issuers or lose their Secrets get their own keys; cells that a request or a controller dropped are filled again | three kinds of start: one pod, two domains, two issuers, a request and one change, where one domain has a Secret without a key and no status yet; and, with no further change, two pods that race to create the Secret of one domain, or to give a key to one that has lost it |
| `domains` | what is served is compatible; the status fields of others are kept; a pod rests only when it is done; right issuers and certificates in the end, whether the pod leads or follows | one pod and the other leader, two domains of one host, five specs, two TLS Secrets, one change |
| `authn_cache` | the cache follows the resources, and nothing built from an old spec stays when the filler rests; no open authenticator is lost | one resource of each kind, two specs, two changes |
| `cli_login` | a used refresh token stays in the session file only if its own replacement was lost; the prompt blocks only behind two callbacks; every login ends, except in that case and while the user does not enter a password | two processes, two callbacks, one ageing |
| `impersonator` | no server is forgotten, no untrue strategy is published, annotations of others stay, the controller rests only when it is done, and all follows the spec in the end | one pod and the other leader, six specs that cover the three modes and types of Service, one change, failure, lost answer, restart or change of leader |

Two of a kind are enough for the races in question: each is between a step of
one actor and the next conflicting step of another, and a third actor of the same
kind does what the second did. Where a third matters (a refresh after two that
raced) there is one. The largest runs, `impersonator` and `cli_login`, have some half a
million states each. `MaxChanges`, `MaxRefreshes`, `MaxPosts`, `MaxAge` and `MaxTime` bound what
the environment does, not what the code does in answer to it. Initial states
already contain resources, so that one change is enough to change, delete or
restore them. In `FederationDomains` and `ImpersonatorConfig` a failed call of the
leader counts as a change too; calls of a follower, and calls about objects that
are gone, fail as often as they are made. `ImpersonatorConfig` starts
with an empty cluster and this pod leading, or with everything installed by another
leader, or with this pod leading after a time without a leader: then the spec may
have changed since everything was installed (`Earlier` has the specs to begin with,
two whose load balancers differ in one annotation), and others may have annotated
the load balancer. From there one change is enough for an update to meet an
annotation of others, and for one that is added after the informer was read. `ControlPlane` is FALSE, where `auto` means enabled; with TRUE it means
disabled, which the other specs have as well.

Deadlock is not checked where the system may stop: when all requests were
answered (`TokenEndpoint`), when time is over and nothing is stored
(`SessionLifecycle`), or when controllers have nothing to do.

### Disagreements

Three runs show what a comment claims and the code does not do; `findings` in
`PROJECT.json` quotes the comments.

| Run | What happens |
|---|---|
| `token_latest_upstream` | A refresh fails after the provider rotated its token: storage keeps the old one. |
| `session_used_code` | A redemption fails after it invalidated the code, or the used code is presented again: the collector never revokes the upstream token. |
| `authn_deleted` | The last authenticator is deleted while it is being built: it stays in the cache. |

More things happen in the models that nobody may expect, and that no property
excludes (see `hazards`): a refresh that fails between its two
revocations leaves a refresh token that can never be used; a Secret that lost
its owner reference gets a new key at every Sync and stays invalid; a login of the
CLI does not return when two callbacks fill the channel's buffer and nobody
receives them, or while nobody enters a password (`LoginsEnd` names these as its
exceptions); the TLS Secret that
`ensureTLSSecretIsRemoved` deletes may be a newer one than the one that was judged,
since it reads the informer again; and the cache of authenticators may keep a JWT
authenticator that was closed: the filler closes the old one (jwtcachefiller.go:122),
fails to build the new one, and finds, once the old spec is back, that the one in the
cache was built from it (jwtcachefiller.go:118). `NothingStale` is therefore about
specs and not about being open.

## 4. Fairness

* Controllers: one worker takes keys from a queue that does not starve any (strong
  fairness of `Sync` for a key, weak fairness of the rest of a Sync). Errors queue
  the key again (`handleKey`), so that a call that is made again and again
  succeeds in the end. In `IssuerSecrets` that is said of the leader's Syncs and of each
  FederationDomain (success with one says nothing about another): they do not all fail
  from some time on. Other pods may fail for ever. The watcher of `FederationDomains` and
  the Sync of `ImpersonatorConfig` start over after a failure, so that one of their
  calls succeeding now and then would not be enough; there the leader's failures
  are among the bounded changes instead.
* Informers deliver changes in the end, and repeat what they know at every resync
  (`defaultResyncInterval`, three minutes). `FederationDomains` and
  `ImpersonatorConfig` do without resyncs; `IssuerSecrets` and `AuthenticatorCache` need them to repair what races
  have lost.
* The garbage collector starts again and again because of resyncs, and some
  deletion succeeds.
* `ImpersonatorConfig`: a server that was told to stop ends, the signer is made again
  after it was deleted, and the cloud gives a load balancer its address.
* `CLILogin`: every process goes on, unless it dies; the user may never answer, and
  then the time-out ends a login in the browser. The read of a password has no
  time-out.
* Leader election: time goes on, pods stop crashing, and of the API calls made
  again and again some succeed.

## 5. Proofs

| Module | Theorems | For every |
|---|---|---|
| `TokenEndpointProofs` | `TypeCorrect`, `OneTokenPair`, `OneRedemption`, `PKCEUnexchanged`, `ReuseRevokes`, `EndpointIsAGrant` | set of requests |
| `SessionLifecycleProofs` | `TypeCorrect`, `LiveSessionsKeepTheirToken`, `LatestIsRevoked`, `NothingLeftBehind`, `RefreshHasAccessToken`, `RedemptionHasSession` | lifespans, lags and numbers of refreshes |
| `LeaderElectionProofs` | `TypeCorrect`, `WriterIsHolder`, `OneWriter`, `ElectionIsALock` | set of pods, and durations with `LeaseAssumption` |
| `IssuerSecretsProofs` | `TypeCorrect`, `CachedWereStored`, `ValidKeyKept`, `RestMeansNamed` | sets of pods, domains, issuers, uses and keys |
| `FederationDomainsProofs` | `TypeCorrect`, `ServedTogether`, `StatusOfOthersStays`, `RestMeansDone` | sets of pods, specs and certificates, finite set of domains |
| `AuthenticatorCacheProofs` | `TypeCorrect`, `ReplacedWasClosed`, `RestMeansFresh` | sets of authenticators and specs |
| `CLILoginProofs` | `TypeCorrect`, `CachedTokenLives`, `OnlyCallbacksHang` | set of processes, numbers of callbacks |
| `ImpersonatorConfigProofs` | `TypeCorrect`, `OneServer`, `StrategyIsTrue`, `AnnotationsStay`, `RestMeansFits` | sets of specs, addresses and annotations |

All hold for every bound on changes. Each rests on an invariant `Inv` with
`Init => Inv` and `Inv /\ [Next]_vars => Inv'`, proved action by action
(`InvInit`, `InvNext`, `InvAlways`). Where a further invariant is needed it is
proved on top of `Inv`. The definitions of all of them are at the end of each
component's module, and were model-checked before they were proved.

*TokenEndpoint.* That there is one token pair says nothing about requests that
are about to create one. `Inv` follows the right to create a token like a baton:
from the active code to the request whose Update made it inactive, to the token
that it creates, and from a token to the request that deleted it. It holds
because a delete of what is gone is an error. `ReadVersion` explains why two
requests that both read an active code do not both invalidate it. `ReuseOK` is for
`ReuseRevokes`: while nothing overlaps the detection of a reused code, its lists
are complete, and what it has been through is gone unless that very revocation has
failed. `EndpointIsAGrant` shows, from `Inv`, that each storage call is a step
of `SessionGrant` or none. Assumptions: `Original` and `None` are not requests.

*SessionLifecycle.* The collector decides by a cached Secret that has expired. If
that Secret holds the upstream token, it was not used since: a use would have been
while it was valid, and the cache would have caught up before the storage expired
(`CachedCode`, `CachedRefreshToken`, `ClocksOK`). So the session is `Dead`, and it
stays so until the sweep has revoked (`SweepOK`, `RevokedIsDead`). `LatestIsHeld`
says where the latest token is found. Assumptions: `LifespanAssumption` and
`MarginAssumption`, which the code's minutes and hours satisfy with a wide margin;
the second is needed, since a cache that lags more than the margin would have the
collector revoke a token that is in use.

*LeaderElection.* `LeadersLease` bounds the age of the Lease of a leading pod by
the delay of the answer, the wait and the time spent in the round of renewals,
which `LeaseAssumption` keeps below `LeaseDuration`; `UpdateIsAllowed` says that
an Update that does not conflict takes a Lease that is free, its own, or of that
age. `StatusIsLeading` ties the status in memory to a leading elector; it needs
`MaxStartDelay < RenewDeadline`, or the goroutine of `OnStartedLeading` could set
the status after it was dropped. With it `ElectionIsALock` follows: an Update that
changes the holder finds no writer.

*IssuerSecrets.* `FreshIsInvalid`: an update that will not conflict is one of a
Secret that was found invalid and was not written since; hence valid keys stay.
`SecretsWereStored` and its companions follow a key from the cluster through the
informers and the workers into the cells. `KnownIsNamed` is what a controller at
rest keeps while its informer is behind; it needs that an informer never knows a
FederationDomain before there is one (`NewIsUnseen`).

*FederationDomains.* Of one list the watcher approves nothing with a rival, and a
pod serves, and a Sync collects, only what was approved of one list (`ApprovedOK`,
`ServedOK`). That the status of others is kept rests on `FreshOK`: the version that
`UpdateStatus` names is the one that was read. `RestMeansDone` needs `EventsOK`,
which says for each pod that a Sync which no event has overtaken has listed what the
informer knows, and what such a Sync has judged and collected up to its place.

*AuthenticatorCache.* The filler has closed the authenticator that it is about to
replace (`ReplacedIsClosed`), and nobody stores another meanwhile. `FreshOK`: for
each resource the key is queued, or the one worker builds from the present spec, or
the cache has nothing else; a change while it builds queues the key again.

*CLILogin.* Who may have seen a new refresh token (`UnseenOK`), and that GetToken,
which writes the file back, never writes back a used token that nobody is about to
replace (`CacheOK`, with the lock of `LockOK`, which also says that the file is torn
while a process writes it). A token whose replacement was lost stays in `lost`, token
by token, so that one failure excuses no other. `PromptOK` is for `OnlyCallbacksHang`:
the prompt's goroutine sends one message, so that two messages before it are
callbacks. Assumption: the token from before differs from all new ones.

*ImpersonatorConfig.* `ServerOK` ties the server to the controller's channels,
`SyncOK` and `ResultOK` say what each place of a Sync relies on. `RestMeansFits`
needs `WorkOK`: what a Sync has achieved in the places that it has passed, as long as
nothing queues another; either the informers know an object as it should be, or it
was written and an event will come. It needs that a Service's record of annotations
is true, which is part of its type.

The theorems named `RestMeans...` are the safety halves of the liveness properties:
a controller that has nothing to do has nothing left undone, so that no event and no
error is ever lost. That the controllers do come to rest is what fairness adds.

Only model-checked are the liveness properties, since fairness and `ENABLED` are
beyond the prover: `EverySecretCollected`, `AlwaysAWriterAgain`,
`CacheFollowsCluster`, `DeletedLeavesCacheIfOthersExist`, `CacheFollowsSecrets`,
`ServedFollowDomains`, `HostsGetTheirCerts`, `LoginsEnd` and `ProxyFollowsSpec`. For
the keys in `secret.Cache` there is no theorem about rest, because it would be
false: a cell that was dropped (cache.go:57) is filled again only by a resync.

## 6. What is left out

* Content: tokens, claims, URLs, certificates and keys are values that are equal
  or not. Cryptography and parsing are not modelled.
* fosite, client-go and the API server appear by what the code sees of them:
  order of storage calls, lock protocol, conflicts, events, resyncs.
* Sessions share no Secrets, so one is modelled at a time.
* In `TokenEndpoint` time does not pass; expiry is a failure of the request
  (`Abort`), and `SessionLifecycle` has the times.
* In `SessionLifecycle` one request runs at a time; `TokenEndpoint` has them
  overlap.
* The informer of a pod skips to the current state: intermediate states that it
  might deliver in between are those of a slower informer.
* LDAP and Active Directory refreshes have no token, and only succeed or fail.
* In `ImpersonatorConfig` some errors end every Sync until someone repairs their
  cause, and are left out: a CA or signer Secret that cannot be read, a load balancer
  whose ingresses have neither a host name nor a valid IP address, and a missing
  CredentialIssuer. Nodes do not change, as the code reads them once.
* In `IssuerSecrets` a Secret of the wrong type is left out, as the API server lets
  nobody change the type.
* In `CLILogin` access tokens live as long as ID tokens, as those of the Supervisor
  do; processes with different arguments use different entries of the files, and
  are left out. So are the entries that are dropped because nobody has used them for
  90 days, and an unlock that fails.
* Most lines of the repository are generated API types, clients and deep copies,
  once for each supported version of Kubernetes; they have no behaviour of their
  own. The models cover most of the code that they are about, and a small share of
  all lines.
* The browser flows, JWKS keys, the serving certificates of the aggregated API, the
  kube cert agent, the upstream watchers and OIDC clients are not modelled yet (see
  the plan). Single-request code without lasting state (the impersonation proxy's
  filters, the local user authenticator), wiring and cryptographic helpers are not
  candidates.

## 7. Plan

In this order, with what each is for:

1. `JWKS`, with the CSRF key: a signing key is never replaced while it is valid,
   and the observer of each pod ends with what is stored, although Secrets are
   named after FederationDomains that may be deleted and created again.
2. `ApiCerts`: rotation before expiry; what a pod serves is trusted by the
   APIService in the end; the certificate in use never has expired.
3. `UpstreamWatchers` and `OIDCClientSecrets`: no provider is offered on a cached
   validation of other settings; a client secret that was revoked stays revoked
   although requests race.
4. `KubeCertAgent`, `CredentialRequest`, `AuthorizeFlow`, `ControllerQueue`.
5. Proofs about these, as they come.
