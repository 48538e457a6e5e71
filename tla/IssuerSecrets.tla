---------------------------- MODULE IssuerSecrets ----------------------------
(***************************************************************************)
(* The symmetric keys of the Supervisor's issuers.  For each use of a key  *)
(* (signing tokens, signing and encrypting the upstream state parameter) a *)
(* controller in every pod keeps one Secret per FederationDomain, creates  *)
(* or repairs it, and copies its key into the pod's secret.Cache, from     *)
(* which request handlers take it.                                         *)
(*                                                                         *)
(*   internal/controller/supervisorconfig/generator/                       *)
(*     federation_domain_secrets.go, secret_helper.go                      *)
(*   internal/secret/cache.go                                              *)
(*                                                                         *)
(* A domain stands for the UID of a FederationDomain, which is part of the *)
(* name of its Secrets: one that is deleted never comes back.  A write to  *)
(* the cluster may fail in any pod, since only the leader's are let        *)
(* through (module LeaderElection), and any pod may be the leader.         *)
(***************************************************************************)
EXTENDS Naturals, FiniteSets

CONSTANTS
  Pods,
  Leader,      \* the pod whose writes succeed in the end
  Domains,     \* UIDs of FederationDomains
  NoDomain,
  Starts,      \* the clusters to start from: see StartValues
  Issuers,     \* of the FederationDomains
  Usages,      \* SecretUsage: what a key is for
  Readers,     \* requests that look into an issuer's cache before there is one
  Keys, NoKey, \* generated keys; what else a Secret may hold in their place
  NoCell,      \* an issuer without a federationDomainCache
  MaxChanges   \* bound: changes of the cluster and restarts of pods

\* Which pods run, which issuers get requests, which FederationDomains exist, which of them
\* have a Secret with a key or one that lost its key before the status was written, and how
\* many changes were spent.
StartValues ==
  {x \in [pods : SUBSET Pods, requested : SUBSET Issuers, domains : SUBSET Domains,
          keyed : SUBSET Domains, emptied : SUBSET Domains, spent : 0..MaxChanges] :
     Leader \in x.pods /\ x.keyed \cup x.emptied \subseteq x.domains /\ x.keyed \cap x.emptied = {}}
ASSUME StartAssumption == Starts \subseteq StartValues

ASSUME NamesAssumption ==
  /\ Leader \in Pods /\ NoDomain \notin Domains
  /\ NoKey \notin Keys /\ NoCell \notin Usages \cup Readers
  /\ Usages \cap Readers = {} /\ Issuers \cap {"absent", "deleted"} = {}
ASSUME BoundAssumption == MaxChanges \in Nat

Secrets == Domains \X Usages
Controllers == Pods \X Usages  \* each with one worker
Cells == Usages \cup Readers   \* the federationDomainCaches of an issuer, by who made it
Places == Pods \X Issuers \X Cells \X Usages
NoSecret == [exists |-> FALSE, key |-> NoKey, owned |-> FALSE]

VARIABLES
  start,      \* the cluster that this behaviour started from, and the pods that run in it
  issuer,     \* the issuer of each FederationDomain, or that there is none
  secret,     \* the Secret of each domain and use
  named,      \* the Secrets that the status of their FederationDomain refers to
  seenIssuer, \* the FederationDomains in the informers of a pod
  seenSecret, \* the Secrets in the informers of a pod
  queue,      \* the domains in the queue of each controller
  worker,     \* the Sync of each controller
  map,        \* federationDomainCacheMap: the cell of each issuer in a pod
  cell,       \* the keys in the cells
  reading,    \* the readers that found no cell for the issuer and have made one
  stored,     \* history: the keys that were ever stored in the cluster
  changes

vars == <<start, issuer, secret, named, seenIssuer, seenSecret, queue, worker, map, cell, reading, stored, changes>>
clusterVars == <<issuer, secret, named, stored>>
podVars == <<start, seenIssuer, seenSecret>>
cacheVars == <<map, cell, reading>>

States == Issuers \cup {"absent", "deleted"}
SecretValues == [exists : BOOLEAN, key : Keys \cup {NoKey}, owned : BOOLEAN]
Steps == {"idle", "get", "create", "update", "load", "publish", "set", "status"}
Idle == [at |-> "idle", domain |-> NoDomain, issuer |-> "absent", key |-> NoKey,
         fresh |-> FALSE, retried |-> FALSE, cell |-> NoCell]
Syncs ==
  {x \in [at : Steps, domain : Domains \cup {NoDomain}, issuer : States, key : Keys \cup {NoKey},
          fresh : BOOLEAN, retried : BOOLEAN, cell : Cells \cup {NoCell}] :
     /\ x.at # "idle" => x.domain \in Domains
     /\ x.at \notin {"idle", "status"} => x.issuer \in Issuers /\ x.key \in Keys
     /\ x.at \in {"publish", "set"} => x.cell \in Cells}

TypeOK ==
  /\ issuer \in [Domains -> States]
  /\ secret \in [Secrets -> SecretValues]
  /\ named \subseteq Secrets
  /\ seenIssuer \in [Pods -> [Domains -> States]]
  /\ seenSecret \in [Pods -> [Secrets -> SecretValues]]
  /\ queue \in [Controllers -> SUBSET Domains]
  /\ worker \in [Controllers -> Syncs]
  /\ map \in [Pods -> [Issuers -> Cells \cup {NoCell}]]
  /\ cell \in [Places -> Keys \cup {NoKey}]
  /\ reading \in [Pods -> [Issuers -> SUBSET Readers]]
  /\ stored \subseteq Keys
  /\ changes \in 0..MaxChanges

NoMap == [i \in Issuers |-> NoCell]
Exists(d) == issuer[d] \in Issuers

DifferentKeys == {f \in [Secrets -> Keys] : \A s, t \in Secrets : f[s] = f[t] => s = t}
ASSUME OldKeysAssumption == DifferentKeys # {}

Init ==
  /\ start \in Starts /\ changes = start.spent
  /\ issuer \in [Domains -> Issuers \cup {"absent"}]
  /\ \A d \in Domains : d \in start.domains <=> Exists(d)
  /\ LET key == CHOOSE f \in DifferentKeys : TRUE
         present == (start.keyed \cup start.emptied) \X Usages IN
     /\ secret = [s \in Secrets |->
                    IF s \in present
                    THEN [exists |-> TRUE, key |-> IF s[1] \in start.keyed THEN key[s] ELSE NoKey, owned |-> TRUE]
                    ELSE NoSecret]
     /\ stored = {key[s] : s \in present}
  /\ named = start.keyed \X Usages
  /\ seenIssuer = [p \in Pods |-> issuer]
  /\ seenSecret = [p \in Pods |-> secret]
  /\ queue = [w \in Controllers |-> {d \in Domains : Exists(d)}]
  /\ worker = [w \in Controllers |-> Idle]
  /\ map = [p \in Pods |-> NoMap]
  /\ cell = [x \in Places |-> NoKey]
  /\ reading = [p \in Pods |-> [i \in Issuers |-> {}]]

-----------------------------------------------------------------------------
(* The cluster and the informers.                                          *)

\* A Secret is written: whoever read it before will meet a conflict.
Written(s) ==
  [w \in Controllers |-> IF w[2] = s[2] /\ s[1] = worker[w].domain
                         THEN [worker[w] EXCEPT !.fresh = FALSE] ELSE worker[w]]

Change == changes < MaxChanges /\ changes' = changes + 1

\* Users create a FederationDomain, give it another issuer, or delete it.
ChangeDomain(d, i) ==
  /\ Change
  /\ issuer[d] # i
  /\ \/ Exists(d) /\ i # "absent"
     \/ issuer[d] = "absent" /\ i \in Issuers
  /\ issuer' = [issuer EXCEPT ![d] = i]
  /\ named' = IF i = "deleted" THEN {s \in named : s[1] # d} ELSE named
  /\ UNCHANGED <<secret, stored, podVars, queue, worker, cacheVars>>

\* A Secret is deleted, by a user or with its owner, or a user removes its key or its owner.
ChangeSecret(s, to) ==
  /\ Change
  /\ secret[s].exists /\ secret[s] # to
  /\ to \in {NoSecret, [secret[s] EXCEPT !.key = NoKey], [secret[s] EXCEPT !.owned = FALSE]}
  /\ secret' = [secret EXCEPT ![s] = to]
  /\ worker' = Written(s)
  /\ UNCHANGED <<issuer, named, stored, podVars, queue, cacheVars>>

\* Informers tell the controllers of all uses about a FederationDomain, and the one that
\* handles a Secret about the FederationDomain that owns it.
DomainEvent(p, d) ==
  /\ seenIssuer[p][d] # issuer[d]
  /\ seenIssuer' = [seenIssuer EXCEPT ![p][d] = issuer[d]]
  /\ queue' = [w \in Controllers |-> IF w[1] = p THEN queue[w] \cup {d} ELSE queue[w]]
  /\ UNCHANGED <<clusterVars, start, seenSecret, worker, cacheVars, changes>>

SecretEvent(p, s) ==
  /\ seenSecret[p][s] # secret[s]
  /\ seenSecret' = [seenSecret EXCEPT ![p][s] = secret[s]]
  /\ queue' = IF secret[s].exists /\ ~secret[s].owned THEN queue
              ELSE [queue EXCEPT ![<<p, s[2]>>] = @ \cup {s[1]}]
  /\ UNCHANGED <<clusterVars, start, seenIssuer, worker, cacheVars, changes>>

\* Now and then informers repeat what they know.
Resync(p) ==
  /\ queue' = [w \in Controllers |->
                 IF w[1] = p THEN queue[w] \cup {d \in Domains : seenIssuer[p][d] \in Issuers} ELSE queue[w]]
  /\ UNCHANGED <<clusterVars, podVars, worker, cacheVars, changes>>

\* A pod stops wherever it is, and starts again with nothing in its cache.
Restart(p) ==
  /\ Change
  /\ seenIssuer' = [seenIssuer EXCEPT ![p] = issuer]
  /\ seenSecret' = [seenSecret EXCEPT ![p] = secret]
  /\ queue' = [w \in Controllers |-> IF w[1] = p THEN {d \in Domains : Exists(d)} ELSE queue[w]]
  /\ worker' = [w \in Controllers |-> IF w[1] = p THEN Idle ELSE worker[w]]
  /\ map' = [map EXCEPT ![p] = NoMap]
  /\ cell' = [x \in Places |-> IF x[1] = p THEN NoKey ELSE cell[x]]
  /\ reading' = [reading EXCEPT ![p] = [i \in Issuers |-> {}]]
  /\ UNCHANGED <<clusterVars, start>>
-----------------------------------------------------------------------------
(* Sync of the controller w, a pod and a use.                              *)

\* The Secret that w works on.
SecretOf(w) == <<worker[w].domain, w[2]>>

\* symmetricSecretHelper.IsValid: controlled by its FederationDomain, with a key in it.  (Its
\* type, which the API server lets nobody change, is taken to be the right one.)
IsValid(s) == s.owned /\ s.key # NoKey

\* Generate a key that nobody has.
Unused == Keys \ (stored \cup {worker[w].key : w \in Controllers})

\* Sync up to secretNeedsUpdate: what it goes by is in the informers.
Sync(w, d) ==
  LET p == w[1]
      found == seenSecret[p][<<d, w[2]>>]
      begun == [Idle EXCEPT !.domain = d, !.issuer = seenIssuer[p][d]] IN
  /\ d \in queue[w] /\ worker[w].at = "idle"
  /\ queue' = [queue EXCEPT ![w] = @ \ {d}]
  /\ \/ seenIssuer[p][d] \notin Issuers /\ UNCHANGED worker
     \/ seenIssuer[p][d] \in Issuers /\ IsValid(found)
        /\ worker' = [worker EXCEPT ![w] = [begun EXCEPT !.at = "load", !.key = found.key]]
     \/ seenIssuer[p][d] \in Issuers /\ ~IsValid(found) /\ Unused # {}
        /\ worker' = [worker EXCEPT ![w] = [begun EXCEPT !.at = "get", !.key = CHOOSE k \in Unused : TRUE]]
  /\ UNCHANGED <<clusterVars, podVars, cacheVars, changes>>

\* createOrUpdateSecret gets the Secret from the cluster, and keeps it if it is valid.
GetSecret(w) ==
  LET live == secret[SecretOf(w)] IN
  /\ worker[w].at = "get"
  /\ worker' = [worker EXCEPT ![w] =
       IF ~live.exists THEN [@ EXCEPT !.at = "create"]
       ELSE IF IsValid(live) THEN [@ EXCEPT !.at = "load", !.key = live.key, !.retried = FALSE]
       ELSE [@ EXCEPT !.at = "update", !.fresh = TRUE]]
  /\ UNCHANGED <<clusterVars, podVars, queue, cacheVars, changes>>

\* After a conflict the new Secret has the resource version of the old one, with which
\* it cannot be created.
CreateSecret(w) ==
  LET s == SecretOf(w) IN
  /\ worker[w].at = "create" /\ ~secret[s].exists /\ ~worker[w].retried
  /\ secret' = [secret EXCEPT ![s] = [exists |-> TRUE, key |-> worker[w].key, owned |-> TRUE]]
  /\ stored' = stored \cup {worker[w].key}
  /\ worker' = [Written(s) EXCEPT ![w].at = "load"]
  /\ UNCHANGED <<issuer, named, podVars, queue, cacheVars, changes>>

\* Labels, type and data of the Secret are replaced, and its owners are not.  The Update
\* carries the resource version of the Secret that was read.
MutUpdateSecret(w) ==
  LET s == SecretOf(w) IN
  /\ worker[w].at = "update" /\ secret[s].exists
  /\ secret' = [secret EXCEPT ![s].key = worker[w].key]
  /\ stored' = stored \cup {worker[w].key}
  /\ worker' = [Written(s) EXCEPT ![w].at = "load", ![w].fresh = FALSE, ![w].retried = FALSE]
  /\ UNCHANGED <<issuer, named, podVars, queue, cacheVars, changes>>
UpdateSecret(w) ==
  LET s == SecretOf(w) IN
  /\ worker[w].at = "update" /\ worker[w].fresh
  /\ secret' = [secret EXCEPT ![s].key = worker[w].key]
  /\ stored' = stored \cup {worker[w].key}
  /\ worker' = [Written(s) EXCEPT ![w].at = "load", ![w].fresh = FALSE, ![w].retried = FALSE]
  /\ UNCHANGED <<issuer, named, podVars, queue, cacheVars, changes>>

\* RetryOnConflict starts over.
Conflict(w) ==
  /\ worker[w].at = "update" /\ ~worker[w].fresh /\ secret[SecretOf(w)].exists
  /\ worker' = [worker EXCEPT ![w].at = "get", ![w].retried = TRUE]
  /\ UNCHANGED <<clusterVars, podVars, queue, cacheVars, changes>>

\* An error, such as that this pod is not the leader: handleKey queues the key again.
MutFails(w) ==
  /\ worker[w].at \in {"get", "create", "update", "status"}
  /\ worker' = [worker EXCEPT ![w] = IF @.at = "create" THEN [@ EXCEPT !.at = "load"] ELSE Idle]
  /\ queue' = [queue EXCEPT ![w] = @ \cup {worker[w].domain}]
  /\ UNCHANGED <<clusterVars, podVars, cacheVars, changes>>
MutForgets(w) ==
  /\ worker[w].at \in {"get", "create", "update", "status"}
  /\ worker' = [worker EXCEPT ![w] = Idle]
  /\ UNCHANGED <<clusterVars, podVars, queue, cacheVars, changes>>
Fails(w) ==
  /\ worker[w].at \in {"get", "create", "update", "status"}
  /\ worker' = [worker EXCEPT ![w] = Idle]
  /\ queue' = [queue EXCEPT ![w] = @ \cup {worker[w].domain}]
  /\ UNCHANGED <<clusterVars, podVars, cacheVars, changes>>

\* updateFederationDomainStatus, and the end of Sync.
UpdateStatus(w) ==
  /\ worker[w].at = "status" /\ Exists(worker[w].domain)
  /\ named' = named \cup {SecretOf(w)}
  /\ worker' = [worker EXCEPT ![w] = Idle]
  /\ UNCHANGED <<issuer, secret, stored, podVars, queue, cacheVars, changes>>

-----------------------------------------------------------------------------
(* secret.Cache.                                                           *)

\* getFederationDomainCache loads the issuer's cell, or makes one and then stores it.
Load(w) ==
  LET found == map[w[1]][worker[w].issuer] IN
  /\ worker[w].at = "load"
  /\ worker' = [worker EXCEPT ![w] = IF found = NoCell THEN [@ EXCEPT !.at = "publish", !.cell = w[2]]
                                     ELSE [@ EXCEPT !.at = "set", !.cell = found]]
  /\ UNCHANGED <<clusterVars, podVars, queue, cacheVars, changes>>

Publish(w) ==
  /\ worker[w].at = "publish"
  /\ map' = [map EXCEPT ![w[1]][worker[w].issuer] = worker[w].cell]
  /\ worker' = [worker EXCEPT ![w].at = "set"]
  /\ UNCHANGED <<clusterVars, podVars, queue, cell, reading, changes>>

\* SetTokenHMACKey and its kind put the key into the cell they were given.
MutSetKey(w) ==
  /\ worker[w].at = "set"
  /\ cell' = [cell EXCEPT ![<<w[1], worker[w].issuer, worker[w].cell, w[2]>>] =
                IF @ = NoKey THEN worker[w].key ELSE @]
  /\ worker' = [worker EXCEPT ![w] = [Idle EXCEPT !.at = "status", !.domain = worker[w].domain]]
  /\ UNCHANGED <<clusterVars, podVars, queue, map, reading, changes>>
SetKey(w) ==
  /\ worker[w].at = "set"
  /\ cell' = [cell EXCEPT ![<<w[1], worker[w].issuer, worker[w].cell, w[2]>>] = worker[w].key]
  /\ worker' = [worker EXCEPT ![w] = [Idle EXCEPT !.at = "status", !.domain = worker[w].domain]]
  /\ UNCHANGED <<clusterVars, podVars, queue, map, reading, changes>>

\* GetTokenHMACKey and its kind also make and store a cell if they find none.
ReaderLoads(p, i, r) ==
  /\ map[p][i] = NoCell /\ r \notin reading[p][i]
  /\ reading' = [reading EXCEPT ![p][i] = @ \cup {r}]
  /\ UNCHANGED <<clusterVars, podVars, queue, worker, map, cell, changes>>

ReaderPublishes(p, i, r) ==
  /\ r \in reading[p][i]
  /\ map' = [map EXCEPT ![p][i] = r]
  /\ reading' = [reading EXCEPT ![p][i] = @ \ {r}]
  /\ UNCHANGED <<clusterVars, podVars, queue, worker, cell, changes>>

\* What a request handler gets.
Cached(p, i, u) == IF map[p][i] = NoCell THEN NoKey ELSE cell[<<p, i, map[p][i], u>>]

-----------------------------------------------------------------------------
Write(w) == CreateSecret(w) \/ UpdateSecret(w) \/ UpdateStatus(w)
Step(w) == GetSecret(w) \/ Conflict(w) \/ Load(w) \/ Publish(w) \/ SetKey(w) \/ (\E d \in Domains : Sync(w, d))
Informer(p) == (\E d \in Domains : DomainEvent(p, d)) \/ (\E s \in Secrets : SecretEvent(p, s))
Reader(p) == \E i \in Issuers, r \in Readers :
               i \in start.requested /\ (ReaderLoads(p, i, r) \/ ReaderPublishes(p, i, r))
Users == \/ \E d \in Domains, i \in States : ChangeDomain(d, i)
         \/ \E s \in Secrets, to \in SecretValues : ChangeSecret(s, to)

\* The pods that run.
Up(p) == p \in start.pods

Act(w) == Up(w[1]) /\ (Step(w) \/ Write(w) \/ Fails(w))
Next == \/ \E w \in Controllers : Act(w)
        \/ \E p \in Pods : Up(p) /\ (Informer(p) \/ Resync(p) \/ Reader(p) \/ Restart(p))
        \/ Users
Spec == Init /\ [][Next]_vars
\* Workers, requests and informers go on.  A key that is queued again and again is synced
\* in the end; the leader's Syncs of one domain do not all fail from some time on; and informers
\* resync every three minutes (defaultResyncInterval).
FairSpec ==
  /\ Spec
  /\ \A w \in Controllers : WF_vars(Act(w))
  /\ \A w \in Controllers, d \in Domains : SF_vars(Up(w[1]) /\ Sync(w, d))
  /\ \A u \in Usages, d \in Domains :
       LET w == <<Leader, u>> IN
         <>[][~(worker[w].domain = d /\ Fails(w))]_vars \/ []<><<worker[w].domain = d /\ UpdateStatus(w)>>_vars
  /\ \A p \in Pods : /\ WF_vars(Up(p) /\ Informer(p)) /\ WF_vars(Up(p) /\ Resync(p))
                     /\ WF_vars(Up(p) /\ \E i \in Issuers, r \in Readers : ReaderPublishes(p, i, r))

-----------------------------------------------------------------------------
(* Properties.                                                             *)

\* "If the secret already has valid a valid Secret, then we are good to go and we don't
\* need an update" (federation_domain_secrets.go:193): whatever pods see in their
\* informers, and however many believe that they should write, none replaces a valid key.
\* All tokens and all states on their way through a browser would be lost with it.
ValidKeyNeverReplaced ==
  [][\A w \in Controllers, s \in Secrets :
       Write(w) /\ IsValid(secret[s]) => secret'[s] = secret[s]]_vars

\* A key that a handler can get was stored in the cluster before, so that another pod can
\* get it too: a pod that generates a key but may not write it does not use it.
CachedKeysWereStored ==
  \A p \in Pods, i \in Issuers, u \in Usages : Cached(p, i, u) \in stored \cup {NoKey}

\* The controller w is in a Sync of the domain d.
Busy(w, d) == worker[w].at # "idle" /\ worker[w].domain = d

\* Sync, with handleKey: a controller that has nothing left to do for a FederationDomain has
\* come to the last of its calls.  However calls fail, pods restart and issuers change, in
\* the leader or in a follower, the status refers to the Secret.
SettledIsNamed ==
  \A p \in Pods, u \in Usages, d \in Domains :
    /\ Exists(d) /\ seenIssuer[p][d] = issuer[d]
    /\ d \notin queue[<<p, u>>] /\ ~Busy(<<p, u>>, d)
    => <<d, u>> \in named

\* When users are done, every pod gets to have and keeps the key that is stored for the
\* issuer of a FederationDomain, although its controllers and requests may drop each
\* other's cell (cache.go:57), and although two FederationDomains may have exchanged their
\* issuers and were synced in the wrong order.  (A Secret that lost its owner reference is
\* never repaired, see UpdateSecret: that case is excepted.)
CacheFollowsSecrets ==
  <>[](\A p \in start.pods, d \in Domains, i \in Issuers, u \in Usages :
         /\ issuer[d] = i /\ (\A e \in Domains \ {d} : issuer[e] # i)
         /\ \A s \in Secrets : secret[s].exists => secret[s].owned
         => /\ IsValid(secret[<<d, u>>]) /\ <<d, u>> \in named
            /\ Cached(p, i, u) = secret[<<d, u>>].key)
-----------------------------------------------------------------------------
(* The invariant from which the safety properties follow.                  *)

\* A Secret that does not exist has no content.
AbsentIsEmpty == \A s \in Secrets : secret[s].exists \/ secret[s] = NoSecret

\* A controller whose update would not meet a conflict has found the Secret invalid, and
\* nobody has written it since.
FoundInvalid(s) == s.exists /\ ~IsValid(s)
FreshIsInvalid ==
  \A w \in Controllers : worker[w].fresh => worker[w].at = "update" /\ FoundInvalid(secret[SecretOf(w)])

\* The keys in the cluster, in the informers, on their way into the cache and in the
\* cells were stored.
SecretsWereStored == \A s \in Secrets : secret[s].key \in stored \cup {NoKey}
SeenWereStored == \A p \in Pods, s \in Secrets : seenSecret[p][s].key \in stored \cup {NoKey}
ObservedWereStored ==
  \A w \in Controllers : worker[w].at \in {"load", "publish", "set"} => worker[w].key \in stored
CellsWereStored == \A x \in Places : cell[x] \in stored \cup {NoKey}

\* A FederationDomain that no informer has seen is new, and one that a controller knows is queued,
\* or in its Sync, or done.  What the informer knows may be old.
NewIsUnseen == \A p \in Pods, d \in Domains : issuer[d] = "absent" => seenIssuer[p][d] = "absent"
KnownIsNamed ==
  \A p \in Pods, u \in Usages, d \in Domains :
    /\ Exists(d) /\ seenIssuer[p][d] \in Issuers
    /\ d \notin queue[<<p, u>>] /\ ~Busy(<<p, u>>, d)
    => <<d, u>> \in named

Inv == /\ TypeOK /\ AbsentIsEmpty /\ FreshIsInvalid
       /\ SecretsWereStored /\ SeenWereStored /\ ObservedWereStored /\ CellsWereStored
=============================================================================
