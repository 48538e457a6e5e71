------------------------- MODULE AuthenticatorCache -------------------------
(***************************************************************************)
(* The Concierge's cache of authenticators, and the three controllers that *)
(* keep it: a filler for each kind of authenticator, which builds the      *)
(* authenticator of one resource, and a cleaner, which drops those whose   *)
(* resource is gone.  They run in goroutines of their own and share the    *)
(* cache, a sync.Map: every Get, Store and Delete is a step.               *)
(*                                                                         *)
(*   internal/controller/authenticator/{authncache,cachecleaner,           *)
(*     jwtcachefiller,webhookcachefiller}                                  *)
(*   internal/controllerlib/controller.go                                  *)
(*                                                                         *)
(* Informers and the work queue are client-go's: an event puts a key into  *)
(* the queue of a controller, whose only worker takes the keys one by one; *)
(* the informers resync all resources that exist now and then.             *)
(***************************************************************************)
EXTENDS Naturals, FiniteSets

CONSTANTS
  Webhooks, JWTs, \* the keys of WebhookAuthenticators and of JWTAuthenticators
  Specs,          \* what the spec of a resource can be
  NoSpec,         \* no such resource, or not being synced
  MaxChanges      \* bound: changes of resources in the cluster

ASSUME KeysAssumption == Webhooks \cap JWTs = {} /\ NoSpec \notin Specs
ASSUME BoundAssumption == MaxChanges \in Nat

Keys == Webhooks \cup JWTs
Kinds == {"webhook", "jwt"}
KeysOf(kind) == IF kind = "jwt" THEN JWTs ELSE Webhooks

VARIABLES
  known,      \* the spec of each resource in the informers' stores
  cache,      \* authncache: what was built for a key, and whether it was closed
  fillQueue,  \* the keys in the queues of the fillers
  filling,    \* the key that each filler is building, and from which spec
  cleanQueue, \* is the cleaner's singleton key queued?
  cleaner,    \* the cleaner's Sync: its place, what it listed, and the keys to go
  changes     \* how often the cluster changed

vars == <<known, cache, fillQueue, filling, cleanQueue, cleaner, changes>>

Nothing == [spec |-> NoSpec, closed |-> FALSE]
Entries == [spec : Specs, closed : BOOLEAN] \cup {Nothing}
NotFilling == [busy |-> {}, spec |-> NoSpec]
NotCleaning == [at |-> "idle", listed |-> {}, todo |-> {}]

TypeOK ==
  /\ known \in [Keys -> Specs \cup {NoSpec}]
  /\ cache \in [Keys -> Entries]
  /\ fillQueue \subseteq Keys /\ cleanQueue \in BOOLEAN
  /\ filling \in [Kinds -> [busy : SUBSET Keys, spec : Specs \cup {NoSpec}]]
  /\ \A kind \in Kinds : filling[kind].busy \subseteq KeysOf(kind) /\ Cardinality(filling[kind].busy) <= 1
  /\ \A kind \in Kinds : filling[kind].busy # {} => filling[kind].spec \in Specs
  /\ cleaner \in [at : {"idle", "webhooks listed", "all listed", "cleaning", "deleting"},
                  listed : SUBSET Keys, todo : SUBSET Keys]
  /\ changes \in 0..MaxChanges

Init ==
  /\ known \in [Keys -> Specs \cup {NoSpec}]
  /\ cache = [k \in Keys |-> Nothing]
  /\ fillQueue = {k \in Keys : known[k] # NoSpec}
  /\ cleanQueue = (fillQueue # {})
  /\ filling = [kind \in Kinds |-> NotFilling]
  /\ cleaner = NotCleaning
  /\ changes = 0

-----------------------------------------------------------------------------
(* The informers.                                                          *)

\* A resource is created, updated or deleted: an event for its filler and the cleaner.
Event(k) == fillQueue' = fillQueue \cup {k} /\ cleanQueue' = TRUE

ClusterChange(k, spec) ==
  /\ known[k] # spec /\ changes < MaxChanges
  /\ known' = [known EXCEPT ![k] = spec]
  /\ changes' = changes + 1
  /\ Event(k)
  /\ UNCHANGED <<cache, filling, cleaner>>

\* An update event for every resource that exists, and none when there is none.
Resync ==
  LET existing == {k \in Keys : known[k] # NoSpec} IN
  /\ existing # {}
  /\ fillQueue' = fillQueue \cup existing
  /\ cleanQueue' = TRUE
  /\ UNCHANGED <<known, cache, filling, cleaner, changes>>

-----------------------------------------------------------------------------
(* The fillers.                                                            *)

\* Sync of the JWT filler, up to newJWTAuthenticator: a resource that is gone, or whose
\* authenticator is the cached one, needs nothing; the old authenticator is closed.
MutNoClose(k) ==
  /\ k \in fillQueue \cap JWTs /\ filling["jwt"] = NotFilling
  /\ fillQueue' = fillQueue \ {k}
  /\ filling' = IF known[k] = NoSpec \/ cache[k].spec = known[k] THEN filling
                ELSE [filling EXCEPT !["jwt"] = [busy |-> {k}, spec |-> known[k]]]
  /\ UNCHANGED <<known, cache, cleanQueue, cleaner, changes>>
MutKeepCached(k) ==
  /\ k \in fillQueue \cap JWTs /\ filling["jwt"] = NotFilling
  /\ fillQueue' = fillQueue \ {k}
  /\ filling' = IF known[k] = NoSpec \/ cache[k] # Nothing THEN filling
                ELSE [filling EXCEPT !["jwt"] = [busy |-> {k}, spec |-> known[k]]]
  /\ UNCHANGED <<known, cache, cleanQueue, cleaner, changes>>
FillJWT(k) ==
  /\ k \in fillQueue \cap JWTs /\ filling["jwt"] = NotFilling
  /\ fillQueue' = fillQueue \ {k}
  /\ IF known[k] = NoSpec \/ cache[k].spec = known[k]
     THEN UNCHANGED <<cache, filling>>
     ELSE /\ cache' = IF cache[k] = Nothing THEN cache ELSE [cache EXCEPT ![k].closed = TRUE]
          /\ filling' = [filling EXCEPT !["jwt"] = [busy |-> {k}, spec |-> known[k]]]
  /\ UNCHANGED <<known, cleanQueue, cleaner, changes>>

\* Sync of the webhook filler, up to newWebhookAuthenticator.
FillWebhook(k) ==
  /\ k \in fillQueue \cap Webhooks /\ filling["webhook"] = NotFilling
  /\ fillQueue' = fillQueue \ {k}
  /\ filling' = IF known[k] = NoSpec THEN filling
                ELSE [filling EXCEPT !["webhook"] = [busy |-> {k}, spec |-> known[k]]]
  /\ UNCHANGED <<known, cache, cleanQueue, cleaner, changes>>

\* The authenticator is built, which can take as long as a call to its issuer, and stored.
Built(kind, k) ==
  /\ k \in filling[kind].busy
  /\ cache' = [cache EXCEPT ![k] = [spec |-> filling[kind].spec, closed |-> FALSE]]
  /\ filling' = [filling EXCEPT ![kind] = NotFilling]
  /\ UNCHANGED <<known, fillQueue, cleanQueue, cleaner, changes>>

\* It cannot be built: handleKey puts the key into the queue again.
Requeue(kind, k) ==
  /\ k \in filling[kind].busy
  /\ filling' = [filling EXCEPT ![kind] = NotFilling]
  /\ fillQueue' = fillQueue \cup {k}
  /\ UNCHANGED <<known, cache, cleanQueue, cleaner, changes>>

NewJWTAuthenticatorFails(k) == Requeue("jwt", k)
NewWebhookAuthenticatorFails(k) == Requeue("webhook", k)

-----------------------------------------------------------------------------
(* The cleaner.                                                            *)

ListWebhooks ==
  /\ cleanQueue /\ cleaner.at = "idle"
  /\ cleanQueue' = FALSE
  /\ cleaner' = [at |-> "webhooks listed", listed |-> {k \in Webhooks : known[k] # NoSpec}, todo |-> {}]
  /\ UNCHANGED <<known, cache, fillQueue, filling, changes>>

ListJWTs ==
  /\ cleaner.at = "webhooks listed"
  /\ cleaner' = [cleaner EXCEPT !.at = "all listed", !.listed = @ \cup {k \in JWTs : known[k] # NoSpec}]
  /\ UNCHANGED <<known, cache, fillQueue, filling, cleanQueue, changes>>

CleanNext(todo) == IF todo = {} THEN NotCleaning ELSE [cleaner EXCEPT !.at = "cleaning", !.todo = todo]

\* Mutant: resources that exist are cleaned, too.
MutCacheKeys ==
  /\ cleaner.at = "all listed"
  /\ cleaner' = CleanNext({k \in Keys : cache[k] # Nothing})
  /\ UNCHANGED <<known, cache, fillQueue, filling, cleanQueue, changes>>

\* The keys of the cache that were not listed will be cleaned.
CacheKeys ==
  /\ cleaner.at = "all listed"
  /\ cleaner' = CleanNext({k \in Keys : cache[k] # Nothing} \ cleaner.listed)
  /\ UNCHANGED <<known, cache, fillQueue, filling, cleanQueue, changes>>

\* Get and Close; only JWT authenticators are Closers.
CleanClose(k) ==
  /\ cleaner.at = "cleaning" /\ k \in cleaner.todo
  /\ cache' = IF k \in JWTs /\ cache[k] # Nothing THEN [cache EXCEPT ![k].closed = TRUE] ELSE cache
  /\ cleaner' = [cleaner EXCEPT !.at = "deleting", !.listed = {k}]
  /\ UNCHANGED <<known, fillQueue, filling, cleanQueue, changes>>

MutCleanDelete(k) ==
  /\ cleaner.at = "deleting" /\ k \in cleaner.listed
  /\ cleaner' = CleanNext(cleaner.todo \ {k})
  /\ UNCHANGED <<known, cache, fillQueue, filling, cleanQueue, changes>>
CleanDelete(k) ==
  /\ cleaner.at = "deleting" /\ k \in cleaner.listed
  /\ cache' = [cache EXCEPT ![k] = Nothing]
  /\ cleaner' = CleanNext(cleaner.todo \ {k})
  /\ UNCHANGED <<known, fillQueue, filling, cleanQueue, changes>>

-----------------------------------------------------------------------------
Filler == \E k \in Keys : \/ FillJWT(k) \/ NewJWTAuthenticatorFails(k) \/ Built("jwt", k)
                          \/ FillWebhook(k) \/ NewWebhookAuthenticatorFails(k) \/ Built("webhook", k)
Cleaner == ListWebhooks \/ ListJWTs \/ CacheKeys \/ \E k \in Keys : CleanClose(k) \/ CleanDelete(k)
Next == Filler \/ Cleaner \/ Resync
        \/ \E k \in Keys, spec \in Specs \cup {NoSpec} : ClusterChange(k, spec)
Spec == Init /\ [][Next]_vars

\* The workers run, informers resync again and again, and an authenticator that is built
\* again and again is built in the end.
FairSpec ==
  /\ Spec
  /\ WF_vars(Cleaner) /\ WF_vars(Resync)
  /\ \A k \in Keys : SF_vars(FillJWT(k) \/ FillWebhook(k))
  /\ \A kind \in Kinds, k \in Keys : SF_vars(Built(kind, k))

-----------------------------------------------------------------------------
(* Properties.                                                             *)

\* "If we do need to recreate the authenticator, then make sure we close the old one to
\* avoid goroutine leaks" (jwtcachefiller.go:113): the filler never stores over an open JWT
\* authenticator, although the cleaner works on the same entries.
NoOpenAuthenticatorReplaced ==
  [][\A k \in JWTs : Built("jwt", k) => cache[k] = Nothing \/ cache[k].closed]_vars

\* A resource whose key neither waits nor is being worked on has an authenticator built from
\* its present spec, or none: whatever happened while the last one was built, requests are
\* never judged by an old spec without the filler being about to replace it.
NothingStale ==
  \A k \in Keys : known[k] # NoSpec /\ k \notin fillQueue /\ (\A kind \in Kinds : k \notin filling[kind].busy)
                  => cache[k].spec \in {known[k], NoSpec}

\* When the cluster stops changing, the cache gets to hold and keeps what was built from
\* the spec of every resource that exists, whatever the cleaner deleted meanwhile.
CacheFollowsCluster ==
  \A k \in Keys, spec \in Specs : <>[](known[k] = spec) => <>[](cache[k].spec = spec)

\* An authenticator whose resource is gone leaves the cache for good if some other
\* resource exists: that one's resyncs also run the cleaner.
DeletedLeavesCacheIfOthersExist ==
  \A k \in Keys : <>[](known[k] = NoSpec /\ \E other \in Keys : known[other] # NoSpec)
                  => <>[](cache[k] = Nothing)

\* "Delete any entries from the cache which are no longer in the cluster"
\* (cachecleaner.go:90).  Violated: a filler that was still building when the last
\* resource was deleted stores the authenticator after the cleaner has run.
DeletedLeavesCache == \A k \in Keys : <>[](known[k] = NoSpec) => <>[](cache[k] = Nothing)

-----------------------------------------------------------------------------
(* The inductive invariant.                                                *)

\* While the JWT filler builds an authenticator, the one to be replaced is closed or gone.
ReplacedIsClosed == \A k \in filling["jwt"].busy : cache[k] = Nothing \/ cache[k].closed

\* Each filler has one worker.
OneWorker == \A kind \in Kinds : \A j, k \in filling[kind].busy : j = k

\* For each resource its key is queued, or the filler builds from its present spec, or the
\* cache has nothing else.
Fresh(k) ==
  \/ known[k] = NoSpec \/ k \in fillQueue
  \/ \E kind \in Kinds : k \in filling[kind].busy /\ filling[kind].spec = known[k]
  \/ (\A kind \in Kinds : k \notin filling[kind].busy) /\ cache[k].spec \in {known[k], NoSpec}

FreshOK == OneWorker /\ \A k \in Keys : Fresh(k)

Inv == TypeOK /\ ReplacedIsClosed
=============================================================================
