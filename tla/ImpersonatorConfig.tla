------------------------- MODULE ImpersonatorConfig -------------------------
(***************************************************************************)
(* The Concierge's controller of the impersonation proxy, on one pod: from *)
(* the CredentialIssuer's spec to a server, a Service, a CA and a TLS      *)
(* Secret, and the strategy that tells clients where to connect and which  *)
(* CA to trust.  The CA that signs client certificates is rotated by the   *)
(* certificate manager and the expirer.                                    *)
(*                                                                         *)
(*   internal/controller/impersonatorconfig/impersonator_config.go         *)
(*   internal/controller/issuerconfig/issuerconfig.go                      *)
(*   internal/controller/apicerts/{certs_manager,certs_expirer}.go         *)
(*                                                                         *)
(* Sync reads everything from informers, which may be late, and makes at   *)
(* most one call to the API server in each of its places, so that a step   *)
(* is one place with its call.  stale has the objects whose latest version *)
(* the informer has not delivered; deletions and updates name the version  *)
(* that was read, and fail with a conflict when it is not the latest.      *)
(*                                                                         *)
(* Every pod runs this controller, but only the leader's writes pass.  The *)
(* pod of the model gains and loses the lead; while another pod leads, its *)
(* controllers make the same calls, with informers that are up to date.    *)
(***************************************************************************)
EXTENDS Naturals

CONSTANTS
  ControlPlane, \* are nodes of the control plane visible?
  Specs,        \* what spec.impersonationProxy can be
  Earlier,      \* bound: those of them that may be in place when a pod starts and leads
  ForeignKeys,  \* annotations that others put on the Services
  Addresses,    \* what a load balancer can get
  ClusterIP,    \* the address of the Service of type ClusterIP
  Absent,       \* no such object, certificate or address
  MaxChanges    \* bound: changes by users, the cloud and time, failures, restarts

Endpoints == {s.endpoint : s \in Specs} \ {Absent}
Names == Addresses \cup {ClusterIP} \cup Endpoints
Keys == UNION {s.annotations : s \in Specs}

\* What the code tells apart of a spec: does validateCredentialIssuerSpec accept it, mode,
\* type of the Service, externalEndpoint, and the annotations for the Service.
ProxySpecs ==
  {s \in [valid : BOOLEAN, mode : {"enabled", "disabled", "auto"}, type : {"LoadBalancer", "ClusterIP", "None"},
          endpoint : Names \cup {Absent}, annotations : SUBSET Keys] :
     s.valid /\ s.type = "None" /\ s.mode # "disabled" => s.endpoint # Absent}

ASSUME BoundsAssumption == ControlPlane \in BOOLEAN /\ MaxChanges \in Nat
ASSUME SpecsAssumption == Specs # {} /\ Specs \subseteq ProxySpecs /\ Keys \cap ForeignKeys = {}
ASSUME EarlierAssumption == Earlier \subseteq Specs

Numbers == 1..(MaxChanges + 1)
Certificates == [ca : Numbers, name : Names]
\* A TLS Secret that cannot be read, or whose key is not the certificate's.
Corrupt == [ca |-> 0, name |-> Absent]
Strategy(reason, ca, name) == [reason |-> reason, ca |-> ca, name |-> name]
Without(reason) == Strategy(reason, 0, Absent)
Strategies == {Without(r) : r \in {"none", "Disabled", "Pending", "Conflict", "Error"}}
                \cup [reason : {"Listening"}, ca : Numbers, name : Names]

\* A Service has annotations, the record of those that came from the spec, and an address.
Services ==
  {s \in [keys : SUBSET (Keys \cup ForeignKeys), record : SUBSET Keys, address : Names \cup {Absent}] :
     s.keys \cap Keys = s.record}
ASSUME NamesAssumption ==
  Addresses # {} /\ Absent \notin Addresses \cup {ClusterIP} /\ Absent \notin Numbers /\ Absent \notin Services
Objects == {"issuer", "lb", "clusterip", "ca", "tls", "signer"}
Values(o) ==
  CASE o = "issuer" -> [spec : Specs, strategy : Strategies]
    [] o \in {"lb", "clusterip"} -> Services \cup {Absent}
    [] o = "tls" -> Certificates \cup {Corrupt, Absent}
    [] OTHER -> Numbers \cup {Absent}

VARIABLES
  leader,       \* do the writes of this pod pass, or those of another one?
  cluster,      \* the objects at the API server
  count,        \* how many CAs of either kind were made
  expired,      \* is the signer old enough to be replaced?
  seen,         \* the objects in the informers of this pod
  stale,        \* the objects that were written since the informer last saw them
  queued,       \* is the singleton key of the controller queued?
  sync,         \* the Sync that runs
  listed,       \* hasControlPlaneNodes # nil
  server,       \* the proxy server
  served,       \* the certificate in the provider of serving certificates
  signer,       \* the CA in the provider of signing certificates
  changes

world == <<leader, cluster, count, expired>>
informers == <<seen, stale>>
certs == <<served, signer>>
vars == <<leader, cluster, count, expired, seen, stale, queued, sync, listed, server, served, signer, changes>>

Idle == [at |-> "idle", spec |-> CHOOSE s \in Specs : TRUE, old |-> Without("none"), fresh |-> FALSE,
         name |-> Absent, ca |-> 0, result |-> Without("none")]
\* serverStopCh # nil, how many servers run, whether errorCh has a result, and whether
\* serverStopCh is closed.
NoServer == [handle |-> FALSE, live |-> 0, exited |-> FALSE, stop |-> FALSE]

Calling == {"lb", "clusterip", "ca", "remove", "create"}
Places == Calling \cup {"idle", "server", "stopping", "tls", "publish"}

\* Every variable has its type, and an object that is not stale is the one at the API server.
TypeOK ==
  /\ leader \in BOOLEAN /\ expired \in BOOLEAN /\ queued \in BOOLEAN /\ listed \in BOOLEAN
  /\ \A o \in Objects : cluster[o] \in Values(o) /\ seen[o] \in Values(o)
  /\ stale \subseteq Objects
  /\ \A o \in Objects \ stale : seen[o] = cluster[o]
  /\ sync \in [at : Places, spec : Specs, old : Strategies, fresh : BOOLEAN,
               name : Names \cup {Absent}, ca : Numbers \cup {0}, result : Strategies]
  /\ server \in [handle : BOOLEAN, live : 0..2, exited : BOOLEAN, stop : BOOLEAN]
  /\ served \in Certificates \cup {Absent}
  /\ signer \in Numbers \cup {Absent}
  /\ count \in [{"ca", "signer"} -> Numbers \cup {0}]
  /\ changes \in 0..MaxChanges

-----------------------------------------------------------------------------
(* What Sync derives from the spec and from what it sees.                  *)

\* shouldHaveImpersonator, shouldHaveLoadBalancer, shouldHaveClusterIPService
ShouldHaveImpersonator(spec) == spec.mode = "enabled" \/ (spec.mode = "auto" /\ ~ControlPlane)
ShouldHaveService(spec, o) ==
  ShouldHaveImpersonator(spec) /\ spec.type = IF o = "lb" THEN "LoadBalancer" ELSE "ClusterIP"

\* findDesiredTLSCertificateName
AddressOf(service) == IF service = Absent THEN Absent ELSE service.address
DesiredName(spec, objects) ==
  IF spec.endpoint # Absent THEN spec.endpoint
  ELSE AddressOf(objects[IF spec.type = "ClusterIP" THEN "clusterip" ELSE "lb"])

\* Mutant: the name is looked for where the certificate never has it.
MutNoMatch(tls, ca, name) == FALSE

\* deleteTLSSecretWhenCertificateDoesNotMatchDesiredState
Matches(tls, ca, name) == name # Absent /\ tls = [ca |-> ca, name |-> name]

\* doSyncResult
SyncResult(spec, ca, name) ==
  IF ~ShouldHaveImpersonator(spec) THEN Without("Disabled")
  ELSE IF name = Absent THEN Without("Pending")
  ELSE Strategy("Listening", ca, name)

-----------------------------------------------------------------------------
(* Calls to the API server.                                                *)

NoCall == [verb |-> "none", obj |-> "issuer", value |-> Absent]
Call(verb, o, value) == [verb |-> verb, obj |-> o, value |-> value]

NewService(o, keys) ==
  [keys |-> keys, record |-> keys, address |-> IF o = "clusterip" THEN ClusterIP ELSE Absent]

\* Mutant: when the annotations of the spec have changed, they replace those of the Service.
MutMerged(service, keys) == IF service.record = keys THEN service ELSE [service EXCEPT !.keys = keys, !.record = keys]

\* The annotations of the spec are added, and those are removed that came from the spec
\* and have gone from it.
Merged(service, keys) ==
  [service EXCEPT !.keys = (@ \cup keys) \ (service.record \ keys), !.record = keys]

\* createOrUpdateService, ensureLoadBalancerIsStopped, ensureClusterIPServiceIsStopped
ServiceCall(spec, o, service) ==
  CASE ShouldHaveService(spec, o) /\ service = Absent -> Call("create", o, NewService(o, spec.annotations))
    [] ShouldHaveService(spec, o) /\ service # Absent ->
         IF Merged(service, spec.annotations) = service THEN NoCall
         ELSE Call("update", o, Merged(service, spec.annotations))
    [] OTHER -> IF service = Absent THEN NoCall ELSE Call("delete", o, Absent)

\* The call that a Sync makes in a place, with what it has found out and what it sees.
CallAt(place, s, objects) ==
  CASE place \in {"lb", "clusterip"} -> ServiceCall(s.spec, place, objects[place])
    [] place = "ca" /\ ShouldHaveImpersonator(s.spec) /\ objects.ca = Absent -> Call("create", "ca", count["ca"] + 1)
    [] place = "remove" /\ objects.tls # Absent -> Call("delete", "tls", Absent)
    [] place = "create" -> Call("create", "tls", [ca |-> s.ca, name |-> s.name])
    [] OTHER -> NoCall

MyCall == IF sync.at \in Calling THEN CallAt(sync.at, sync, seen) ELSE NoCall

\* The answer to a call: an error when a new object exists already, or when the version
\* is not the latest.  A deletion of what is gone already is a success (FilterOut).
Accepts(call) ==
  CASE call.verb = "create" -> cluster[call.obj] = Absent
    [] call.verb = "delete" -> cluster[call.obj] = Absent \/ call.obj \notin stale
    [] OTHER -> cluster[call.obj] # Absent /\ call.obj \notin stale

\* The API server has a new version of object o, which the informer will see.
Write(o, value) ==
  /\ cluster' = [cluster EXCEPT ![o] = value]
  /\ stale' = stale \cup {o}
  /\ count' = IF o = "ca" /\ value # Absent THEN [count EXCEPT !["ca"] = @ + 1] ELSE count
  /\ UNCHANGED seen

Change == changes < MaxChanges /\ changes' = changes + 1
\* The writes of a pod that is not the leader fail, and others may.
MayFail == IF leader THEN Change ELSE UNCHANGED changes

-----------------------------------------------------------------------------
(* The first states.                                                       *)

\* The CredentialIssuer of a new installation, and the signer.
New(spec) ==
  [o \in Objects |-> CASE o = "issuer" -> [spec |-> spec, strategy |-> Without("none")]
                       [] o = "signer" -> 1
                       [] OTHER -> Absent]

\* What another pod has made of it, and the annotations that others have put on its Service.
Installed(spec, foreign) ==
  LET has == spec.valid /\ ShouldHaveImpersonator(spec)
      services == [o \in {"lb", "clusterip"} |->
        IF ~(has /\ ShouldHaveService(spec, o)) THEN Absent
        ELSE [keys |-> spec.annotations \cup foreign, record |-> spec.annotations,
              address |-> IF o = "lb" THEN CHOOSE a \in Addresses : TRUE ELSE ClusterIP]]
      name == DesiredName(spec, services)
  IN  [o \in Objects |->
         CASE o = "issuer" ->
                [spec |-> spec, strategy |-> IF spec.valid THEN SyncResult(spec, 1, name) ELSE Without("Error")]
           [] o \in {"lb", "clusterip"} -> services[o]
           [] o = "tls" /\ has -> [ca |-> 1, name |-> name]
           [] o = "signer" \/ (o = "ca" /\ has) -> 1
           [] OTHER -> Absent]

\* The pod is the first one and leads; or it starts when another one leads; or it starts
\* and takes the lead after a time without a leader, in which the spec may have changed.
Init ==
  /\ \E spec \in Specs :
       \/ leader = TRUE /\ cluster = New(spec)
       \/ leader = FALSE /\ cluster = Installed(spec, {})
       \/ \E old \in Earlier, foreign \in SUBSET ForeignKeys :
            leader = TRUE /\ cluster = [Installed(old, foreign) EXCEPT !["issuer"].spec = spec]
  /\ count = [k \in {"ca", "signer"} |-> IF cluster[k] = Absent THEN 0 ELSE 1]
  /\ expired = FALSE
  /\ seen = cluster /\ stale = {} /\ queued = TRUE
  /\ sync = Idle /\ listed = FALSE /\ server = NoServer
  /\ served = Absent /\ signer = Absent
  /\ changes = 0

-----------------------------------------------------------------------------
(* Sync.                                                                   *)

Goto(place) == sync' = [sync EXCEPT !.at = place]

\* Sync loads the CredentialIssuer; a spec that is not valid is an error at once.
Begin ==
  /\ queued /\ sync.at = "idle"
  /\ queued' = FALSE
  /\ sync' = [Idle EXCEPT !.at = IF seen.issuer.spec.valid THEN "server" ELSE "publish",
                          !.spec = seen.issuer.spec, !.old = seen.issuer.strategy,
                          !.fresh = "issuer" \notin stale, !.result = Without("Error")]
  /\ UNCHANGED <<world, informers, listed, server, certs, changes>>

\* The nodes are listed once; the list may fail.
ListNodes ==
  /\ sync.at = "server" /\ ~listed
  /\ \/ listed' = TRUE /\ UNCHANGED <<sync, changes>>
     \/ Change /\ Goto("publish") /\ UNCHANGED listed
  /\ UNCHANGED <<world, informers, queued, server, certs>>

\* ensureImpersonatorIsStarted: a server is started, or it cannot be made.
StartServer ==
  /\ sync.at = "server" /\ listed /\ ShouldHaveImpersonator(sync.spec) /\ ~server.handle
  /\ \/ server' = [server EXCEPT !.handle = TRUE, !.live = @ + 1] /\ Goto("lb") /\ UNCHANGED changes
     \/ Change /\ Goto("publish") /\ UNCHANGED server
  /\ UNCHANGED <<world, informers, queued, listed, certs>>

\* It has been started already: when it has ended it is forgotten, and the error leads to
\* another Sync.
KeepServer ==
  /\ sync.at = "server" /\ listed /\ ShouldHaveImpersonator(sync.spec) /\ server.handle
  /\ IF server.exited THEN server' = NoServer /\ Goto("publish") ELSE Goto("lb") /\ UNCHANGED server
  /\ UNCHANGED <<world, informers, queued, listed, certs, changes>>

\* Mutant: the controller does not wait for the server to end.
MutStopServer ==
  /\ sync.at = "server" /\ listed /\ ~ShouldHaveImpersonator(sync.spec)
  /\ server' = [server EXCEPT !.handle = FALSE, !.stop = server.handle]
  /\ Goto("lb")
  /\ UNCHANGED <<world, informers, queued, listed, certs, changes>>

\* ensureImpersonatorIsStopped closes serverStopCh and waits for errorCh.
StopServer ==
  /\ sync.at = "server" /\ listed /\ ~ShouldHaveImpersonator(sync.spec)
  /\ IF server.handle THEN server' = [server EXCEPT !.stop = TRUE] /\ Goto("stopping")
     ELSE Goto("lb") /\ UNCHANGED server
  /\ UNCHANGED <<world, informers, queued, listed, certs, changes>>

\* The server may have ended with an error, which is the Sync's.
ServerStopped(failed) ==
  /\ sync.at = "stopping" /\ server.exited
  /\ server' = NoServer
  /\ Goto(IF failed THEN "publish" ELSE "lb")
  /\ UNCHANGED <<world, informers, queued, listed, certs, changes>>

\* The goroutine of a server: it ends when it is told to, or by itself; the controller
\* is queued.
ServerEnds ==
  /\ server.live > 0 /\ ~server.exited
  /\ IF server.stop THEN UNCHANGED changes ELSE Change
  /\ server' = [server EXCEPT !.live = @ - 1, !.exited = TRUE]
  /\ queued' = TRUE
  /\ UNCHANGED <<world, informers, sync, listed, certs>>

\* Mutant: a signer that cannot be loaded is not an error.
MutFinish ==
  /\ signer' = IF ~ShouldHaveImpersonator(sync.spec) THEN Absent
               ELSE IF seen.signer = Absent THEN signer ELSE seen.signer
  /\ sync' = [sync EXCEPT !.at = "publish", !.result = SyncResult(sync.spec, sync.ca, sync.name)]

\* loadSignerCA or clearSignerCA, and the result of doSync.
Finish ==
  LET result == SyncResult(sync.spec, sync.ca, sync.name) IN
  /\ signer' = IF ~ShouldHaveImpersonator(sync.spec) THEN Absent
               ELSE IF seen.signer = Absent THEN signer ELSE seen.signer
  /\ sync' = [sync EXCEPT !.at = "publish",
       !.result = IF ShouldHaveImpersonator(sync.spec) /\ seen.signer = Absent THEN Without("Error") ELSE result]

\* What follows a call that was accepted, or that was not needed.
AfterCall ==
  CASE sync.at = "lb" -> Goto("clusterip") /\ UNCHANGED certs
    [] sync.at = "clusterip" ->
         /\ sync' = [sync EXCEPT !.at = "ca",
              !.name = IF ShouldHaveImpersonator(sync.spec) THEN DesiredName(sync.spec, seen) ELSE Absent]
         /\ UNCHANGED certs
    [] sync.at = "ca" ->
         /\ sync' = IF ShouldHaveImpersonator(sync.spec)
                    THEN [sync EXCEPT !.at = "tls", !.ca = IF seen.ca = Absent THEN count["ca"] + 1 ELSE seen.ca]
                    ELSE [sync EXCEPT !.at = "remove"]
         /\ UNCHANGED certs
    [] sync.at = "remove" /\ ShouldHaveImpersonator(sync.spec) ->
         IF sync.name # Absent THEN Goto("create") /\ UNCHANGED certs ELSE Finish /\ UNCHANGED served
    [] sync.at = "remove" /\ ~ShouldHaveImpersonator(sync.spec) -> served' = Absent /\ Finish
    [] sync.at = "create" -> served' = [ca |-> sync.ca, name |-> sync.name] /\ Finish

NothingToCall ==
  /\ sync.at \in Calling /\ MyCall = NoCall
  /\ AfterCall
  /\ UNCHANGED <<world, informers, queued, listed, server, changes>>

\* The API server does what it is asked for.
Accepted ==
  /\ leader /\ MyCall # NoCall /\ Accepts(MyCall)
  /\ IF MyCall.verb = "delete" /\ cluster[MyCall.obj] = Absent
     THEN UNCHANGED <<cluster, count, informers>>
     ELSE Write(MyCall.obj, MyCall.value)
  /\ UNCHANGED <<leader, expired, queued, listed, server>>

CallAccepted == Accepted /\ AfterCall /\ UNCHANGED changes

\* The answer is lost: an error for the Sync, though the call has had its effect.
CallUnanswered == Accepted /\ Change /\ Goto("publish") /\ UNCHANGED certs

\* strategyReasonForError: conflicts with other pods are expected.
CallRefused ==
  /\ leader /\ MyCall # NoCall /\ ~Accepts(MyCall)
  /\ sync' = [sync EXCEPT !.at = "publish", !.result = Without(
       IF MyCall.verb = "update" /\ cluster[MyCall.obj] = Absent THEN "Error" ELSE "Conflict")]
  /\ UNCHANGED <<world, informers, queued, listed, server, certs, changes>>

CallFails ==
  /\ MyCall # NoCall /\ MayFail
  /\ Goto("publish")
  /\ UNCHANGED <<world, informers, queued, listed, server, certs>>

\* ensureTLSSecret: a Secret that fits is loaded, another one is to be removed.  The
\* removal reads the informer again.
JudgeTLS ==
  /\ sync.at = "tls"
  /\ CASE seen.tls = Absent /\ sync.name # Absent -> Goto("create") /\ UNCHANGED certs
       [] seen.tls = Absent /\ sync.name = Absent -> Finish /\ UNCHANGED served
       [] OTHER -> IF Matches(seen.tls, sync.ca, sync.name)
                   THEN served' = seen.tls /\ Finish
                   ELSE Goto("remove") /\ UNCHANGED certs
  /\ UNCHANGED <<world, informers, queued, listed, server, changes>>

\* issuerconfig.Update merges the strategy into the CredentialIssuer that Sync has loaded,
\* and does not write when that changes nothing.
NeedsUpdate == sync.result # sync.old

\* After an error, of doSync or of the update, there is another Sync.
EndSync(failed) ==
  /\ queued' = (queued \/ failed \/ sync.result.reason \in {"Error", "Conflict"})
  /\ sync' = Idle

NothingToPublish ==
  /\ sync.at = "publish" /\ ~NeedsUpdate
  /\ EndSync(FALSE)
  /\ UNCHANGED <<world, informers, listed, server, certs, changes>>

\* The update is made; its answer may be lost.
Publish ==
  /\ leader /\ sync.at = "publish" /\ NeedsUpdate /\ sync.fresh
  /\ \/ EndSync(FALSE) /\ UNCHANGED changes
     \/ EndSync(TRUE) /\ Change
  /\ Write("issuer", [cluster.issuer EXCEPT !.strategy = sync.result])
  /\ UNCHANGED <<leader, expired, listed, server, certs>>

\* A conflict, or any other failure of the update.
PublishFails ==
  /\ sync.at = "publish" /\ NeedsUpdate
  /\ IF sync.fresh THEN MayFail ELSE UNCHANGED changes
  /\ EndSync(TRUE)
  /\ UNCHANGED <<world, informers, listed, server, certs>>

-----------------------------------------------------------------------------
(* The other pods and the CA that signs client certificates.               *)

\* What a Sync finds out that sees the objects as they are.
Current == [spec |-> cluster.issuer.spec, ca |-> cluster.ca, name |-> DesiredName(cluster.issuer.spec, cluster)]
Wanted(place) ==
  LET has == ShouldHaveImpersonator(Current.spec) IN
  /\ Current.spec.valid
  /\ place = "remove" => ~(has /\ Matches(cluster.tls, Current.ca, Current.name))
  /\ place = "create" => has /\ Current.name # Absent /\ cluster.tls = Absent
  /\ CallAt(place, Current, cluster) # NoCall
\* doSync goes through the places in this order.
Order == <<"lb", "clusterip", "ca", "remove", "create">>
CallsOfOthers ==
  {CallAt(Order[i], Current, cluster) : i \in {j \in DOMAIN Order : Wanted(Order[j]) /\ \A k \in 1..(j - 1) : ~Wanted(Order[k])}}

\* A CredentialIssuer that a Sync has loaded is no longer the latest version.
Outdated == [sync EXCEPT !.fresh = FALSE]

OtherPodCalls ==
  /\ ~leader
  /\ \E call \in CallsOfOthers : Write(call.obj, call.value)
  /\ UNCHANGED <<leader, expired, queued, sync, listed, server, certs, changes>>

OtherPodPublishes ==
  LET result == IF Current.spec.valid THEN SyncResult(Current.spec, Current.ca, Current.name) ELSE Without("Error") IN
  /\ ~leader /\ CallsOfOthers = {} /\ result # cluster.issuer.strategy
  /\ Write("issuer", [cluster.issuer EXCEPT !.strategy = result])
  /\ sync' = Outdated
  /\ UNCHANGED <<leader, expired, queued, listed, server, certs, changes>>

\* certsManagerController creates the Secret when there is none.
CreateSigner ==
  /\ leader => seen.signer = Absent
  /\ cluster.signer = Absent
  /\ cluster' = [cluster EXCEPT !["signer"] = count["signer"] + 1]
  /\ count' = [count EXCEPT !["signer"] = @ + 1]
  /\ stale' = stale \cup {"signer"}
  /\ UNCHANGED <<leader, expired, seen, queued, sync, listed, server, certs, changes>>

\* certsExpirerController deletes the version that it saw.
DeleteSigner ==
  /\ expired /\ cluster.signer # Absent /\ (leader => "signer" \notin stale)
  /\ Write("signer", Absent)
  /\ expired' = FALSE
  /\ UNCHANGED <<leader, queued, sync, listed, server, certs, changes>>

-----------------------------------------------------------------------------
(* The informers and the rest of the cluster.                              *)

\* Mutant: the controller does not watch the Secret of the signer.
MutInformerEvent(o) ==
  /\ o \in stale
  /\ stale' = stale \ {o}
  /\ seen' = [seen EXCEPT ![o] = cluster[o]]
  /\ queued' = (queued \/ o # "signer")
  /\ UNCHANGED <<world, sync, listed, server, certs, changes>>

InformerEvent(o) ==
  /\ o \in stale
  /\ stale' = stale \ {o}
  /\ seen' = [seen EXCEPT ![o] = cluster[o]]
  /\ queued' = TRUE
  /\ UNCHANGED <<world, sync, listed, server, certs, changes>>

\* A load balancer is given an address by the cloud, sooner or later.
AssignAddress ==
  /\ cluster.lb # Absent /\ cluster.lb.address = Absent
  /\ \E a \in Addresses : Write("lb", [cluster.lb EXCEPT !.address = a])
  /\ UNCHANGED <<leader, expired, queued, sync, listed, server, certs, changes>>

ChangeSpec ==
  /\ Change
  /\ \E spec \in Specs \ {cluster.issuer.spec} : Write("issuer", [cluster.issuer EXCEPT !.spec = spec])
  /\ sync' = Outdated
  /\ UNCHANGED <<leader, expired, queued, listed, server, certs>>

\* An object is deleted or damaged, a Service gets an annotation, or the load balancer loses
\* its address.
Disturb ==
  /\ Change
  /\ \/ \E o \in {"lb", "clusterip", "ca", "tls"} : cluster[o] # Absent /\ Write(o, Absent)
     \/ cluster.tls \notin {Absent, Corrupt} /\ Write("tls", Corrupt)
     \/ cluster.lb # Absent /\ \E k \in ForeignKeys : Write("lb", [cluster.lb EXCEPT !.keys = @ \cup {k}])
     \/ AddressOf(cluster.lb) # Absent /\ Write("lb", [cluster.lb EXCEPT !.address = Absent])
  /\ UNCHANGED <<leader, expired, queued, sync, listed, server, certs>>

ExpireSigner ==
  /\ Change /\ ~expired /\ expired' = TRUE
  /\ UNCHANGED <<leader, cluster, count, informers, queued, sync, listed, server, certs>>

\* The Lease passes to or from this pod.
ChangeLeader ==
  /\ Change /\ leader' = ~leader
  /\ UNCHANGED <<cluster, count, expired, informers, queued, sync, listed, server, certs>>

\* The pod starts again, with new informers.
Restart ==
  /\ Change
  /\ seen' = cluster /\ stale' = {} /\ queued' = TRUE
  /\ sync' = Idle /\ listed' = FALSE /\ server' = NoServer
  /\ served' = Absent /\ signer' = Absent
  /\ UNCHANGED world

-----------------------------------------------------------------------------
Controller ==
  \/ Begin \/ ListNodes \/ StartServer \/ KeepServer \/ StopServer \/ ServerStopped(FALSE)
  \/ NothingToCall \/ CallAccepted \/ CallUnanswered \/ CallRefused \/ CallFails \/ JudgeTLS
  \/ NothingToPublish \/ Publish \/ PublishFails
Informer == \E o \in Objects : InformerEvent(o)
OtherPod == OtherPodCalls \/ OtherPodPublishes

Next ==
  \/ Controller \/ ServerStopped(TRUE) \/ ServerEnds \/ Informer
  \/ OtherPod \/ CreateSigner \/ DeleteSigner
  \/ AssignAddress \/ ChangeSpec \/ Disturb \/ ExpireSigner \/ ChangeLeader \/ Restart

Spec == Init /\ [][Next]_vars

\* Workers, informers, the leader and the cloud go on, and a server that is told to stop does.
FairSpec ==
  /\ Spec
  /\ WF_vars(Controller) /\ WF_vars(Informer) /\ WF_vars(server.stop /\ ServerEnds)
  /\ WF_vars(OtherPod) /\ WF_vars(CreateSigner \/ DeleteSigner) /\ WF_vars(AssignAddress)

-----------------------------------------------------------------------------
(* Properties.                                                             *)

\* The one port of a pod has one server, which the controller can still stop, whatever is
\* enabled, disabled or ends by itself: ensureImpersonatorIsStopped forgets serverStopCh
\* only when the server has ended.
NoOrphanServer == server.live <= (IF server.handle THEN 1 ELSE 0)

\* What a pod publishes is true of that pod: a client that follows the strategy meets a
\* certificate for that name that the published CA has signed, and the pod can sign client
\* certificates; a pod that says that the proxy is disabled runs no server and has neither
\* a certificate nor a signer.  doSync returns the strategy only after all of its steps.
PublishedIsTrue ==
  [][Publish =>
       CASE sync.result.reason = "Listening" ->
              /\ served = [ca |-> sync.result.ca, name |-> sync.result.name]
              /\ server.handle /\ signer # Absent
         [] sync.result.reason = "Disabled" -> server = NoServer /\ served = Absent /\ signer = Absent
         [] OTHER -> TRUE]_vars

\* createOrUpdateService never takes an annotation from a Service that is not its own.
ForeignKeysStay ==
  [][\A o \in {"lb", "clusterip"} :
       cluster[o] # Absent /\ cluster'[o] # Absent => cluster[o].keys \cap ForeignKeys \subseteq cluster'[o].keys]_vars

\* Everything fits together: the server, the certificate and the signer of this pod, and in
\* the cluster the Services, the Secrets and the strategy, are what the spec asks for.
Fits ==
  LET spec == cluster.issuer.spec
      has == ShouldHaveImpersonator(spec)
      name == DesiredName(spec, cluster)
  IN  IF ~spec.valid THEN cluster.issuer.strategy = Without("Error")
      ELSE /\ cluster.issuer.strategy = SyncResult(spec, cluster.ca, name)
           /\ \A o \in {"lb", "clusterip"} :
                IF ShouldHaveService(spec, o)
                THEN cluster[o] # Absent /\ cluster[o].keys \cap Keys = spec.annotations
                ELSE cluster[o] = Absent
           /\ cluster.tls = IF has /\ name # Absent THEN [ca |-> cluster.ca, name |-> name] ELSE Absent
           /\ server.live = IF has THEN 1 ELSE 0
           /\ signer = IF has THEN cluster.signer ELSE Absent
           /\ ~has \/ name # Absent => served = cluster.tls

\* When users, the cloud and time are done, everything fits together and stays so, whichever
\* pod leads.
ProxyFollowsSpec == <>[]Fits

\* The controller rests only when it is done: with no event on its way, nothing queued and no
\* Sync, everything fits, and the spec is valid.  Sync makes each decision from what the
\* informers know at that moment; no event between its steps is lost, nor is an error, a
\* conflict or the end of the server.
SettledFits == stale = {} /\ ~queued /\ sync.at = "idle" => cluster.issuer.spec.valid /\ Fits

-----------------------------------------------------------------------------
(* The inductive invariant.                                                *)

\* No CA is made but for one that was lost: by a user, or after it got old.
CountsOK ==
  /\ count["ca"] + (IF cluster.ca = Absent THEN 1 ELSE 0) <= changes + 1
  /\ count["signer"] + (IF cluster.signer = Absent THEN 1 ELSE 0) + (IF expired THEN 1 ELSE 0) <= changes + 1

\* One server runs for a serverStopCh, until its result is in errorCh; the channel is
\* closed only by a Sync that waits for that result.
ServerOK ==
  /\ IF server.handle THEN server.live = (IF server.exited THEN 0 ELSE 1) ELSE server = NoServer
  /\ server.stop <=> sync.at = "stopping"
  /\ sync.at = "stopping" => server.handle

\* What the steps of doSync rely on that come after the server's.
SyncOK ==
  LET has == ShouldHaveImpersonator(sync.spec) IN
  /\ sync.at = "stopping" => ~has
  /\ sync.at \in Calling \cup {"tls"} => IF has THEN server.handle ELSE server = NoServer
  /\ sync.at \in {"tls", "create"} => has
  /\ sync.at \in {"tls", "create"} \/ (sync.at = "remove" /\ has) => sync.ca # 0
  /\ sync.at = "create" => sync.name # Absent
  /\ sync.at \notin {"idle", "publish"} => sync.result = Without("Error")

\* What the strategy says that a Sync is about to publish.
ResultOK ==
  sync.at = "publish" =>
    /\ sync.result.reason = "Listening" =>
         /\ served = [ca |-> sync.result.ca, name |-> sync.result.name]
         /\ server.handle /\ signer # Absent
    /\ sync.result.reason = "Disabled" => server = NoServer /\ served = Absent /\ signer = Absent

Inv ==
  /\ TypeOK /\ DOMAIN cluster = Objects /\ DOMAIN seen = Objects
  /\ CountsOK /\ ServerOK /\ SyncOK /\ ResultOK

\* A Sync has passed these places, or has ended without an error.
Past(places) ==
  \/ sync.at \in places \cup {"idle"}
  \/ sync.at = "publish" /\ sync.result.reason \notin {"Error", "Conflict"}

\* What a Sync has achieved in the places that it has passed, as long as nothing queues
\* another one.  Either the informers know an object as it should be, or it was written and
\* an event will come.
SeenName == IF ShouldHaveImpersonator(seen.issuer.spec) THEN DesiredName(seen.issuer.spec, seen) ELSE Absent

StartedOK ==
  /\ sync.at # "idle" => sync.spec = seen.issuer.spec /\ sync.old = seen.issuer.strategy
  /\ Past(Places \ {"publish"}) => seen.issuer.spec.valid
  /\ Past(Calling \cup {"tls"}) =>
       IF ShouldHaveImpersonator(seen.issuer.spec) THEN server.handle /\ ~server.exited ELSE server = NoServer

ServiceDone(o) == o \in stale \/ ServiceCall(seen.issuer.spec, o, seen[o]) = NoCall
ServicesOK ==
  /\ Past({"clusterip", "ca", "tls", "remove", "create"}) => ServiceDone("lb")
  /\ Past({"ca", "tls", "remove", "create"}) => ServiceDone("clusterip")
  /\ sync.at \in {"ca", "tls", "remove", "create"} => sync.name = SeenName

TLSOK ==
  LET has == ShouldHaveImpersonator(seen.issuer.spec) IN
  /\ sync.at \in {"tls", "remove", "create"} /\ has => "ca" \in stale \/ sync.ca = seen.ca
  /\ sync.at = "remove" /\ has => seen.tls # Absent
  /\ Past({}) =>
       /\ \/ "tls" \in stale
          \/ seen.tls = Absent /\ (~has \/ SeenName = Absent)
          \/ has /\ SeenName # Absent /\ seen.tls = served /\ ("ca" \in stale \/ served = [ca |-> seen.ca, name |-> SeenName])
       /\ ~has => served = Absent
       /\ signer = IF has THEN seen.signer ELSE Absent

StrategyOK ==
  "ca" \in stale \/
    /\ sync.at = "publish" /\ Past({}) => sync.result = SyncResult(seen.issuer.spec, seen.ca, SeenName)
    /\ sync.at = "idle" => "issuer" \in stale \/ seen.issuer.strategy = SyncResult(seen.issuer.spec, seen.ca, SeenName)

WorkOK == ~queued => StartedOK /\ ServicesOK /\ TLSOK /\ StrategyOK
=============================================================================
