-------------------------- MODULE FederationDomains --------------------------
(***************************************************************************)
(* How FederationDomains become issuers that a Supervisor pod serves.  The *)
(* watcher judges all FederationDomains together, writes each one's status *)
(* and hands those that it approved to the issuer manager; the TLS         *)
(* observer keeps the certificate of each issuer's host.                   *)
(*                                                                         *)
(*   internal/controller/supervisorconfig/federation_domain_watcher.go     *)
(*   internal/controller/supervisorconfig/tls_cert_observer.go             *)
(*   internal/oidc/provider/federation_domain_issuer.go                    *)
(*   internal/oidc/provider/manager/manager.go                             *)
(*   internal/oidc/provider/dynamic_tls_cert_provider.go                   *)
(*                                                                         *)
(* A spec stands for an issuer URL, by what the code tells apart: does it  *)
(* parse, is it valid, the key by which duplicates are found, its host,    *)
(* and the name of its TLS Secret.  The other fields of the status belong  *)
(* to other controllers (module IssuerSecrets and the JWKS writer), which  *)
(* write the same object.                                                  *)
(*                                                                         *)
(* Every pod runs these controllers, but only the leader's writes pass.    *)
(* Pods are those that are followed in detail; when another one leads, its *)
(* watcher writes the same conditions, with an informer that is up to      *)
(* date.                                                                   *)
(***************************************************************************)
EXTENDS Naturals, FiniteSets

CONSTANTS
  Pods,
  OtherPod,     \* stands for all other pods
  Names,        \* of FederationDomains
  Specs,        \* what their specs can be
  TLSSecrets,   \* names of TLS Secrets
  Certs, NoCert,
  OldDomains,   \* the FederationDomains before the Supervisor starts
  OldCerts,     \* and the certificates in the TLS Secrets
  NoTLS,        \* a spec that names no TLS Secret
  DefaultTLS,   \* the TLS Secret of the default certificate
  MaxChanges    \* bound: changes by users and other writers, failures and restarts

Issuers == {s.issuer : s \in Specs}
Hosts == {s.host : s \in Specs}

\* What the code tells apart of an issuer URL; validate parses it first.
IssuerSpecs ==
  {s \in [parses : BOOLEAN, valid : BOOLEAN, issuer : Issuers, host : Hosts, tls : TLSSecrets \cup {NoTLS}] :
     s.valid => s.parses}

ASSUME SpecsAssumption == Specs \subseteq IssuerSpecs
ASSUME NamesAssumption ==
  IsFiniteSet(Names) /\ OtherPod \notin Pods /\ NoTLS \notin TLSSecrets /\ DefaultTLS \in TLSSecrets /\ NoCert \notin Certs
ASSUME CertsAssumption == OldCerts \in [TLSSecrets -> Certs \cup {NoCert}]
ASSUME BoundAssumption == MaxChanges \in Nat

\* At most one FederationDomain for each name: sets with at most one element.
Maybe(S) == {{}} \cup {{x} : x \in S}
Listings == [Names -> Maybe(Specs)]
ASSUME DomainsAssumption == OldDomains \subseteq Listings

VARIABLES
  leader,     \* whose writes pass
  domain,     \* the FederationDomains: at most one for each name
  cert,       \* the certificate in each TLS Secret
  seen,       \* the specs of the FederationDomains in the informer of a pod
  stale,      \* the FederationDomains that were written since the informer last saw them
  seenCert,   \* the TLS Secrets in the informers of a pod
  queued,     \* which controllers of a pod have something to do
  watcher,    \* the Sync of a pod's watcher
  providers,  \* Manager.providers: the specs of the issuers that a pod serves
  hostCert,   \* issuerHostToTLSCertMap
  defaultCert,
  changes

vars == <<leader, domain, cert, seen, stale, seenCert, queued, watcher, providers, hostCert, defaultCert, changes>>

Conditions == {"none", "Duplicate", "SameIssuerHostMustUseSameSecret", "Invalid", "Success"}
Statuses == [status : Conditions, about : Issuers \cup Hosts \cup {"none"}]
Domains == [spec : Specs, condition : Statuses, secrets : BOOLEAN]
NoStatus == [status |-> "none", about |-> "none"]

The(S) == CHOOSE x \in S : TRUE

IdleWatcher == [at |-> "idle", list |-> [n \in Names |-> {}], todo |-> {}, got |-> FALSE,
                name |-> {}, fresh |-> FALSE, approved |-> {}, failed |-> FALSE]

TypeOK ==
  /\ leader \in Pods \cup {OtherPod}
  /\ domain \in [Names -> Maybe(Domains)]
  /\ cert \in [TLSSecrets -> Certs \cup {NoCert}]
  /\ seen \in [Pods -> Listings]
  /\ stale \in [Pods -> SUBSET Names]
  /\ seenCert \in [Pods -> [TLSSecrets -> Certs \cup {NoCert}]]
  /\ queued \in [Pods -> SUBSET {"watcher", "tls"}]
  /\ watcher \in [Pods -> [at : {"idle", "looping", "updating"}, list : Listings, todo : SUBSET Names,
                           got : BOOLEAN, name : Maybe(Names), fresh : BOOLEAN,
                           approved : SUBSET Specs, failed : BOOLEAN]]
  /\ \A p \in Pods : watcher[p].at = "updating" => watcher[p].name # {}
  /\ \A p \in Pods : \A n \in watcher[p].todo : watcher[p].list[n] # {}
  /\ providers \in [Pods -> SUBSET {s \in Specs : s.valid}]
  /\ hostCert \in [Pods -> [Hosts -> Certs \cup {NoCert}]]
  /\ defaultCert \in [Pods -> Certs \cup {NoCert}]
  /\ changes \in 0..MaxChanges

\* The specs of FederationDomains, which is all that the controllers use of a list.
SpecsIn(domains) == [n \in Names |-> {d.spec : d \in domains[n]}]
New(spec) == [spec |-> spec, condition |-> NoStatus, secrets |-> FALSE]

\* The informers of a pod that starts queue a key for what they list.
FirstKeys ==
  (IF \E n \in Names : domain[n] # {} THEN {"watcher", "tls"} ELSE {})
    \cup (IF \E t \in TLSSecrets : cert[t] # NoCert THEN {"tls"} ELSE {})

-----------------------------------------------------------------------------
(* What the controllers compute from a list of FederationDomains.          *)

Listed(list) == {n \in Names : list[n] # {}}
SpecOf(list, n) == The(list[n])
Parsed(list) == {n \in Listed(list) : SpecOf(list, n).parses}

\* issuerCounts and uniqueSecretNamesPerIssuerAddress
SameIssuer(list, spec) == {n \in Parsed(list) : SpecOf(list, n).issuer = spec.issuer}
\* Mutant: only the Secret of the same issuer counts, not those of the same host.
MutSecretNames(list, spec) == {SpecOf(list, n).tls : n \in SameIssuer(list, spec)} \ {NoTLS}

SecretNames(list, spec) ==
  {SpecOf(list, n).tls : n \in {m \in Parsed(list) : SpecOf(list, m).host = spec.host}} \ {NoTLS}

\* The status that the watcher gives to a FederationDomain of the list, with its message.
Judge(list, n) ==
  LET spec == SpecOf(list, n) IN
  IF spec.parses /\ Cardinality(SameIssuer(list, spec)) > 1
  THEN [status |-> "Duplicate", about |-> spec.issuer]
  ELSE IF spec.parses /\ Cardinality(SecretNames(list, spec)) > 1
  THEN [status |-> "SameIssuerHostMustUseSameSecret", about |-> spec.host]
  ELSE IF ~spec.valid
  THEN [status |-> "Invalid", about |-> "none"]
  ELSE [status |-> "Success", about |-> "none"]

Approved(list) == {SpecOf(list, n) : n \in {m \in Listed(list) : Judge(list, m).status = "Success"}}

\* The certificates that FederationDomains of the list name for a host.
CertsFor(list, certs, h) ==
  {certs[SpecOf(list, n).tls] : n \in {m \in Parsed(list) : SpecOf(list, m).host = h /\ SpecOf(list, m).tls # NoTLS}}
    \ {NoCert}

\* Users may have made FederationDomains and TLS Secrets before the Supervisor starts; when
\* another pod leads it has judged them already.
Init ==
  /\ leader \in Pods \cup {OtherPod}
  /\ \E old \in OldDomains :
       domain = [n \in Names |-> {[New(s) EXCEPT !.condition = IF leader = OtherPod THEN Judge(old, n) ELSE @] : s \in old[n]}]
  /\ cert = OldCerts
  /\ seen = [p \in Pods |-> SpecsIn(domain)]
  /\ stale = [p \in Pods |-> {}]
  /\ seenCert = [p \in Pods |-> cert]
  /\ queued = [p \in Pods |-> FirstKeys]
  /\ watcher = [p \in Pods |-> IdleWatcher]
  /\ providers = [p \in Pods |-> {}]
  /\ hostCert = [p \in Pods |-> [h \in Hosts |-> NoCert]]
  /\ defaultCert = [p \in Pods |-> NoCert]
  /\ changes = 0

-----------------------------------------------------------------------------
(* The cluster and the informers.                                          *)

\* The FederationDomain n is written: who read it before will meet a conflict, and the
\* informers have something to tell.
Conflicting(n) ==
  [p \in Pods |-> IF n \in watcher[p].name THEN [watcher[p] EXCEPT !.fresh = FALSE] ELSE watcher[p]]

AllStale(n) == [p \in Pods |-> stale[p] \cup {n}]

Change == changes < MaxChanges /\ changes' = changes + 1

\* A user creates or changes a FederationDomain, or deletes it.
ChangeDomain(n, to) ==
  /\ Change
  /\ domain' = [domain EXCEPT ![n] =
       IF to = {} \/ @ = {} THEN {New(s) : s \in to}
       ELSE {[The(@) EXCEPT !.spec = The(to)]}]
  /\ domain' # domain
  /\ watcher' = Conflicting(n)
  /\ stale' = AllStale(n)
  /\ UNCHANGED <<leader, cert, seen, seenCert, queued, providers, hostCert, defaultCert>>

\* Another controller names its Secret in the status.
OtherStatusWriter(n) ==
  /\ Change
  /\ domain[n] # {} /\ ~The(domain[n]).secrets
  /\ domain' = [domain EXCEPT ![n] = {[The(@) EXCEPT !.secrets = TRUE]}]
  /\ watcher' = Conflicting(n)
  /\ stale' = AllStale(n)
  /\ UNCHANGED <<leader, cert, seen, seenCert, queued, providers, hostCert, defaultCert>>

ChangeCert(t, c) ==
  /\ Change
  /\ cert[t] # c
  /\ cert' = [cert EXCEPT ![t] = c]
  /\ UNCHANGED <<leader, domain, seen, stale, seenCert, queued, watcher, providers, hostCert, defaultCert>>

\* The Lease passes to another pod.
ChangeLeader ==
  /\ Change
  /\ \E p \in (Pods \cup {OtherPod}) \ {leader} : leader' = p
  /\ UNCHANGED <<domain, cert, seen, stale, seenCert, queued, watcher, providers, hostCert, defaultCert>>

\* The watcher of another pod, which leads, writes the condition of a FederationDomain.
OtherPodUpdates(n) ==
  /\ leader = OtherPod /\ domain[n] # {} /\ The(domain[n]).condition # Judge(SpecsIn(domain), n)
  /\ domain' = [domain EXCEPT ![n] = {[The(@) EXCEPT !.condition = Judge(SpecsIn(domain), n)]}]
  /\ watcher' = Conflicting(n)
  /\ stale' = AllStale(n)
  /\ UNCHANGED <<leader, cert, seen, seenCert, queued, providers, hostCert, defaultCert, changes>>

\* Mutant: an event during a Sync is dropped.
MutDomainEvent(p, n) ==
  /\ n \in stale[p]
  /\ stale' = [stale EXCEPT ![p] = @ \ {n}]
  /\ seen' = [seen EXCEPT ![p][n] = SpecsIn(domain)[n]]
  /\ queued' = [queued EXCEPT ![p] = IF watcher[p].at = "idle" THEN {"watcher", "tls"} ELSE @ \cup {"tls"}]
  /\ UNCHANGED <<leader, domain, cert, seenCert, watcher, providers, hostCert, defaultCert, changes>>

DomainEvent(p, n) ==
  /\ n \in stale[p]
  /\ stale' = [stale EXCEPT ![p] = @ \ {n}]
  /\ seen' = [seen EXCEPT ![p][n] = SpecsIn(domain)[n]]
  /\ queued' = [queued EXCEPT ![p] = {"watcher", "tls"}]
  /\ UNCHANGED <<leader, domain, cert, seenCert, watcher, providers, hostCert, defaultCert, changes>>

CertEvent(p, t) ==
  /\ seenCert[p][t] # cert[t]
  /\ seenCert' = [seenCert EXCEPT ![p][t] = cert[t]]
  /\ queued' = [queued EXCEPT ![p] = @ \cup {"tls"}]
  /\ UNCHANGED <<leader, domain, cert, seen, stale, watcher, providers, hostCert, defaultCert, changes>>

\* The pod starts again with new informers.
Restart(p) ==
  /\ Change
  /\ seen' = [seen EXCEPT ![p] = SpecsIn(domain)]
  /\ stale' = [stale EXCEPT ![p] = {}]
  /\ seenCert' = [seenCert EXCEPT ![p] = cert]
  /\ queued' = [queued EXCEPT ![p] = FirstKeys]
  /\ watcher' = [watcher EXCEPT ![p] = IdleWatcher]
  /\ providers' = [providers EXCEPT ![p] = {}]
  /\ hostCert' = [hostCert EXCEPT ![p] = [h \in Hosts |-> NoCert]]
  /\ defaultCert' = [defaultCert EXCEPT ![p] = NoCert]
  /\ UNCHANGED <<leader, domain, cert>>

-----------------------------------------------------------------------------
(* The watcher of pod p.                                                   *)

\* Sync lists the FederationDomains that the informer knows.
List(p) ==
  /\ "watcher" \in queued[p] /\ watcher[p].at = "idle"
  /\ queued' = [queued EXCEPT ![p] = @ \ {"watcher"}]
  /\ watcher' = [watcher EXCEPT ![p] = [IdleWatcher EXCEPT !.at = "looping", !.list = seen[p], !.todo = Listed(seen[p])]]
  /\ UNCHANGED <<leader, domain, cert, seen, stale, seenCert, providers, hostCert, defaultCert, changes>>

\* The FederationDomain n is done: if it was approved, and that was written, it is served.
Done(p, n) ==
  LET w == watcher[p] IN
  [w EXCEPT !.at = "looping", !.todo = @ \ {n}, !.got = FALSE, !.name = {}, !.fresh = FALSE,
            !.approved = IF Judge(w.list, n).status = "Success" THEN @ \cup {SpecOf(w.list, n)} ELSE @]

\* It could not be written: it is not served, and the key will be queued again.
Failed(p, n) ==
  [watcher[p] EXCEPT !.at = "looping", !.todo = @ \ {n}, !.got = FALSE, !.name = {}, !.fresh = FALSE, !.failed = TRUE]

\* Mutant: a status that is right already is written all the same.
MutGetDomain(p, n) ==
  /\ watcher[p].at = "looping" /\ n \in watcher[p].todo
  /\ watcher' = [watcher EXCEPT ![p] =
       IF domain[n] = {} THEN Failed(p, n)
       ELSE [@ EXCEPT !.at = "updating", !.got = The(domain[n]).secrets, !.name = {n}, !.fresh = TRUE]]
  /\ UNCHANGED <<leader, domain, cert, seen, stale, seenCert, queued, providers, hostCert, defaultCert, changes>>

\* updateStatus gets the FederationDomain from the cluster.
GetDomain(p, n) ==
  /\ watcher[p].at = "looping" /\ n \in watcher[p].todo
  /\ watcher' = [watcher EXCEPT ![p] =
       IF domain[n] = {} THEN Failed(p, n)
       ELSE IF The(domain[n]).condition = Judge(watcher[p].list, n) THEN Done(p, n)
       ELSE [@ EXCEPT !.at = "updating", !.got = The(domain[n]).secrets, !.name = {n}, !.fresh = TRUE]]
  /\ UNCHANGED <<leader, domain, cert, seen, stale, seenCert, queued, providers, hostCert, defaultCert, changes>>

\* Mutant: the write does not name the version that was read.
MutUpdateStatus(p, n) ==
  /\ p = leader /\ watcher[p].at = "updating" /\ n \in watcher[p].name /\ domain[n] # {}
  /\ domain' = [domain EXCEPT ![n] = {[The(@) EXCEPT !.condition = Judge(watcher[p].list, n), !.secrets = watcher[p].got]}]
  /\ watcher' = [Conflicting(n) EXCEPT ![p] = Done(p, n)]
  /\ stale' = AllStale(n)
  /\ UNCHANGED <<leader, cert, seen, seenCert, queued, providers, hostCert, defaultCert, changes>>

\* UpdateStatus writes the status of the object that was read.
UpdateStatus(p, n) ==
  /\ p = leader /\ watcher[p].at = "updating" /\ n \in watcher[p].name /\ watcher[p].fresh
  /\ domain' = [domain EXCEPT ![n] = {[The(@) EXCEPT !.condition = Judge(watcher[p].list, n),
                                                     !.secrets = watcher[p].got]}]
  /\ watcher' = [Conflicting(n) EXCEPT ![p] = Done(p, n)]
  /\ stale' = AllStale(n)
  /\ UNCHANGED <<leader, cert, seen, seenCert, queued, providers, hostCert, defaultCert, changes>>

\* RetryOnConflict gets the object again.
Conflict(p, n) ==
  /\ p = leader /\ watcher[p].at = "updating" /\ n \in watcher[p].name /\ ~watcher[p].fresh /\ domain[n] # {}
  /\ watcher' = [watcher EXCEPT ![p] = [@ EXCEPT !.at = "looping", !.got = FALSE, !.name = {}]]
  /\ UNCHANGED <<leader, domain, cert, seen, stale, seenCert, queued, providers, hostCert, defaultCert, changes>>

\* A call fails: since the pod is not the leader, since the FederationDomain is gone, or for
\* another reason.
CallFails(p, n) ==
  /\ \/ watcher[p].at = "looping" /\ n \in watcher[p].todo /\ Change
     \/ /\ watcher[p].at = "updating" /\ n \in watcher[p].name
        /\ IF p # leader \/ domain[n] = {} THEN UNCHANGED changes ELSE Change
  /\ watcher' = [watcher EXCEPT ![p] = Failed(p, n)]
  /\ UNCHANGED <<leader, domain, cert, seen, stale, seenCert, queued, providers, hostCert, defaultCert>>

\* SetProviders replaces all issuers of the pod at once.  If there was an error, handleKey
\* queues the key again.
SetProviders(p) ==
  /\ watcher[p].at = "looping" /\ watcher[p].todo = {}
  /\ providers' = [providers EXCEPT ![p] = watcher[p].approved]
  /\ queued' = [queued EXCEPT ![p] = IF watcher[p].failed THEN @ \cup {"watcher"} ELSE @]
  /\ watcher' = [watcher EXCEPT ![p] = IdleWatcher]
  /\ UNCHANGED <<leader, domain, cert, seen, stale, seenCert, hostCert, defaultCert, changes>>

-----------------------------------------------------------------------------
(* The TLS observer of pod p.                                              *)

\* Mutant: while a Secret is missing, Sync is an error and sets nothing.
MutObserveTLS(p) ==
  /\ "tls" \in queued[p]
  /\ \A n \in Parsed(seen[p]) : SpecOf(seen[p], n).tls # NoTLS => seenCert[p][SpecOf(seen[p], n).tls] # NoCert
  /\ queued' = [queued EXCEPT ![p] = @ \ {"tls"}]
  /\ hostCert' = [hostCert EXCEPT ![p] = [h \in Hosts |->
       LET found == CertsFor(seen[p], seenCert[p], h) IN IF found = {} THEN NoCert ELSE The(found)]]
  /\ defaultCert' = [defaultCert EXCEPT ![p] = seenCert[p][DefaultTLS]]
  /\ UNCHANGED <<leader, domain, cert, seen, stale, seenCert, watcher, providers, changes>>

\* Sync builds the map anew.  Of several FederationDomains with the same host, the last
\* in the list wins, and a list has no order to rely on.
ObserveTLS(p) ==
  /\ "tls" \in queued[p]
  /\ queued' = [queued EXCEPT ![p] = @ \ {"tls"}]
  /\ \E to \in [Hosts -> Certs \cup {NoCert}] :
       /\ \A h \in Hosts : LET found == CertsFor(seen[p], seenCert[p], h) IN
            to[h] \in IF found = {} THEN {NoCert} ELSE found
       /\ hostCert' = [hostCert EXCEPT ![p] = to]
  /\ defaultCert' = [defaultCert EXCEPT ![p] = seenCert[p][DefaultTLS]]
  /\ UNCHANGED <<leader, domain, cert, seen, stale, seenCert, watcher, providers, changes>>

-----------------------------------------------------------------------------
Watcher(p) == \/ List(p) \/ SetProviders(p)
              \/ \E n \in Names : GetDomain(p, n) \/ UpdateStatus(p, n) \/ Conflict(p, n) \/ CallFails(p, n)
Informer(p) == (\E n \in Names : DomainEvent(p, n)) \/ (\E t \in TLSSecrets : CertEvent(p, t))
Cluster == \/ \E n \in Names, to \in Maybe(Specs) : ChangeDomain(n, to)
           \/ \E n \in Names : OtherStatusWriter(n)
           \/ \E t \in TLSSecrets, c \in Certs \cup {NoCert} : ChangeCert(t, c)
           \/ \E p \in Pods : Restart(p)
           \/ ChangeLeader
OtherLeader == \E n \in Names : OtherPodUpdates(n)
Next == Cluster \/ OtherLeader \/ \E p \in Pods : Watcher(p) \/ Informer(p) \/ ObserveTLS(p)
Spec == Init /\ [][Next]_vars

\* The workers, informers and the leader go on.
FairSpec ==
  /\ Spec
  /\ \A p \in Pods : WF_vars(Watcher(p)) /\ WF_vars(Informer(p)) /\ WF_vars(ObserveTLS(p))
  /\ WF_vars(OtherLeader)

-----------------------------------------------------------------------------
(* Properties.                                                             *)

\* A pod never serves two FederationDomains with one issuer, nor two that want different
\* certificates for one host, however late its informers are (Sync approves nothing that
\* it did not judge together).
ServedAreCompatible ==
  \A p \in Pods : \A a, b \in providers[p] :
    /\ a.issuer = b.issuer => a = b
    /\ a.host = b.host => a.tls = b.tls \/ NoTLS \in {a.tls, b.tls}

\* The watcher never changes what other controllers wrote to the status of the same
\* object between its Get and its UpdateStatus.
OtherStatusKept ==
  [][\A p \in Pods, n \in Names :
       UpdateStatus(p, n) => The(domain'[n]).secrets = The(domain[n]).secrets]_vars

\* When users are done, all pods get to serve and keep exactly the FederationDomains that
\* are valid and have no rival, and the status of each says so: a follower, which may not
\* write the status, tries again until the leader has.
ServedFollowDomains ==
  <>[](/\ \A p \in Pods : providers[p] = Approved(SpecsIn(domain))
       /\ \A n \in Listed(domain) : The(domain[n]).condition = Judge(SpecsIn(domain), n))

\* In the end a pod has, for the host of each issuer that it serves with a TLS Secret,
\* just the certificate in that Secret: the order in which the observer meets the
\* FederationDomains does not matter, since the watcher approves none with a rival.  The
\* default certificate follows its Secret as well.
HostsGetTheirCerts ==
  <>[](\A p \in Pods :
         /\ \A spec \in providers[p] : spec.tls # NoTLS => hostCert[p][spec.host] = cert[spec.tls]
         /\ defaultCert[p] = cert[DefaultTLS])

\* Pod p has nothing to do: its informers are up to date, and no controller runs or is queued.
Settled(p) == stale[p] = {} /\ seenCert[p] = cert /\ queued[p] = {} /\ watcher[p].at = "idle"

\* A pod rests only when it is done: then it serves exactly the FederationDomains that are
\* valid and have no rival, the status of each says so, and it has the certificate of every
\* host.  No event is lost, however the Syncs of the pods, their conflicts and failures and
\* the writes of others interleave, though Sync neither locks what it reads nor reads it
\* again.
SettledIsRight ==
  \A p \in Pods : Settled(p) =>
    /\ providers[p] = Approved(SpecsIn(domain))
    /\ \A n \in Listed(domain) : The(domain[n]).condition = Judge(SpecsIn(domain), n)
    /\ \A spec \in providers[p] : spec.tls # NoTLS => hostCert[p][spec.host] = cert[spec.tls]
    /\ defaultCert[p] = cert[DefaultTLS]
-----------------------------------------------------------------------------
(* The inductive invariant.                                                *)

\* What the watcher has approved so far, it approved with all that it listed, and what it
\* is at is still to be done.
ApprovedOK ==
  \A p \in Pods : watcher[p].approved \subseteq Approved(watcher[p].list) /\ watcher[p].name \subseteq watcher[p].todo

\* What a pod serves was approved together.
ServedOK == \A p \in Pods : \E list \in Listings : providers[p] \subseteq Approved(list)

\* Until somebody writes the FederationDomain that a watcher has read, it is as it was read.
FreshOK ==
  \A p \in Pods : watcher[p].fresh =>
    \A n \in watcher[p].name : domain[n] # {} /\ The(domain[n]).secrets = watcher[p].got

\* What is not stale is known.  While no new event has queued the watcher, the Sync that
\* runs has listed what the informer knows.
SeenOK(p) ==
  /\ \A n \in Names \ stale[p] : seen[p][n] = SpecsIn(domain)[n]
  /\ "watcher" \notin queued[p] /\ watcher[p].at # "idle" => watcher[p].list = seen[p]
  /\ watcher[p].at = "idle" => watcher[p].todo = {} /\ ~watcher[p].failed

\* What a Sync without an error has done, and the last one if no event came after it: it
\* has approved all that it should have, and has met the status that it would give, unless
\* there was a write of which the informer will tell.
Quiet(p) == "watcher" \notin queued[p] /\ ~watcher[p].failed
JudgedOK(p) ==
  Quiet(p) => \A n \in Listed(domain) \ (stale[p] \cup watcher[p].todo) : The(domain[n]).condition = Judge(seen[p], n)
CollectedOK(p) ==
  /\ watcher[p].at # "idle" /\ ~watcher[p].failed =>
       \A n \in Listed(watcher[p].list) \ watcher[p].todo :
         Judge(watcher[p].list, n).status = "Success" => SpecOf(watcher[p].list, n) \in watcher[p].approved
  /\ watcher[p].at = "idle" /\ "watcher" \notin queued[p] => providers[p] = Approved(seen[p])

\* The same of the TLS observer.
ObservedOK(p) ==
  "tls" \notin queued[p] =>
    /\ \A h \in Hosts : LET found == CertsFor(seen[p], seenCert[p], h) IN
         hostCert[p][h] \in IF found = {} THEN {NoCert} ELSE found
    /\ defaultCert[p] = seenCert[p][DefaultTLS]

PodOK(p) == SeenOK(p) /\ JudgedOK(p) /\ CollectedOK(p) /\ ObservedOK(p)
EventsOK == \A p \in Pods : PodOK(p)

Inv == TypeOK /\ ApprovedOK /\ ServedOK /\ FreshOK
=============================================================================
