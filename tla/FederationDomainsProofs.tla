----------------------- MODULE FederationDomainsProofs -----------------------
(***************************************************************************)
(* Proofs about FederationDomains for any pods, names, specs, certificates *)
(* and number of changes.                                                  *)
(*                                                                         *)
(* That the issuers which a pod serves are compatible is a fact about      *)
(* Approved: of one list, the watcher approves nothing with a rival.  The  *)
(* invariant says that a pod serves, and a Sync collects, only what was    *)
(* approved of one list.  That UpdateStatus keeps what others wrote rests  *)
(* on FreshOK: the version that it names is the one that it has read.      *)
(***************************************************************************)
EXTENDS FederationDomains, FiniteSetTheorems, TLAPS

\* The provers of a leaf that names none, with time to spare on a busy machine.
USE SMTT(30), ZenonT(60)

-----------------------------------------------------------------------------
(* Sets with at most one element, and what the watcher computes.           *)

\* The element of a set with one element.
LEMMA TheIs == \A x : The({x}) = x
  BY DEF The

\* Such a set is determined by its element.
LEMMA MaybeIs ==
  ASSUME NEW S, NEW m \in Maybe(S), m # {}
  PROVE  The(m) \in S /\ m = {The(m)}
<1>1. PICK x \in S : m = {x}
  BY DEF Maybe
<1> QED
  BY <1>1, TheIs

\* A watcher that waits for its queue has nothing left to do.
LEMMA IdleIs == IdleWatcher.at = "idle" /\ IdleWatcher.todo = {} /\ IdleWatcher.failed = FALSE
  BY DEF IdleWatcher

\* What a list says of a FederationDomain in it.
LEMMA SpecOfTyped ==
  ASSUME NEW list \in Listings, NEW n \in Names, list[n] # {}
  PROVE  SpecOf(list, n) \in Specs
<1>1. list[n] \in Maybe(Specs)
  BY DEF Listings
<1> QED
  BY <1>1, MaybeIs DEF SpecOf

\* The fields of a spec; one that is valid parses.
LEMMA SpecTyped ==
  ASSUME NEW s \in Specs
  PROVE  /\ s.parses \in BOOLEAN /\ s.valid \in BOOLEAN /\ s.issuer \in Issuers /\ s.host \in Hosts
         /\ s.tls \in TLSSecrets \cup {NoTLS} /\ (s.valid => s.parses)
  BY SpecsAssumption DEF IssuerSpecs

\* The controllers' lists are made of FederationDomains.
LEMMA SpecsInTyped ==
  ASSUME NEW domains \in [Names -> Maybe(Domains)]
  PROVE  /\ SpecsIn(domains) \in Listings
         /\ \A n \in Names : domains[n] # {} => SpecsIn(domains)[n] # {}
<1>1. ASSUME NEW n \in Names PROVE {d.spec : d \in domains[n]} \in Maybe(Specs)
  <2>1. CASE domains[n] = {}
    BY <2>1 DEF Maybe
  <2>2. CASE domains[n] # {}
    <3>1. PICK x \in Domains : domains[n] = {x}
      BY <2>2 DEF Maybe
    <3>2. {d.spec : d \in domains[n]} = {x.spec} /\ x.spec \in Specs
      BY <3>1 DEF Domains
    <3> QED
      BY <3>2 DEF Maybe
  <2> QED
    BY <2>1, <2>2
<1> QED
  BY <1>1 DEF SpecsIn, Listings

\* A status is typed, and success means that the issuer is valid and has no rival.
LEMMA JudgeIs ==
  ASSUME NEW list \in Listings, NEW n \in Names, list[n] # {}
  PROVE  /\ Judge(list, n) \in Statuses
         /\ Judge(list, n).status = "Success" =>
              /\ SpecOf(list, n).valid /\ SpecOf(list, n).parses
              /\ ~(Cardinality(SameIssuer(list, SpecOf(list, n))) > 1)
              /\ ~(Cardinality(SecretNames(list, SpecOf(list, n))) > 1)
<1> DEFINE spec == SpecOf(list, n)
<1>1. spec \in Specs
  BY SpecOfTyped
<1>2. spec.issuer \in Issuers /\ spec.host \in Hosts /\ spec.valid \in BOOLEAN /\ (spec.valid => spec.parses)
  BY <1>1, SpecTyped
<1> DEFINE duplicate == spec.parses /\ Cardinality(SameIssuer(list, spec)) > 1
           rival == spec.parses /\ Cardinality(SecretNames(list, spec)) > 1
           invalid == ~spec.valid
<1>3. Judge(list, n) =
        IF duplicate THEN [status |-> "Duplicate", about |-> spec.issuer]
        ELSE IF rival THEN [status |-> "SameIssuerHostMustUseSameSecret", about |-> spec.host]
        ELSE IF invalid THEN [status |-> "Invalid", about |-> "none"]
        ELSE [status |-> "Success", about |-> "none"]
  BY DEF Judge
<1>4. spec.parses => /\ Cardinality(SameIssuer(list, spec)) > 1 <=> duplicate
                     /\ Cardinality(SecretNames(list, spec)) > 1 <=> rival
  OBVIOUS
<1> HIDE DEF spec, duplicate, rival, invalid
<1>5. \A i \in Issuers \cup Hosts \cup {"none"}, c \in Conditions : [status |-> c, about |-> i] \in Statuses
  BY DEF Statuses
<1>6. Judge(list, n) \in Statuses
  BY <1>2, <1>3, <1>5, ZenonT(60) DEF Conditions
<1>7. Judge(list, n).status = "Success" => ~invalid /\ ~duplicate /\ ~rival
  BY <1>3
<1> QED
  BY <1>2, <1>4, <1>6, <1>7 DEF spec, invalid

\* A finite set with two elements has more than one.
LEMMA TwoElements ==
  ASSUME NEW S, IsFiniteSet(S), NEW x \in S, NEW y \in S, x # y
  PROVE  Cardinality(S) > 1
<1>1. IsFiniteSet({x}) /\ Cardinality({x}) = 1
  BY FS_Singleton, ZenonT(60)
<1>2. IsFiniteSet({x} \cup {y}) /\ Cardinality({x} \cup {y}) = 1 + 1
  BY <1>1, FS_AddElement, ZenonT(60)
<1>3. Cardinality({x} \cup {y}) <= Cardinality(S)
  BY <1>2, FS_Subset
<1>4. Cardinality(S) \in Nat
  BY FS_CardinalityType
<1> QED
  BY <1>2, <1>3, <1>4

\* When SecretNames has not more than one element, all FederationDomains of the host that
\* name a Secret name the same.
LEMMA OneSecret ==
  ASSUME NEW list \in Listings, NEW a, ~(Cardinality(SecretNames(list, a)) > 1),
         NEW n \in Parsed(list), SpecOf(list, n).host = a.host, SpecOf(list, n).tls # NoTLS,
         NEW m \in Parsed(list), SpecOf(list, m).host = a.host, SpecOf(list, m).tls # NoTLS
  PROVE  SpecOf(list, n).tls = SpecOf(list, m).tls
<1> SUFFICES ASSUME SpecOf(list, n).tls # SpecOf(list, m).tls PROVE FALSE
  OBVIOUS
<1> DEFINE Hosted == {k \in Parsed(list) : SpecOf(list, k).host = a.host}
           Tls == {SpecOf(list, k).tls : k \in Hosted}
<1>1. n \in Hosted /\ m \in Hosted /\ Hosted \subseteq Names
  BY DEF Parsed, Listed
<1>2. IsFiniteSet(Hosted)
  BY <1>1, NamesAssumption, FS_Subset
<1>3. SecretNames(list, a) = Tls \ {NoTLS}
  BY DEF SecretNames
<1>4. SpecOf(list, n).tls \in SecretNames(list, a) /\ SpecOf(list, m).tls \in SecretNames(list, a)
  BY <1>1, <1>3
<1>5. IsFiniteSet(Tls)
  <2> DEFINE f == [k \in Hosted |-> SpecOf(list, k).tls]
  <2>1. f \in Surjection(Hosted, Tls)
    BY DEF Surjection
  <2> QED
    BY <1>2, <2>1, FS_Surjection
<1>6. IsFiniteSet(SecretNames(list, a))
  BY <1>3, <1>5, FS_Subset
<1> QED
  BY <1>4, <1>6, TwoElements

\* What is approved of one list is compatible: whoever has a rival is refused.
LEMMA ApprovedAreCompatible ==
  ASSUME NEW list \in Listings, NEW a \in Approved(list), NEW b \in Approved(list)
  PROVE  /\ a.issuer = b.issuer => a = b
         /\ a.host = b.host => a.tls = b.tls \/ NoTLS \in {a.tls, b.tls}
<1>1. PICK n \in Names : list[n] # {} /\ Judge(list, n).status = "Success" /\ a = SpecOf(list, n)
  BY DEF Approved, Listed
<1>2. PICK m \in Names : list[m] # {} /\ Judge(list, m).status = "Success" /\ b = SpecOf(list, m)
  BY DEF Approved, Listed
<1>3. /\ a.parses /\ ~(Cardinality(SameIssuer(list, a)) > 1) /\ ~(Cardinality(SecretNames(list, a)) > 1)
      /\ b.parses
  BY <1>1, <1>2, JudgeIs
<1>4. n \in Parsed(list) /\ m \in Parsed(list) /\ Parsed(list) \subseteq Names
  BY <1>1, <1>2, <1>3 DEF Parsed, Listed
<1>5. IsFiniteSet(Names)
  BY NamesAssumption
<1>6. ASSUME a.issuer = b.issuer, a # b PROVE FALSE
  <2>1. n \in SameIssuer(list, a) /\ m \in SameIssuer(list, a) /\ n # m
    BY <1>1, <1>2, <1>4, <1>6 DEF SameIssuer
  <2>2. IsFiniteSet(SameIssuer(list, a))
    BY <1>4, <1>5, FS_Subset DEF SameIssuer
  <2> QED
    BY <1>3, <2>1, <2>2, TwoElements
<1>7. ASSUME a.host = b.host, a.tls # NoTLS, b.tls # NoTLS PROVE a.tls = b.tls
  BY <1>1, <1>2, <1>3, <1>4, <1>7, OneSecret
<1> QED
  BY <1>6, <1>7

-----------------------------------------------------------------------------
(* The invariant in a form that goes by pods.                              *)

Records == [at : {"idle", "looping", "updating"}, list : Listings, todo : SUBSET Names, got : BOOLEAN,
            name : Maybe(Names), fresh : BOOLEAN, approved : SUBSET Specs, failed : BOOLEAN]

\* What the invariant says of the Sync of one pod, but for FreshOK.
Watchers ==
  {w \in Records :
     /\ w.at = "updating" => w.name # {}
     /\ \A n \in w.todo : w.list[n] # {}
     /\ w.approved \subseteq Approved(w.list) /\ w.name \subseteq w.todo}

Served == {P \in SUBSET {s \in Specs : s.valid} : \E list \in Listings : P \subseteq Approved(list)}

WatchersOK == watcher \in [Pods -> Watchers] /\ providers \in [Pods -> Served] /\ FreshOK

\* The rest is just types.
RestOK ==
  /\ leader \in Pods \cup {OtherPod}
  /\ domain \in [Names -> Maybe(Domains)]
  /\ cert \in [TLSSecrets -> Certs \cup {NoCert}]
  /\ seen \in [Pods -> Listings]
  /\ stale \in [Pods -> SUBSET Names]
  /\ seenCert \in [Pods -> [TLSSecrets -> Certs \cup {NoCert}]]
  /\ queued \in [Pods -> SUBSET {"watcher", "tls"}]
  /\ hostCert \in [Pods -> [Hosts -> Certs \cup {NoCert}]]
  /\ defaultCert \in [Pods -> Certs \cup {NoCert}]
  /\ changes \in 0..MaxChanges

\* The two forms agree.
LEMMA Forms == Inv <=> WatchersOK /\ RestOK
<1>1. ASSUME Inv PROVE WatchersOK /\ RestOK
  <2>1. watcher \in [Pods -> Records]
    BY <1>1 DEF Inv, TypeOK, Records
  <2>2. ASSUME NEW p \in Pods PROVE watcher[p] \in Watchers /\ providers[p] \in Served
    BY <1>1, <2>1, ZenonT(60) DEF Inv, TypeOK, ApprovedOK, ServedOK, Watchers, Served
  <2>3. watcher \in [Pods -> Watchers] /\ providers \in [Pods -> Served]
    BY <1>1, <2>2 DEF Inv, TypeOK
  <2> QED
    BY <1>1, <2>3 DEF Inv, TypeOK, WatchersOK, RestOK
<1>2. ASSUME WatchersOK, RestOK PROVE Inv
  <2>1. watcher \in [Pods -> Records] /\ providers \in [Pods -> SUBSET {s \in Specs : s.valid}]
    BY <1>2 DEF WatchersOK, Watchers, Served
  <2>2. ASSUME NEW p \in Pods
        PROVE  /\ watcher[p].at = "updating" => watcher[p].name # {}
               /\ \A n \in watcher[p].todo : watcher[p].list[n] # {}
               /\ watcher[p].approved \subseteq Approved(watcher[p].list) /\ watcher[p].name \subseteq watcher[p].todo
               /\ \E list \in Listings : providers[p] \subseteq Approved(list)
    BY <1>2 DEF WatchersOK, Watchers, Served
  <2>3. TypeOK
    BY <1>2, <2>1, <2>2, ZenonT(60) DEF RestOK, TypeOK, Records
  <2> QED
    BY <1>2, <2>2, <2>3 DEF Inv, ApprovedOK, ServedOK, WatchersOK
<1> QED
  BY <1>1, <1>2

-----------------------------------------------------------------------------
(* The Sync of one pod.                                                    *)

\* A Sync that has not begun.
LEMMA IdleTyped == IdleWatcher \in Watchers /\ ~IdleWatcher.fresh
<1>1. [n \in Names |-> {}] \in Listings /\ {} \in Maybe(Names)
  BY DEF Listings, Maybe
<1>2. IdleWatcher \in Records
  BY <1>1 DEF IdleWatcher, Records
<1> QED
  BY <1>2, ZenonT(60) DEF IdleWatcher, Watchers

\* A Sync that begins with a list.
LEMMA ListTyped ==
  ASSUME NEW list \in Listings
  PROVE  LET w == [IdleWatcher EXCEPT !.at = "looping", !.list = list, !.todo = Listed(list)]
         IN  w \in Watchers /\ ~w.fresh
<1> DEFINE w == [IdleWatcher EXCEPT !.at = "looping", !.list = list, !.todo = Listed(list)]
<1>1. IdleWatcher \in Records
  BY IdleTyped DEF Watchers
<1>2. Listed(list) \in SUBSET Names
  BY DEF Listed
<1>3. w \in Records
  BY <1>1, <1>2, ZenonT(60) DEF Records
<1>4. /\ w.at = "looping" /\ w.list = list /\ w.todo = Listed(list) /\ w.name = {} /\ w.approved = {}
      /\ w.fresh = FALSE
  BY DEF IdleWatcher
<1> HIDE DEF w
<1>5. w \in Watchers
  BY <1>3, <1>4 DEF Watchers, Listed
<1> QED
  BY <1>4, <1>5 DEF w

\* A FederationDomain is done: it is approved if it was judged so, with all of the list.
LEMMA DoneTyped ==
  ASSUME WatchersOK, NEW p \in Pods, NEW n \in watcher[p].todo
  PROVE  Done(p, n) \in Watchers /\ ~Done(p, n).fresh
<1> DEFINE w == watcher[p]
           approved == IF Judge(w.list, n).status = "Success" THEN w.approved \cup {SpecOf(w.list, n)} ELSE w.approved
<1>1. w \in Watchers /\ w \in Records /\ w.list \in Listings /\ n \in Names /\ w.list[n] # {}
  BY DEF WatchersOK, Watchers, Records
<1>2. w.approved \subseteq Approved(w.list) /\ w.approved \subseteq Specs /\ w.todo \subseteq Names
  BY <1>1 DEF Watchers, Records
<1>3. Judge(w.list, n).status = "Success" => SpecOf(w.list, n) \in Approved(w.list)
  BY <1>1 DEF Approved, Listed
<1>4. SpecOf(w.list, n) \in Specs
  BY <1>1, SpecOfTyped
<1>5. approved \subseteq Approved(w.list) /\ approved \in SUBSET Specs
  BY <1>2, <1>3, <1>4
<1>6. Done(p, n) = [w EXCEPT !.at = "looping", !.todo = w.todo \ {n}, !.got = FALSE, !.name = {}, !.fresh = FALSE,
                             !.approved = approved]
  BY DEF Done
<1> HIDE DEF w, approved
<1>7. {} \in Maybe(Names) /\ w.todo \ {n} \in SUBSET Names
  BY <1>2 DEF Maybe
<1>8. /\ Done(p, n) \in Records /\ Done(p, n).at = "looping" /\ Done(p, n).list = w.list
      /\ Done(p, n).todo = w.todo \ {n} /\ Done(p, n).name = {} /\ Done(p, n).fresh = FALSE
      /\ Done(p, n).approved = approved
  BY <1>1, <1>5, <1>6, <1>7, ZenonT(60) DEF Records
<1> QED
  BY <1>1, <1>5, <1>8 DEF Watchers

\* A FederationDomain could not be written: it is left out.
LEMMA FailedTyped ==
  ASSUME WatchersOK, NEW p \in Pods, NEW n
  PROVE  Failed(p, n) \in Watchers /\ ~Failed(p, n).fresh
<1> DEFINE w == watcher[p]
<1>1. w \in Watchers /\ w \in Records /\ w.todo \ {n} \in SUBSET Names /\ {} \in Maybe(Names)
  BY DEF WatchersOK, Watchers, Records, Maybe
<1>2. Failed(p, n) = [w EXCEPT !.at = "looping", !.todo = w.todo \ {n}, !.got = FALSE, !.name = {}, !.fresh = FALSE,
                               !.failed = TRUE]
  BY DEF Failed
<1> HIDE DEF w
<1>3. /\ Failed(p, n) \in Records /\ Failed(p, n).at = "looping" /\ Failed(p, n).list = w.list
      /\ Failed(p, n).todo = w.todo \ {n} /\ Failed(p, n).name = {} /\ Failed(p, n).fresh = FALSE
      /\ Failed(p, n).approved = w.approved
  BY <1>1, <1>2, ZenonT(60) DEF Records
<1> QED
  BY <1>1, <1>3 DEF Watchers

\* The FederationDomain was read, and is about to be written.
LEMMA GotTyped ==
  ASSUME NEW w \in Watchers, NEW n \in w.todo, NEW got \in BOOLEAN
  PROVE  LET v == [w EXCEPT !.at = "updating", !.got = got, !.name = {n}, !.fresh = TRUE]
         IN  v \in Watchers /\ v.got = got /\ v.name = {n}
<1> DEFINE v == [w EXCEPT !.at = "updating", !.got = got, !.name = {n}, !.fresh = TRUE]
<1>1. w \in Records /\ {n} \in Maybe(Names)
  BY DEF Watchers, Records, Maybe
<1>2. /\ v \in Records /\ v.at = "updating" /\ v.list = w.list /\ v.todo = w.todo /\ v.name = {n}
      /\ v.got = got /\ v.approved = w.approved
  BY <1>1, ZenonT(60) DEF Records
<1> HIDE DEF v
<1>3. v \in Watchers
  BY <1>2 DEF Watchers
<1> QED
  BY <1>2, <1>3 DEF v

\* RetryOnConflict starts again with the same FederationDomain.
LEMMA AgainTyped ==
  ASSUME NEW w \in Watchers
  PROVE  LET v == [w EXCEPT !.at = "looping", !.got = FALSE, !.name = {}]
         IN  v \in Watchers /\ v.name = {}
<1> DEFINE v == [w EXCEPT !.at = "looping", !.got = FALSE, !.name = {}]
<1>1. w \in Records /\ {} \in Maybe(Names)
  BY DEF Watchers, Maybe
<1>2. /\ v \in Records /\ v.at = "looping" /\ v.list = w.list /\ v.todo = w.todo /\ v.name = {}
      /\ v.approved = w.approved
  BY <1>1, ZenonT(60) DEF Records
<1> HIDE DEF v
<1>3. v \in Watchers
  BY <1>2 DEF Watchers
<1> QED
  BY <1>2, <1>3 DEF v

\* Somebody has written a FederationDomain: who has read it will meet a conflict.
LEMMA ConflictingTyped ==
  ASSUME WatchersOK, NEW n \in Names
  PROVE  /\ Conflicting(n) \in [Pods -> Watchers]
         /\ \A p \in Pods : n \notin watcher[p].name => Conflicting(n)[p] = watcher[p]
         /\ \A p \in Pods : n \in watcher[p].name => ~Conflicting(n)[p].fresh
<1>1. ASSUME NEW w \in Watchers PROVE [w EXCEPT !.fresh = FALSE] \in Watchers /\ ~[w EXCEPT !.fresh = FALSE].fresh
  <2> DEFINE v == [w EXCEPT !.fresh = FALSE]
  <2>1. w \in Records
    BY DEF Watchers
  <2>2. /\ v \in Records /\ v.at = w.at /\ v.list = w.list /\ v.todo = w.todo /\ v.name = w.name
        /\ v.fresh = FALSE /\ v.approved = w.approved
    BY <2>1, ZenonT(60) DEF Records
  <2> HIDE DEF v
  <2>3. v \in Watchers
    BY <2>2 DEF Watchers
  <2> QED
    BY <2>2, <2>3 DEF v
<1>2. watcher \in [Pods -> Watchers]
  BY DEF WatchersOK
<1> QED
  BY <1>1, <1>2 DEF Conflicting

-----------------------------------------------------------------------------
(* Steps.                                                                  *)

\* A write of a FederationDomain: everyone who has read it is no longer fresh.
LEMMA DomainWritten ==
  ASSUME WatchersOK, RestOK, NEW n \in Names, NEW S \in Maybe(Domains),
         domain' = [domain EXCEPT ![n] = S], stale' = AllStale(n), UNCHANGED providers,
         watcher' \in [Pods -> Watchers],
         \A p \in Pods : watcher'[p] = Conflicting(n)[p] \/ ~watcher'[p].fresh
  PROVE  WatchersOK' /\ domain' \in [Names -> Maybe(Domains)] /\ stale' \in [Pods -> SUBSET Names]
<1>1. domain \in [Names -> Maybe(Domains)] /\ stale \in [Pods -> SUBSET Names]
  BY DEF RestOK
<1>2. domain' \in [Names -> Maybe(Domains)] /\ stale' \in [Pods -> SUBSET Names]
  BY <1>1 DEF AllStale
<1>3. ASSUME NEW p \in Pods, watcher'[p].fresh, NEW m \in watcher'[p].name
      PROVE  domain'[m] # {} /\ The(domain'[m]).secrets = watcher'[p].got
  <2>1. watcher'[p] = watcher[p] /\ n \notin watcher[p].name
    BY <1>3, ConflictingTyped
  <2>2. m \in Names /\ m # n
    <3>1. watcher[p] \in Watchers
      BY DEF WatchersOK
    <3> QED
      BY <1>3, <2>1, <3>1 DEF Watchers, Records
  <2>3. domain'[m] = domain[m]
    BY <1>1, <2>2
  <2> QED
    BY <1>3, <2>1, <2>3 DEF WatchersOK, FreshOK
<1>4. FreshOK'
  BY <1>3 DEF FreshOK
<1> QED
  BY <1>2, <1>4 DEF WatchersOK

\* A step of one watcher that writes nothing.
LEMMA WatcherStep ==
  ASSUME WatchersOK, NEW p \in Pods, NEW v \in Watchers, watcher' = [watcher EXCEPT ![p] = v],
         UNCHANGED domain,
         v.fresh => \A n \in v.name : domain[n] # {} /\ The(domain[n]).secrets = v.got,
         \/ UNCHANGED providers
         \/ \E P \in Served : providers' = [providers EXCEPT ![p] = P]
  PROVE  WatchersOK'
<1>1. watcher \in [Pods -> Watchers] /\ providers \in [Pods -> Served]
  BY DEF WatchersOK
<1>2. watcher' \in [Pods -> Watchers] /\ providers' \in [Pods -> Served]
  BY <1>1
<1>3. FreshOK'
  <2> SUFFICES ASSUME NEW q \in Pods, watcher'[q].fresh, NEW n \in watcher'[q].name
               PROVE  domain[n] # {} /\ The(domain[n]).secrets = watcher'[q].got
    BY DEF FreshOK
  <2>1. CASE q = p
    BY <1>1, <2>1
  <2>2. CASE q # p
    BY <1>1, <2>2 DEF WatchersOK, FreshOK
  <2> QED
    BY <2>1, <2>2
<1> QED
  BY <1>2, <1>3 DEF WatchersOK

\* Steps that touch neither FederationDomains nor watchers.
LEMMA WatchersStay ==
  ASSUME WatchersOK, UNCHANGED <<domain, watcher, providers>>
  PROVE  WatchersOK'
  BY DEF WatchersOK, FreshOK

\* A bounded change.
LEMMA ChangeTyped ==
  ASSUME RestOK, Change \/ UNCHANGED changes
  PROVE  changes' \in 0..MaxChanges
  BY BoundAssumption DEF RestOK, Change

\* What a FederationDomain becomes when its spec or a part of its status is written.
LEMMA DomainTyped ==
  ASSUME NEW d \in Domains
  PROVE  /\ \A s \in Specs : [d EXCEPT !.spec = s] \in Domains
         /\ \A c \in Statuses : [d EXCEPT !.condition = c] \in Domains
         /\ \A b \in BOOLEAN : [d EXCEPT !.secrets = b] \in Domains
         /\ \A c \in Statuses, b \in BOOLEAN : [d EXCEPT !.condition = c, !.secrets = b] \in Domains
         /\ \A c \in Statuses, b \in BOOLEAN : [d EXCEPT !.condition = c, !.secrets = b].secrets = b
         /\ d.secrets \in BOOLEAN
  BY ZenonT(60) DEF Domains

\* A new FederationDomain has no status.
LEMMA NewTyped == \A s \in Specs : New(s) \in Domains
  BY DEF New, Domains, NoStatus, Statuses, Conditions

\* Users and the controllers that write other parts of the status.
LEMMA ChangeDomainStep ==
  ASSUME WatchersOK, RestOK, NEW n \in Names,
         \/ \E to \in Maybe(Specs) : ChangeDomain(n, to)
         \/ OtherStatusWriter(n) \/ OtherPodUpdates(n)
  PROVE  WatchersOK' /\ RestOK'
<1>0. domain \in [Names -> Maybe(Domains)] /\ SpecsIn(domain) \in Listings
  BY SpecsInTyped, ZenonT(60) DEF RestOK
<1>1. ASSUME domain[n] # {} PROVE The(domain[n]) \in Domains /\ domain[n] \in Maybe(Domains)
  BY <1>0, <1>1, MaybeIs
<1>2. \E S \in Maybe(Domains) : domain' = [domain EXCEPT ![n] = S]
  <2>1. ASSUME NEW d \in Domains PROVE {d} \in Maybe(Domains)
    BY DEF Maybe
  <2>2. ASSUME NEW to \in Maybe(Specs), ChangeDomain(n, to) PROVE \E S \in Maybe(Domains) : domain' = [domain EXCEPT ![n] = S]
    <3> DEFINE S == IF to = {} \/ domain[n] = {} THEN {New(s) : s \in to}
                    ELSE {[The(domain[n]) EXCEPT !.spec = The(to)]}
    <3>1. domain' = [domain EXCEPT ![n] = S]
      BY <2>2 DEF ChangeDomain
    <3>2. CASE to = {}
      <4>1. S = {} /\ {} \in Maybe(Domains)
        BY <3>2, ZenonT(60) DEF Maybe
      <4> HIDE DEF S
      <4> QED
        BY <3>1, <4>1, ZenonT(60)
    <3>3. CASE to # {} /\ domain[n] = {}
      <4>1. PICK s \in Specs : to = {s}
        BY <3>3 DEF Maybe
      <4>2. S = {New(s)}
        BY <3>3, <4>1
      <4> QED
        BY <2>1, <3>1, <4>2, NewTyped, ZenonT(60)
    <3>4. CASE to # {} /\ domain[n] # {}
      <4>1. S = {[The(domain[n]) EXCEPT !.spec = The(to)]} /\ The(to) \in Specs
        BY <3>4, MaybeIs
      <4>2. [The(domain[n]) EXCEPT !.spec = The(to)] \in Domains
        BY <1>1, <3>4, <4>1, DomainTyped, ZenonT(60)
      <4> HIDE DEF S
      <4> QED
        BY <2>1, <3>1, <4>1, <4>2, ZenonT(60)
    <3> QED
      BY <3>2, <3>3, <3>4
  <2>3. ASSUME OtherStatusWriter(n) PROVE \E S \in Maybe(Domains) : domain' = [domain EXCEPT ![n] = S]
    <3>1. domain[n] # {} /\ domain' = [domain EXCEPT ![n] = {[The(domain[n]) EXCEPT !.secrets = TRUE]}]
      BY <2>3 DEF OtherStatusWriter
    <3>2. [The(domain[n]) EXCEPT !.secrets = TRUE] \in Domains
      BY <1>1, <3>1, DomainTyped, ZenonT(60)
    <3> QED
      BY <2>1, <3>1, <3>2, ZenonT(60)
  <2>4. ASSUME OtherPodUpdates(n) PROVE \E S \in Maybe(Domains) : domain' = [domain EXCEPT ![n] = S]
    <3>1. domain[n] # {} /\ domain' = [domain EXCEPT ![n] = {[The(domain[n]) EXCEPT !.condition = Judge(SpecsIn(domain), n)]}]
      BY <2>4 DEF OtherPodUpdates
    <3>2. Judge(SpecsIn(domain), n) \in Statuses
      BY <1>0, <3>1, SpecsInTyped, JudgeIs
    <3>3. [The(domain[n]) EXCEPT !.condition = Judge(SpecsIn(domain), n)] \in Domains
      BY <1>1, <3>1, <3>2, DomainTyped, ZenonT(60)
    <3> QED
      BY <2>1, <3>1, <3>3, ZenonT(60)
  <2> QED
    BY <2>2, <2>3, <2>4
<1>3. /\ watcher' = Conflicting(n) /\ stale' = AllStale(n) /\ (Change \/ UNCHANGED changes)
      /\ UNCHANGED <<leader, cert, seen, seenCert, queued, providers, hostCert, defaultCert>>
  BY DEF ChangeDomain, OtherStatusWriter, OtherPodUpdates
<1>4. WatchersOK' /\ domain' \in [Names -> Maybe(Domains)] /\ stale' \in [Pods -> SUBSET Names]
  BY <1>2, <1>3, ConflictingTyped, DomainWritten, ZenonT(60)
<1> QED
  BY <1>3, <1>4, ChangeTyped DEF RestOK


\* Certificates, the Lease and the events of the informers.
LEMMA InformerStep ==
  ASSUME WatchersOK, RestOK,
         \/ \E t \in TLSSecrets, c \in Certs \cup {NoCert} : ChangeCert(t, c)
         \/ ChangeLeader
         \/ \E p \in Pods, n \in Names : DomainEvent(p, n)
         \/ \E p \in Pods, t \in TLSSecrets : CertEvent(p, t)
  PROVE  WatchersOK' /\ RestOK'
<1>0. SpecsIn(domain) \in Listings
  BY SpecsInTyped DEF RestOK
<1>1. ASSUME NEW t \in TLSSecrets, NEW c \in Certs \cup {NoCert}, ChangeCert(t, c) PROVE WatchersOK' /\ RestOK'
  BY <1>1, WatchersStay, ChangeTyped DEF ChangeCert, RestOK
<1>2. ASSUME ChangeLeader PROVE WatchersOK' /\ RestOK'
  BY <1>2, WatchersStay, ChangeTyped DEF ChangeLeader, RestOK
<1>3. ASSUME NEW p \in Pods, NEW n \in Names, DomainEvent(p, n) PROVE WatchersOK' /\ RestOK'
  <2>1. seen' \in [Pods -> Listings]
    <3>1. [seen[p] EXCEPT ![n] = SpecsIn(domain)[n]] \in Listings
      BY <1>0 DEF RestOK, Listings
    <3>2. seen' = [seen EXCEPT ![p] = [seen[p] EXCEPT ![n] = SpecsIn(domain)[n]]]
      BY <1>3 DEF DomainEvent
    <3> QED
      BY <3>1, <3>2 DEF RestOK
  <2>2. stale' \in [Pods -> SUBSET Names] /\ queued' \in [Pods -> SUBSET {"watcher", "tls"}]
    BY <1>3 DEF DomainEvent, RestOK
  <2>3. UNCHANGED <<leader, domain, cert, seenCert, watcher, providers, hostCert, defaultCert, changes>>
    BY <1>3 DEF DomainEvent
  <2> QED
    BY <2>1, <2>2, <2>3, WatchersStay DEF RestOK
<1>4. ASSUME NEW p \in Pods, NEW t \in TLSSecrets, CertEvent(p, t) PROVE WatchersOK' /\ RestOK'
  <2>1. seenCert' \in [Pods -> [TLSSecrets -> Certs \cup {NoCert}]] /\ queued' \in [Pods -> SUBSET {"watcher", "tls"}]
    BY <1>4 DEF CertEvent, RestOK
  <2>2. UNCHANGED <<leader, domain, cert, seen, stale, watcher, providers, hostCert, defaultCert, changes>>
    BY <1>4 DEF CertEvent
  <2> QED
    BY <2>1, <2>2, WatchersStay DEF RestOK
<1> QED
  BY <1>1, <1>2, <1>3, <1>4

\* A pod starts again, or its TLS observer runs.
LEMMA PodStep ==
  ASSUME WatchersOK, RestOK, NEW p \in Pods, Restart(p) \/ ObserveTLS(p)
  PROVE  WatchersOK' /\ RestOK'
<1>1. CASE Restart(p)
  <2>0. SpecsIn(domain) \in Listings
    BY SpecsInTyped DEF RestOK
  <2>1. FirstKeys \in SUBSET {"watcher", "tls"} /\ [h \in Hosts |-> NoCert] \in [Hosts -> Certs \cup {NoCert}]
    BY DEF FirstKeys
  <2>2. /\ seen' \in [Pods -> Listings] /\ stale' \in [Pods -> SUBSET Names]
        /\ seenCert' \in [Pods -> [TLSSecrets -> Certs \cup {NoCert}]]
        /\ queued' \in [Pods -> SUBSET {"watcher", "tls"}]
        /\ hostCert' \in [Pods -> [Hosts -> Certs \cup {NoCert}]] /\ defaultCert' \in [Pods -> Certs \cup {NoCert}]
    BY <1>1, <2>0, <2>1 DEF Restart, RestOK
  <2>3. UNCHANGED <<leader, domain, cert>> /\ changes' \in 0..MaxChanges
    BY <1>1, ChangeTyped DEF Restart
  <2>4. {} \in Served
    <3>1. [n \in Names |-> {}] \in Listings
      BY DEF Listings, Maybe
    <3> QED
      BY <3>1 DEF Served
  <2>5. WatchersOK'
    BY <1>1, <2>4, IdleTyped, WatcherStep, ZenonT(60) DEF Restart
  <2> QED
    BY <2>2, <2>3, <2>5 DEF RestOK
<1>2. CASE ObserveTLS(p)
  <2>1. PICK to \in [Hosts -> Certs \cup {NoCert}] : hostCert' = [hostCert EXCEPT ![p] = to]
    BY <1>2, ZenonT(60) DEF ObserveTLS
  <2>2. hostCert' \in [Pods -> [Hosts -> Certs \cup {NoCert}]]
    BY <2>1 DEF RestOK
  <2>3. defaultCert' \in [Pods -> Certs \cup {NoCert}] /\ queued' \in [Pods -> SUBSET {"watcher", "tls"}]
    <3>1. defaultCert' \in [Pods -> Certs \cup {NoCert}]
      BY <1>2, NamesAssumption DEF ObserveTLS, RestOK
    <3>2. queued' \in [Pods -> SUBSET {"watcher", "tls"}]
      BY <1>2 DEF ObserveTLS, RestOK
    <3> QED
      BY <3>1, <3>2
  <2>4. UNCHANGED <<leader, domain, cert, seen, stale, seenCert, watcher, providers, changes>>
    BY <1>2 DEF ObserveTLS
  <2> QED
    BY <2>2, <2>3, <2>4, WatchersStay DEF RestOK
<1> QED
  BY <1>1, <1>2

\* The steps of the watcher.
LEMMA SyncStep ==
  ASSUME WatchersOK, RestOK, NEW p \in Pods,
         \/ List(p) \/ SetProviders(p)
         \/ \E n \in Names : GetDomain(p, n) \/ Conflict(p, n) \/ CallFails(p, n)
  PROVE  WatchersOK' /\ RestOK'
<1>0. watcher[p] \in Watchers /\ seen[p] \in Listings
  BY DEF WatchersOK, RestOK
<1>1. CASE List(p)
  <2> DEFINE v == [IdleWatcher EXCEPT !.at = "looping", !.list = seen[p], !.todo = Listed(seen[p])]
  <2>1. v \in Watchers /\ ~v.fresh
    BY <1>0, ListTyped, ZenonT(60)
  <2>2. watcher' = [watcher EXCEPT ![p] = v]
    BY <1>1 DEF List
  <2> HIDE DEF v
  <2>3. /\ UNCHANGED <<leader, domain, cert, seen, stale, seenCert, providers, hostCert, defaultCert, changes>>
        /\ queued' = [queued EXCEPT ![p] = @ \ {"watcher"}]
    BY <1>1 DEF List
  <2>4. WatchersOK'
    BY <2>1, <2>2, <2>3, WatcherStep, ZenonT(60)
  <2> QED
    BY <2>3, <2>4 DEF RestOK
<1>2. CASE SetProviders(p)
  <2>1. watcher[p].approved \in Served
    <3>1. /\ watcher[p].list \in Listings /\ watcher[p].approved \subseteq Approved(watcher[p].list)
          /\ watcher[p].approved \subseteq Specs
      BY <1>0 DEF Watchers, Records
    <3>2. ASSUME NEW s \in Approved(watcher[p].list) PROVE s.valid
      <4>1. PICK n \in Names : /\ watcher[p].list[n] # {} /\ Judge(watcher[p].list, n).status = "Success"
                               /\ s = SpecOf(watcher[p].list, n)
        BY DEF Approved, Listed
      <4> QED
        BY <3>1, <4>1, JudgeIs, ZenonT(60)
    <3> QED
      BY <3>1, <3>2 DEF Served
  <2>2. /\ watcher' = [watcher EXCEPT ![p] = IdleWatcher] /\ providers' = [providers EXCEPT ![p] = watcher[p].approved]
        /\ UNCHANGED <<leader, domain, cert, seen, stale, seenCert, hostCert, defaultCert, changes>>
        /\ queued' = [queued EXCEPT ![p] = IF watcher[p].failed THEN @ \cup {"watcher"} ELSE @]
    BY <1>2, ZenonT(60) DEF SetProviders
  <2>3. WatchersOK'
    BY <2>1, <2>2, IdleTyped, WatcherStep, ZenonT(60)
  <2> QED
    BY <2>2, <2>3 DEF RestOK
<1>3. ASSUME NEW n \in Names, GetDomain(p, n) \/ Conflict(p, n) \/ CallFails(p, n)
      PROVE  /\ changes' \in 0..MaxChanges
             /\ UNCHANGED <<leader, domain, cert, seen, stale, seenCert, queued, providers, hostCert, defaultCert>>
  BY <1>3, ChangeTyped, ZenonT(60) DEF GetDomain, Conflict, CallFails
<1>4. ASSUME NEW n \in Names, GetDomain(p, n) PROVE WatchersOK'
  <2>0. n \in watcher[p].todo /\ UNCHANGED <<domain, providers>>
    BY <1>4, ZenonT(60) DEF GetDomain
  <2>1. CASE domain[n] = {}
    <3>1. watcher' = [watcher EXCEPT ![p] = Failed(p, n)]
      BY <1>4, <2>1, ZenonT(60) DEF GetDomain
    <3> QED
      BY <2>0, <3>1, FailedTyped, WatcherStep, ZenonT(60)
  <2>2. CASE domain[n] # {} /\ The(domain[n]).condition = Judge(watcher[p].list, n)
    <3>1. watcher' = [watcher EXCEPT ![p] = Done(p, n)]
      BY <1>4, <2>2, ZenonT(60) DEF GetDomain
    <3> QED
      BY <2>0, <3>1, DoneTyped, WatcherStep, ZenonT(60)
  <2>3. CASE domain[n] # {} /\ The(domain[n]).condition # Judge(watcher[p].list, n)
    <3> DEFINE w == watcher[p]
               got == The(domain[n]).secrets
               v == [w EXCEPT !.at = "updating", !.got = got, !.name = {n}, !.fresh = TRUE]
    <3>1. watcher' = [watcher EXCEPT ![p] = v]
      BY <1>4, <2>3, ZenonT(60) DEF GetDomain
    <3>2. got \in BOOLEAN
      <4>1. domain[n] \in Maybe(Domains)
        BY DEF RestOK
      <4>2. The(domain[n]) \in Domains
        BY <2>3, <4>1, MaybeIs, ZenonT(60)
      <4> QED
        BY <4>2, DomainTyped, ZenonT(60)
    <3>3. v \in Watchers /\ v.got = got /\ v.name = {n}
      <4>1. w \in Watchers /\ n \in w.todo
        BY <1>0, <2>0, ZenonT(60)
      <4> HIDE DEF w, got
      <4> QED
        BY <3>2, <4>1, GotTyped, ZenonT(60)
    <3>4. v.fresh => \A m \in v.name : domain[m] # {} /\ The(domain[m]).secrets = v.got
      BY <2>3, <3>3
    <3> HIDE DEF v
    <3> QED
      BY <2>0, <3>1, <3>3, <3>4, WatcherStep, ZenonT(60)
  <2> QED
    BY <2>1, <2>2, <2>3, ZenonT(60)
<1>5. ASSUME NEW n \in Names, Conflict(p, n) PROVE WatchersOK'
  <2> DEFINE w == watcher[p]
             v == [w EXCEPT !.at = "looping", !.got = FALSE, !.name = {}]
  <2>1. watcher' = [watcher EXCEPT ![p] = v] /\ UNCHANGED <<domain, providers>>
    BY <1>5 DEF Conflict
  <2>2. v \in Watchers /\ v.name = {}
    BY <1>0, AgainTyped, ZenonT(60)
  <2> HIDE DEF v
  <2> QED
    BY <2>1, <2>2, WatcherStep, ZenonT(60)
<1>6. ASSUME NEW n \in Names, CallFails(p, n) PROVE WatchersOK'
  BY <1>6, FailedTyped, WatcherStep, ZenonT(60) DEF CallFails
<1>7. ASSUME NEW n \in Names, GetDomain(p, n) \/ Conflict(p, n) \/ CallFails(p, n) PROVE RestOK'
  BY <1>3, <1>7 DEF RestOK
<1> QED
  BY <1>1, <1>2, <1>4, <1>5, <1>6, <1>7


\* The watcher writes the status of the FederationDomain that it has read.
LEMMA UpdateStatusStep ==
  ASSUME WatchersOK, RestOK, NEW p \in Pods, NEW n \in Names, UpdateStatus(p, n)
  PROVE  /\ WatchersOK' /\ RestOK'
         /\ The(domain'[n]).secrets = The(domain[n]).secrets
<1> DEFINE d == [The(domain[n]) EXCEPT !.condition = Judge(watcher[p].list, n), !.secrets = watcher[p].got]
<1>1. /\ domain' = [domain EXCEPT ![n] = {d}] /\ n \in watcher[p].name /\ watcher[p].fresh
      /\ watcher' = [Conflicting(n) EXCEPT ![p] = Done(p, n)] /\ stale' = AllStale(n)
      /\ UNCHANGED <<leader, cert, seen, seenCert, queued, providers, hostCert, defaultCert, changes>>
  BY DEF UpdateStatus
<1>2. /\ watcher[p].list \in Listings /\ watcher[p].list[n] # {} /\ n \in watcher[p].todo
      /\ watcher[p].got \in BOOLEAN
  <2>1. watcher[p] \in Watchers
    BY DEF WatchersOK
  <2> QED
    BY <1>1, <2>1 DEF Watchers, Records
<1>3. domain[n] # {} /\ The(domain[n]).secrets = watcher[p].got
  BY <1>1 DEF WatchersOK, FreshOK
<1>4. The(domain[n]) \in Domains /\ domain \in [Names -> Maybe(Domains)]
  <2>1. domain \in [Names -> Maybe(Domains)] /\ domain[n] \in Maybe(Domains)
    BY DEF RestOK
  <2> QED
    BY <1>3, <2>1, MaybeIs
<1>5. Judge(watcher[p].list, n) \in Statuses
  BY <1>2, JudgeIs
<1>6. d \in Domains /\ d.secrets = watcher[p].got
  BY <1>2, <1>4, <1>5, DomainTyped, ZenonT(60)
<1> HIDE DEF d
<1>7. {d} \in Maybe(Domains)
  BY <1>6 DEF Maybe
<1>8. Done(p, n) \in Watchers /\ ~Done(p, n).fresh
  BY <1>2, DoneTyped
<1>9. /\ watcher' \in [Pods -> Watchers]
      /\ \A q \in Pods : watcher'[q] = Conflicting(n)[q] \/ ~watcher'[q].fresh
  <2>1. Conflicting(n) \in [Pods -> Watchers]
    BY ConflictingTyped
  <2> QED
    BY <1>1, <1>8, <2>1
<1>10. WatchersOK' /\ domain' \in [Names -> Maybe(Domains)] /\ stale' \in [Pods -> SUBSET Names]
  BY <1>1, <1>7, <1>9, DomainWritten, ZenonT(60)
<1>11. RestOK'
  BY <1>1, <1>10, ZenonT(60) DEF RestOK
<1>12. The(domain'[n]).secrets = The(domain[n]).secrets
  BY <1>1, <1>3, <1>4, <1>6, TheIs, ZenonT(60)
<1> QED
  BY <1>10, <1>11, <1>12

-----------------------------------------------------------------------------
(* The theorems.                                                           *)

\* The pods start with what users, and another leader, have made before.
LEMMA InvInit == Init => Inv
<1> SUFFICES ASSUME Init PROVE Inv
  OBVIOUS
<1>1. PICK old \in OldDomains :
        domain = [n \in Names |-> {[New(s) EXCEPT !.condition = IF leader = OtherPod THEN Judge(old, n) ELSE @] : s \in old[n]}]
  BY ZenonT(60) DEF Init
<1>2. old \in Listings
  BY DomainsAssumption
<1>3. ASSUME NEW n \in Names PROVE domain[n] \in Maybe(Domains)
  <2>1. old[n] \in Maybe(Specs)
    BY <1>2 DEF Listings
  <2>2. CASE old[n] = {}
    BY <1>1, <2>2 DEF Maybe
  <2>3. CASE old[n] # {}
    <3>1. PICK s \in Specs : old[n] = {s}
      BY <2>1, <2>3 DEF Maybe
    <3> DEFINE c == IF leader = OtherPod THEN Judge(old, n) ELSE New(s).condition
    <3>2. domain[n] = {[New(s) EXCEPT !.condition = c]}
      BY <1>1, <3>1
    <3>3. New(s) \in Domains /\ New(s).condition \in Statuses
      BY NewTyped DEF Domains
    <3>4. c \in Statuses
      BY <1>2, <2>3, <3>3, JudgeIs
    <3> HIDE DEF c
    <3>5. [New(s) EXCEPT !.condition = c] \in Domains
      BY <3>3, <3>4, DomainTyped, ZenonT(60)
    <3> QED
      BY <3>2, <3>5 DEF Maybe
  <2> QED
    BY <2>2, <2>3
<1>4. domain \in [Names -> Maybe(Domains)]
  BY <1>1, <1>3
<1>5. SpecsIn(domain) \in Listings
  BY <1>4, SpecsInTyped
<1>6. FirstKeys \in SUBSET {"watcher", "tls"} /\ [h \in Hosts |-> NoCert] \in [Hosts -> Certs \cup {NoCert}]
  BY DEF FirstKeys
<1>7. RestOK
  <2>1. leader \in Pods \cup {OtherPod} /\ cert \in [TLSSecrets -> Certs \cup {NoCert}] /\ changes \in 0..MaxChanges
    BY CertsAssumption, BoundAssumption DEF Init
  <2>2. seen \in [Pods -> Listings] /\ seenCert \in [Pods -> [TLSSecrets -> Certs \cup {NoCert}]]
    BY <1>5, <2>1, ZenonT(60) DEF Init
  <2>3. stale \in [Pods -> SUBSET Names] /\ queued \in [Pods -> SUBSET {"watcher", "tls"}]
    BY <1>6 DEF Init
  <2>4. hostCert \in [Pods -> [Hosts -> Certs \cup {NoCert}]] /\ defaultCert \in [Pods -> Certs \cup {NoCert}]
    BY <1>6 DEF Init
  <2> QED
    BY <1>4, <2>1, <2>2, <2>3, <2>4 DEF RestOK
<1>8. {} \in Served
  <2>1. [n \in Names |-> {}] \in Listings
    BY DEF Listings, Maybe
  <2> QED
    BY <2>1 DEF Served
<1>9. WatchersOK
  <2>1. watcher = [p \in Pods |-> IdleWatcher] /\ providers = [p \in Pods |-> {}]
    BY DEF Init
  <2> QED
    BY <1>8, <2>1, IdleTyped DEF WatchersOK, FreshOK
<1> QED
  BY <1>7, <1>9, Forms

\* Every step of the cluster, of a pod and of another leader keeps the invariant.
LEMMA InvNext == Inv /\ [Next]_vars => Inv'
<1>0. Inv' <=> (WatchersOK /\ RestOK)'
  BY Forms, PTL
<1> SUFFICES ASSUME WatchersOK, RestOK, [Next]_vars PROVE WatchersOK' /\ RestOK'
  BY <1>0, Forms
<1>1. CASE Cluster \/ OtherLeader
  BY <1>1, ChangeDomainStep, InformerStep, PodStep DEF Cluster, OtherLeader
<1>2. ASSUME NEW p \in Pods, Watcher(p) PROVE WatchersOK' /\ RestOK'
  BY <1>2, SyncStep, UpdateStatusStep, ZenonT(60) DEF Watcher
<1>3. ASSUME NEW p \in Pods, Informer(p) \/ ObserveTLS(p) PROVE WatchersOK' /\ RestOK'
  BY <1>3, InformerStep, PodStep DEF Informer
<1>4. CASE UNCHANGED vars
  BY <1>4, WatchersStay DEF vars, RestOK
<1> QED
  BY <1>1, <1>2, <1>3, <1>4 DEF Next

\* The inductive invariant holds of every state.
THEOREM InvAlways == Spec => []Inv
  BY InvInit, InvNext, PTL DEF Spec

\* The FederationDomains, the informers and the Sync of each pod are typed; a pod serves
\* only issuers that are valid.
THEOREM TypeCorrect == Spec => []TypeOK
<1>1. Inv => TypeOK
  BY DEF Inv
<1> QED
  BY <1>1, InvAlways, PTL

\* For any number of pods and FederationDomains, and however late the informers are, a pod
\* never serves two FederationDomains with one issuer, nor two that want different
\* certificates for one host.
THEOREM ServedTogether == Spec => []ServedAreCompatible
<1>1. Inv => ServedAreCompatible
  <2> SUFFICES ASSUME ServedOK, NEW p \in Pods, NEW a \in providers[p], NEW b \in providers[p]
               PROVE  /\ a.issuer = b.issuer => a = b
                      /\ a.host = b.host => a.tls = b.tls \/ NoTLS \in {a.tls, b.tls}
    BY DEF Inv, ServedAreCompatible
  <2>1. PICK list \in Listings : providers[p] \subseteq Approved(list)
    BY DEF ServedOK
  <2> QED
    BY <2>1, ApprovedAreCompatible
<1> QED
  BY <1>1, InvAlways, PTL

\* UpdateStatus of the watcher writes back what other controllers have written to the
\* status of the object: a write between its Get and its UpdateStatus is a conflict.
THEOREM StatusOfOthersStays == Spec => OtherStatusKept
<1>1. Inv /\ [Next]_vars =>
        [\A p \in Pods, n \in Names : UpdateStatus(p, n) => The(domain'[n]).secrets = The(domain[n]).secrets]_vars
  BY Forms, UpdateStatusStep
<1> QED
  BY <1>1, InvAlways, PTL DEF Spec, OtherStatusKept

-----------------------------------------------------------------------------
(* A pod that rests is right.                                              *)

\* What a Sync has done matters by these fields.
Same(v, w) ==
  /\ v.at = "idle" <=> w.at = "idle"
  /\ v.list = w.list /\ v.todo = w.todo /\ v.approved = w.approved /\ v.failed = w.failed

\* Who writes a FederationDomain makes it stale; otherwise nothing changes for a pod that
\* a step is not about.
LEMMA PodStays ==
  ASSUME NEW p \in Pods, PodOK(p),
         seen'[p] = seen[p], seenCert'[p] = seenCert[p], queued'[p] = queued[p], providers'[p] = providers[p],
         hostCert'[p] = hostCert[p], defaultCert'[p] = defaultCert[p],
         Same(watcher'[p], watcher[p]), stale[p] \subseteq stale'[p],
         \A n \in Names \ stale'[p] : domain'[n] = domain[n]
  PROVE  PodOK(p)'
<1>1. SeenOK(p)'
  <2>1. ASSUME NEW n \in Names \ stale'[p] PROVE seen'[p][n] = SpecsIn(domain')[n]
    <3>1. seen[p][n] = SpecsIn(domain)[n]
      BY DEF PodOK, SeenOK
    <3>2. SpecsIn(domain')[n] = SpecsIn(domain)[n]
      BY DEF SpecsIn
    <3> QED
      BY <3>1, <3>2, ZenonT(60)
  <2>2. /\ "watcher" \notin queued'[p] /\ watcher'[p].at # "idle" => watcher'[p].list = seen'[p]
        /\ watcher'[p].at = "idle" => watcher'[p].todo = {} /\ ~watcher'[p].failed
    BY DEF PodOK, SeenOK, Same
  <2> QED
    BY <2>1, <2>2, ZenonT(60) DEF SeenOK
<1>2. JudgedOK(p)'
  <2> SUFFICES ASSUME "watcher" \notin queued[p], ~watcher[p].failed, NEW n \in Names, domain'[n] # {},
                      n \notin stale'[p], n \notin watcher[p].todo
               PROVE  The(domain'[n]).condition = Judge(seen[p], n)
    BY ZenonT(60) DEF JudgedOK, Quiet, Same, Listed
  <2>1. domain'[n] = domain[n] /\ n \notin stale[p]
    OBVIOUS
  <2> QED
    BY <2>1, ZenonT(60) DEF PodOK, JudgedOK, Quiet, Listed
<1>3. CollectedOK(p)'
  BY ZenonT(60) DEF PodOK, CollectedOK, Same
<1>4. ObservedOK(p)'
  BY ZenonT(60) DEF PodOK, ObservedOK
<1> QED
  BY <1>1, <1>2, <1>3, <1>4, ZenonT(60) DEF PodOK

\* The fields of a Sync that is done with a FederationDomain.
LEMMA DoneFields ==
  ASSUME NEW p \in Pods, NEW n, watcher[p] \in Records
  PROVE  /\ Done(p, n).at = "looping" /\ Done(p, n).list = watcher[p].list
         /\ Done(p, n).todo = watcher[p].todo \ {n} /\ Done(p, n).failed = watcher[p].failed
         /\ watcher[p].approved \subseteq Done(p, n).approved
         /\ Judge(watcher[p].list, n).status = "Success" => SpecOf(watcher[p].list, n) \in Done(p, n).approved
<1> DEFINE w == watcher[p]
           a == IF Judge(w.list, n).status = "Success" THEN w.approved \cup {SpecOf(w.list, n)} ELSE w.approved
<1>1. Done(p, n) = [w EXCEPT !.at = "looping", !.todo = w.todo \ {n}, !.got = FALSE, !.name = {}, !.fresh = FALSE,
                             !.approved = a]
  BY DEF Done
<1>2. w \in Records
  OBVIOUS
<1> HIDE DEF w, a
<1>3. /\ Done(p, n).at = "looping" /\ Done(p, n).list = w.list
      /\ Done(p, n).todo = w.todo \ {n} /\ Done(p, n).failed = w.failed /\ Done(p, n).approved = a
  BY <1>1, <1>2, ZenonT(60) DEF Records
<1>4. w.approved \subseteq a /\ (Judge(w.list, n).status = "Success" => SpecOf(w.list, n) \in a)
  BY DEF a
<1> QED
  BY <1>3, <1>4, ZenonT(60) DEF w

\* A FederationDomain is done, and is served if it was judged so: it has the status that Sync
\* gives it, or was written just now.
LEMMA DoneStays ==
  ASSUME NEW p \in Pods, PodOK(p), NEW n \in Names,
         watcher[p].at # "idle", watcher'[p].at = "looping", watcher'[p].list = watcher[p].list,
         watcher'[p].todo = watcher[p].todo \ {n}, watcher'[p].failed = watcher[p].failed,
         watcher[p].approved \subseteq watcher'[p].approved,
         Judge(watcher[p].list, n).status = "Success" => SpecOf(watcher[p].list, n) \in watcher'[p].approved,
         seen'[p] = seen[p], seenCert'[p] = seenCert[p], queued'[p] = queued[p], providers'[p] = providers[p],
         hostCert'[p] = hostCert[p], defaultCert'[p] = defaultCert[p], stale[p] \subseteq stale'[p],
         \A m \in Names \ stale'[p] : domain'[m] = domain[m],
         n \in stale'[p] \/ The(domain[n]).condition = Judge(watcher[p].list, n)
  PROVE  PodOK(p)'
<1>1. SeenOK(p)'
  <2>1. ASSUME NEW m \in Names \ stale'[p] PROVE seen'[p][m] = SpecsIn(domain')[m]
    <3>1. seen[p][m] = SpecsIn(domain)[m]
      BY ZenonT(60) DEF PodOK, SeenOK
    <3>2. SpecsIn(domain')[m] = SpecsIn(domain)[m]
      BY ZenonT(60) DEF SpecsIn
    <3> QED
      BY <3>1, <3>2, ZenonT(60)
  <2>2. "watcher" \notin queued'[p] => watcher'[p].list = seen'[p]
    BY ZenonT(60) DEF PodOK, SeenOK
  <2> QED
    BY <2>1, <2>2, ZenonT(60) DEF SeenOK
<1>2. JudgedOK(p)'
  <2> SUFFICES ASSUME "watcher" \notin queued[p], ~watcher[p].failed, NEW m \in Names, domain'[m] # {},
                      m \notin stale'[p], m \notin watcher[p].todo \ {n}
               PROVE  The(domain'[m]).condition = Judge(seen[p], m)
    BY ZenonT(60) DEF JudgedOK, Quiet, Listed
  <2>1. domain'[m] = domain[m] /\ m \notin stale[p]
    BY ZenonT(60)
  <2>2. CASE m = n
    <3>1. watcher[p].list = seen[p]
      BY ZenonT(60) DEF PodOK, SeenOK
    <3> QED
      BY <2>1, <2>2, <3>1, ZenonT(60)
  <2>3. CASE m # n
    BY <2>1, <2>3, ZenonT(60) DEF PodOK, JudgedOK, Quiet, Listed
  <2> QED
    BY <2>2, <2>3, ZenonT(60)
<1>3. CollectedOK(p)'
  <2> SUFFICES ASSUME ~watcher[p].failed, NEW m \in Listed(watcher[p].list), m \notin watcher[p].todo \ {n},
                      Judge(watcher[p].list, m).status = "Success"
               PROVE  SpecOf(watcher[p].list, m) \in watcher'[p].approved
    BY ZenonT(60) DEF CollectedOK
  <2>1. CASE m = n
    BY <2>1, ZenonT(60)
  <2>2. CASE m # n
    <3>1. SpecOf(watcher[p].list, m) \in watcher[p].approved
      BY <2>2, ZenonT(60) DEF PodOK, CollectedOK
    <3> QED
      BY <3>1, ZenonT(60)
  <2> QED
    BY <2>1, <2>2, ZenonT(60)
<1>4. ObservedOK(p)'
  BY ZenonT(60) DEF PodOK, ObservedOK
<1> QED
  BY <1>1, <1>2, <1>3, <1>4, ZenonT(60) DEF PodOK

\* After an error there will be another Sync.
LEMMA FailedStays ==
  ASSUME NEW p \in Pods, PodOK(p), NEW n \in Names, watcher[p] \in Records,
         watcher[p].at # "idle", watcher'[p] = Failed(p, n),
         UNCHANGED <<domain, seen, stale, seenCert, queued, providers, hostCert, defaultCert>>
  PROVE  PodOK(p)'
<1> DEFINE w == watcher[p]
<1>1. Failed(p, n) = [w EXCEPT !.at = "looping", !.todo = w.todo \ {n}, !.got = FALSE, !.name = {}, !.fresh = FALSE,
                               !.failed = TRUE]
  BY DEF Failed
<1>2. w \in Records /\ w.at # "idle"
  OBVIOUS
<1> HIDE DEF w
<1>3. Failed(p, n).at = "looping" /\ Failed(p, n).list = w.list /\ Failed(p, n).failed = TRUE
  BY <1>1, <1>2, ZenonT(60) DEF Records
<1>4. watcher'[p].at = "looping" /\ watcher'[p].list = watcher[p].list /\ watcher'[p].failed
  BY <1>3, ZenonT(60) DEF w
<1>5. SeenOK(p)'
  BY <1>4, ZenonT(60) DEF PodOK, SeenOK
<1>6. JudgedOK(p)' /\ CollectedOK(p)'
  BY <1>4, ZenonT(60) DEF JudgedOK, Quiet, CollectedOK
<1>7. ObservedOK(p)'
  BY ZenonT(60) DEF PodOK, ObservedOK
<1> QED
  BY <1>5, <1>6, <1>7, ZenonT(60) DEF PodOK

\* A pod has just started.
Started(p) ==
  /\ seen[p] = SpecsIn(domain) /\ seenCert[p] = cert /\ queued[p] = FirstKeys /\ watcher[p] = IdleWatcher
  /\ providers[p] = {} /\ hostCert[p] = [h \in Hosts |-> NoCert] /\ defaultCert[p] = NoCert

\* It has nothing to do only when there is nothing.
StartsOK == \A p \in Pods : Started(p) => PodOK(p)

\* The keys that the informers of a new pod queue are enough.
LEMMA StartStays == StartsOK
<1> SUFFICES ASSUME NEW p \in Pods, Started(p) PROVE PodOK(p)
  BY DEF StartsOK
<1> USE DEF Started
<1>0. watcher[p].at = "idle" /\ watcher[p].todo = {} /\ watcher[p].failed = FALSE
  BY IdleIs, ZenonT(60)
<1>1. ASSUME "watcher" \notin queued[p]
      PROVE  Listed(domain) = {} /\ Listed(seen[p]) = {}
  <2>1. \A n \in Names : domain[n] = {}
    BY <1>1 DEF FirstKeys
  <2>2. \A n \in Names : seen[p][n] = {}
    BY <2>1 DEF SpecsIn
  <2> QED
    BY <2>1, <2>2 DEF Listed
<1>2. SeenOK(p)
  BY <1>0, ZenonT(60) DEF SeenOK
<1>3. JudgedOK(p)
  BY <1>1, ZenonT(60) DEF JudgedOK, Quiet
<1>4. CollectedOK(p)
  <2>1. ASSUME "watcher" \notin queued[p] PROVE Approved(seen[p]) = {}
    BY <1>1, <2>1 DEF Approved
  <2> QED
    BY <1>0, <2>1, ZenonT(60) DEF CollectedOK
<1>5. ObservedOK(p)
  <2> SUFFICES ASSUME "tls" \notin queued[p]
               PROVE  /\ \A h \in Hosts : CertsFor(seen[p], seenCert[p], h) = {}
                      /\ defaultCert[p] = seenCert[p][DefaultTLS]
    BY DEF ObservedOK
  <2>1. "watcher" \notin queued[p] /\ \A t \in TLSSecrets : cert[t] = NoCert
    BY DEF FirstKeys
  <2>2. Parsed(seen[p]) = {}
    BY <1>1, <2>1 DEF Parsed
  <2>3. \A h \in Hosts : CertsFor(seen[p], seenCert[p], h) = {}
    BY <2>2 DEF CertsFor
  <2> QED
    BY <2>1, <2>3, NamesAssumption, ZenonT(60)
<1> QED
  BY <1>2, <1>3, <1>4, <1>5 DEF PodOK

\* Who has read a FederationDomain that is written meets a conflict, and nothing else.
LEMMA ConflictingSame ==
  ASSUME WatchersOK, NEW n \in Names, NEW p \in Pods
  PROVE  Same(Conflicting(n)[p], watcher[p])
<1> DEFINE w == watcher[p]
<1>1. w \in Records
  BY DEF WatchersOK, Watchers
<1>2. Conflicting(n)[p] = IF n \in w.name THEN [w EXCEPT !.fresh = FALSE] ELSE w
  BY DEF Conflicting
<1> HIDE DEF w
<1>3. Same([w EXCEPT !.fresh = FALSE], w) /\ Same(w, w)
  BY <1>1 DEF Same, Records
<1>4. Same(Conflicting(n)[p], w)
  BY <1>2, <1>3
<1> QED
  BY <1>4 DEF w

\* Somebody's write makes a FederationDomain stale for every pod.
LEMMA WrittenStays ==
  ASSUME WatchersOK, RestOK, EventsOK, NEW n \in Names,
         \/ \E to \in Maybe(Specs) : ChangeDomain(n, to)
         \/ OtherStatusWriter(n) \/ OtherPodUpdates(n)
  PROVE  EventsOK'
<1>1. /\ watcher' = Conflicting(n) /\ stale' = AllStale(n)
      /\ UNCHANGED <<seen, seenCert, queued, providers, hostCert, defaultCert>>
  BY DEF ChangeDomain, OtherStatusWriter, OtherPodUpdates
<1>2. \E S : domain' = [domain EXCEPT ![n] = S]
  BY DEF ChangeDomain, OtherStatusWriter, OtherPodUpdates
<1>3. ASSUME NEW p \in Pods PROVE PodOK(p)'
  <2>1. stale[p] \subseteq stale'[p] /\ n \in stale'[p]
    BY <1>1 DEF RestOK, AllStale
  <2>2. \A m \in Names \ stale'[p] : domain'[m] = domain[m]
    BY <1>2, <2>1, ZenonT(60) DEF RestOK
  <2>3. Same(watcher'[p], watcher[p])
    BY <1>1, ConflictingSame, ZenonT(60)
  <2> QED
    BY <1>1, <2>1, <2>2, <2>3, PodStays, ZenonT(60) DEF EventsOK
<1> QED
  BY <1>3 DEF EventsOK

\* Certificates, the Lease and the events of the informers.
LEMMA EventStays ==
  ASSUME WatchersOK, RestOK, EventsOK,
         \/ \E t \in TLSSecrets, c \in Certs \cup {NoCert} : ChangeCert(t, c)
         \/ ChangeLeader
         \/ \E p \in Pods, n \in Names : DomainEvent(p, n)
         \/ \E p \in Pods, t \in TLSSecrets : CertEvent(p, t)
  PROVE  EventsOK'
<1>0. \A w : Same(w, w)
  BY DEF Same
<1>1. ASSUME \/ \E t \in TLSSecrets, c \in Certs \cup {NoCert} : ChangeCert(t, c)
             \/ ChangeLeader
      PROVE  EventsOK'
  <2>1. UNCHANGED <<domain, seen, stale, seenCert, queued, watcher, providers, hostCert, defaultCert>>
    BY <1>1 DEF ChangeCert, ChangeLeader
  <2>2. ASSUME NEW p \in Pods PROVE PodOK(p)'
    BY <1>0, <2>1, PodStays, ZenonT(60) DEF EventsOK
  <2> QED
    BY <2>2 DEF EventsOK
<1>2. ASSUME NEW p \in Pods, NEW n \in Names, DomainEvent(p, n) PROVE EventsOK'
  <2>0. /\ UNCHANGED <<domain, seenCert, watcher, providers, hostCert, defaultCert>>
        /\ stale' = [stale EXCEPT ![p] = @ \ {n}] /\ seen' = [seen EXCEPT ![p][n] = SpecsIn(domain)[n]]
        /\ queued' = [queued EXCEPT ![p] = {"watcher", "tls"}]
    BY <1>2 DEF DomainEvent
  <2>1. ASSUME NEW q \in Pods, q # p PROVE PodOK(q)'
    <3>1. stale'[q] = stale[q] /\ seen'[q] = seen[q] /\ queued'[q] = queued[q]
      BY <2>0, <2>1 DEF RestOK
    <3> QED
      BY <1>0, <2>0, <3>1, PodStays, ZenonT(60) DEF EventsOK
  <2>2. PodOK(p)'
    <3>1. /\ stale'[p] = stale[p] \ {n} /\ queued'[p] = {"watcher", "tls"}
          /\ seen'[p] = [seen[p] EXCEPT ![n] = SpecsIn(domain)[n]]
      BY <2>0 DEF RestOK
    <3>2. seen[p] \in [Names -> Maybe(Specs)] /\ PodOK(p)
      BY DEF RestOK, Listings, EventsOK
    <3>3. ASSUME NEW m \in Names, m \notin stale'[p] PROVE seen'[p][m] = SpecsIn(domain)[m]
      BY <3>1, <3>2, <3>3, ZenonT(60) DEF PodOK, SeenOK
    <3>4. SeenOK(p)'
      BY <2>0, <3>1, <3>2, <3>3, ZenonT(60) DEF SeenOK, PodOK
    <3>5. JudgedOK(p)' /\ ObservedOK(p)'
      BY <3>1, ZenonT(60) DEF JudgedOK, Quiet, ObservedOK
    <3>6. CollectedOK(p)'
      BY <2>0, <3>1, <3>2, ZenonT(60) DEF CollectedOK, PodOK
    <3> QED
      BY <3>4, <3>5, <3>6 DEF PodOK
  <2> QED
    BY <2>1, <2>2 DEF EventsOK
<1>3. ASSUME NEW p \in Pods, NEW t \in TLSSecrets, CertEvent(p, t) PROVE EventsOK'
  <2>0. /\ UNCHANGED <<domain, seen, stale, watcher, providers, hostCert, defaultCert>>
        /\ seenCert' = [seenCert EXCEPT ![p][t] = cert[t]] /\ queued' = [queued EXCEPT ![p] = @ \cup {"tls"}]
    BY <1>3 DEF CertEvent
  <2>1. ASSUME NEW q \in Pods, q # p PROVE PodOK(q)'
    <3>1. seenCert'[q] = seenCert[q] /\ queued'[q] = queued[q]
      BY <2>0, <2>1 DEF RestOK
    <3> QED
      BY <1>0, <2>0, <3>1, PodStays, ZenonT(60) DEF EventsOK
  <2>2. PodOK(p)'
    <3>1. queued'[p] = queued[p] \cup {"tls"} /\ PodOK(p)
      BY <2>0 DEF RestOK, EventsOK
    <3>2. ObservedOK(p)'
      BY <3>1, ZenonT(60) DEF ObservedOK
    <3>3. SeenOK(p)' /\ JudgedOK(p)' /\ CollectedOK(p)'
      BY <2>0, <3>1, ZenonT(60) DEF PodOK, SeenOK, JudgedOK, Quiet, CollectedOK
    <3> QED
      BY <3>2, <3>3 DEF PodOK
  <2> QED
    BY <2>1, <2>2 DEF EventsOK
<1> QED
  BY <1>1, <1>2, <1>3

\* A pod starts again, or its TLS observer runs.
LEMMA PodItself ==
  ASSUME WatchersOK, RestOK, EventsOK, NEW p \in Pods, Restart(p) \/ ObserveTLS(p)
  PROVE  EventsOK'
<1>0. \A w : Same(w, w)
  BY DEF Same
<1>1. CASE Restart(p)
  <2>1. ASSUME NEW q \in Pods, q # p PROVE PodOK(q)'
    <3>1. /\ seen'[q] = seen[q] /\ seenCert'[q] = seenCert[q] /\ queued'[q] = queued[q] /\ providers'[q] = providers[q]
          /\ hostCert'[q] = hostCert[q] /\ defaultCert'[q] = defaultCert[q]
          /\ watcher'[q] = watcher[q] /\ stale'[q] = stale[q] /\ domain' = domain
      BY <1>1, <2>1, ZenonT(60) DEF Restart, RestOK, WatchersOK
    <3> QED
      BY <1>0, <3>1, PodStays, ZenonT(60) DEF EventsOK
  <2>2. PodOK(p)'
    <3>1. UNCHANGED <<domain, cert>>
      BY <1>1 DEF Restart
    <3>2. seen'[p] = SpecsIn(domain') /\ seenCert'[p] = cert'
      BY <1>1, <3>1 DEF Restart, RestOK
    <3>3. queued'[p] = FirstKeys'
      BY <1>1, <3>1 DEF Restart, RestOK, FirstKeys
    <3>4. watcher'[p] = IdleWatcher /\ providers'[p] = {}
      BY <1>1 DEF Restart, WatchersOK
    <3>5. hostCert'[p] = [h \in Hosts |-> NoCert] /\ defaultCert'[p] = NoCert
      BY <1>1 DEF Restart, RestOK
    <3>6. Started(p)'
      BY <3>2, <3>3, <3>4, <3>5, ZenonT(60) DEF Started
    <3>7. StartsOK'
      BY StartStays, PTL
    <3> QED
      BY <3>6, <3>7 DEF StartsOK
  <2> QED
    BY <2>1, <2>2 DEF EventsOK
<1>2. CASE ObserveTLS(p)
  <2>0. /\ UNCHANGED <<domain, seen, stale, seenCert, watcher, providers>>
        /\ queued' = [queued EXCEPT ![p] = @ \ {"tls"}]
        /\ defaultCert' = [defaultCert EXCEPT ![p] = seenCert[p][DefaultTLS]]
    BY <1>2, ZenonT(60) DEF ObserveTLS
  <2>1. PICK to \in [Hosts -> Certs \cup {NoCert}] :
          /\ \A h \in Hosts : LET found == CertsFor(seen[p], seenCert[p], h) IN
               to[h] \in IF found = {} THEN {NoCert} ELSE found
          /\ hostCert' = [hostCert EXCEPT ![p] = to]
    BY <1>2, ZenonT(60) DEF ObserveTLS
  <2>2. ASSUME NEW q \in Pods, q # p PROVE PodOK(q)'
    <3>1. hostCert'[q] = hostCert[q] /\ defaultCert'[q] = defaultCert[q] /\ queued'[q] = queued[q]
      BY <2>0, <2>1, <2>2, ZenonT(60) DEF RestOK
    <3> QED
      BY <1>0, <2>0, <3>1, PodStays, ZenonT(60) DEF EventsOK
  <2>3. PodOK(p)'
    <3>1. hostCert'[p] = to /\ defaultCert'[p] = seenCert[p][DefaultTLS] /\ queued'[p] = queued[p] \ {"tls"}
      BY <2>0, <2>1, ZenonT(60) DEF RestOK
    <3>2. ObservedOK(p)'
      BY <2>0, <2>1, <3>1, ZenonT(60) DEF ObservedOK
    <3>3. PodOK(p)
      BY DEF EventsOK
    <3>4. SeenOK(p)' /\ JudgedOK(p)' /\ CollectedOK(p)'
      BY <2>0, <3>1, <3>3, ZenonT(60) DEF PodOK, SeenOK, JudgedOK, Quiet, CollectedOK
    <3> QED
      BY <3>2, <3>4 DEF PodOK
  <2> QED
    BY <2>2, <2>3 DEF EventsOK
<1> QED
  BY <1>1, <1>2

\* A Sync begins: what it has listed is all to do.
LEMMA ListStays ==
  ASSUME WatchersOK, RestOK, EventsOK, NEW p \in Pods, List(p)
  PROVE  PodOK(p)'
<1> DEFINE v == [IdleWatcher EXCEPT !.at = "looping", !.list = seen[p], !.todo = Listed(seen[p])]
<1>1. /\ watcher'[p] = v /\ queued'[p] = queued[p] \ {"watcher"}
      /\ UNCHANGED <<domain, seen, stale, seenCert, providers, hostCert, defaultCert>>
  BY DEF List, WatchersOK, RestOK
<1>2. v.at = "looping" /\ v.list = seen[p] /\ v.todo = Listed(seen[p])
  BY DEF IdleWatcher
<1> HIDE DEF v
<1>3. PodOK(p)
  BY DEF EventsOK
<1>4. SeenOK(p)'
  BY <1>1, <1>2, <1>3, ZenonT(60) DEF PodOK, SeenOK
<1>5. JudgedOK(p)'
  <2>1. ASSUME NEW n \in Listed(domain), n \notin stale[p] PROVE n \in Listed(seen[p])
    <3>1. seen[p][n] = SpecsIn(domain)[n] /\ n \in Names /\ domain[n] # {}
      BY <1>3, <2>1, ZenonT(60) DEF PodOK, SeenOK, Listed
    <3>2. SpecsIn(domain)[n] # {}
      BY <3>1, ZenonT(60) DEF SpecsIn
    <3> QED
      BY <3>1, <3>2, ZenonT(60) DEF Listed
  <2> QED
    BY <1>1, <1>2, <2>1, ZenonT(60) DEF JudgedOK
<1>6. CollectedOK(p)'
  BY <1>1, <1>2, ZenonT(60) DEF CollectedOK
<1>7. ObservedOK(p)'
  BY <1>1, <1>3, ZenonT(60) DEF PodOK, ObservedOK
<1> QED
  BY <1>4, <1>5, <1>6, <1>7 DEF PodOK

\* A Sync ends: without an error it has approved all of what it listed.
LEMMA SetProvidersStays ==
  ASSUME WatchersOK, RestOK, EventsOK, NEW p \in Pods, SetProviders(p)
  PROVE  PodOK(p)'
<1>1. /\ watcher'[p] = IdleWatcher /\ providers'[p] = watcher[p].approved
      /\ watcher[p].at = "looping" /\ watcher[p].todo = {}
      /\ queued'[p] = IF watcher[p].failed THEN queued[p] \cup {"watcher"} ELSE queued[p]
      /\ UNCHANGED <<domain, seen, stale, seenCert, hostCert, defaultCert>>
  BY ZenonT(60) DEF SetProviders, WatchersOK, RestOK
<1>2. IdleWatcher.at = "idle" /\ IdleWatcher.todo = {} /\ IdleWatcher.failed = FALSE
  BY IdleIs, ZenonT(60)
<1>3. PodOK(p) /\ watcher[p] \in Watchers
  BY DEF EventsOK, WatchersOK
<1>4. SeenOK(p)'
  BY <1>1, <1>2, <1>3, ZenonT(60) DEF PodOK, SeenOK
<1>5. JudgedOK(p)'
  BY <1>1, <1>2, <1>3, ZenonT(60) DEF PodOK, JudgedOK, Quiet
<1>6. CollectedOK(p)'
  <2> SUFFICES ASSUME "watcher" \notin queued'[p] PROVE watcher[p].approved = Approved(seen[p])
    BY <1>1, <1>2 DEF CollectedOK
  <2>1. ~watcher[p].failed /\ "watcher" \notin queued[p] /\ watcher[p].list = seen[p]
    BY <1>1, <1>3, ZenonT(60) DEF PodOK, SeenOK
  <2>2. \A n \in Listed(seen[p]) : Judge(seen[p], n).status = "Success" => SpecOf(seen[p], n) \in watcher[p].approved
    BY <1>1, <1>3, <2>1, ZenonT(60) DEF PodOK, CollectedOK
  <2>3. watcher[p].approved \subseteq Approved(seen[p])
    BY <1>3, <2>1 DEF Watchers
  <2> QED
    BY <2>2, <2>3, ZenonT(60) DEF Approved
<1>7. ObservedOK(p)'
  BY <1>1, <1>3, ZenonT(60) DEF PodOK, ObservedOK
<1> QED
  BY <1>4, <1>5, <1>6, <1>7 DEF PodOK

\* The steps of the watcher.
LEMMA WatcherStays ==
  ASSUME WatchersOK, RestOK, EventsOK, NEW p \in Pods, Watcher(p)
  PROVE  EventsOK'
<1>0. (\A w : Same(w, w)) /\ watcher \in [Pods -> Watchers] /\ watcher[p] \in Records /\ PodOK(p)
  BY ZenonT(60) DEF Same, WatchersOK, Watchers, EventsOK
<1>1. ASSUME List(p) \/ SetProviders(p) PROVE EventsOK'
  <2>1. ASSUME NEW q \in Pods, q # p PROVE PodOK(q)'
    <3>1. /\ UNCHANGED <<domain, seen, stale, seenCert, hostCert, defaultCert>>
          /\ queued'[q] = queued[q] /\ watcher'[q] = watcher[q] /\ providers'[q] = providers[q]
      BY <1>1, <2>1 DEF List, SetProviders, WatchersOK, RestOK
    <3> QED
      BY <1>0, <3>1, PodStays, ZenonT(60) DEF EventsOK
  <2> QED
    BY <1>1, <2>1, ListStays, SetProvidersStays DEF EventsOK
<1>2. ASSUME NEW n \in Names, GetDomain(p, n) \/ Conflict(p, n) \/ CallFails(p, n) PROVE EventsOK'
  <2>0. UNCHANGED <<domain, seen, stale, seenCert, queued, providers, hostCert, defaultCert>>
    BY <1>2, ZenonT(60) DEF GetDomain, Conflict, CallFails
  <2>1. \E v : watcher' = [watcher EXCEPT ![p] = v]
    BY <1>2, ZenonT(60) DEF GetDomain, Conflict, CallFails
  <2>2. ASSUME NEW q \in Pods, q # p PROVE PodOK(q)'
    <3>1. watcher'[q] = watcher[q]
      BY <1>0, <2>1, <2>2
    <3> QED
      BY <1>0, <2>0, <3>1, PodStays, ZenonT(60) DEF EventsOK
  <2>3. watcher[p].at # "idle"
    BY <1>2 DEF GetDomain, Conflict, CallFails
  <2>4. \/ watcher'[p] = Failed(p, n)
        \/ watcher'[p] = Done(p, n) /\ The(domain[n]).condition = Judge(watcher[p].list, n)
        \/ watcher'[p] = [watcher[p] EXCEPT !.at = "updating", !.got = The(domain[n]).secrets, !.name = {n}, !.fresh = TRUE]
        \/ watcher'[p] = [watcher[p] EXCEPT !.at = "looping", !.got = FALSE, !.name = {}]
    <3>1. CASE GetDomain(p, n)
      BY <1>0, <3>1 DEF GetDomain
    <3>2. CASE Conflict(p, n)
      BY <1>0, <3>2 DEF Conflict
    <3>3. CASE CallFails(p, n)
      BY <1>0, <3>3 DEF CallFails
    <3> QED
      BY <1>2, <3>1, <3>2, <3>3
  <2>5. ASSUME watcher'[p] = Failed(p, n) PROVE PodOK(p)'
    BY <1>0, <2>0, <2>3, <2>5, FailedStays
  <2>6. ASSUME watcher'[p] = Done(p, n), The(domain[n]).condition = Judge(watcher[p].list, n) PROVE PodOK(p)'
    <3>1. /\ seen'[p] = seen[p] /\ seenCert'[p] = seenCert[p] /\ queued'[p] = queued[p] /\ providers'[p] = providers[p]
          /\ hostCert'[p] = hostCert[p] /\ defaultCert'[p] = defaultCert[p] /\ stale[p] \subseteq stale'[p]
          /\ \A m \in Names \ stale'[p] : domain'[m] = domain[m]
      BY <2>0, ZenonT(60)
    <3>2. /\ watcher'[p].at = "looping" /\ watcher'[p].list = watcher[p].list
          /\ watcher'[p].todo = watcher[p].todo \ {n} /\ watcher'[p].failed = watcher[p].failed
          /\ watcher[p].approved \subseteq watcher'[p].approved
          /\ Judge(watcher[p].list, n).status = "Success" => SpecOf(watcher[p].list, n) \in watcher'[p].approved
      <4>1. /\ Done(p, n).at = "looping" /\ Done(p, n).list = watcher[p].list
            /\ Done(p, n).todo = watcher[p].todo \ {n} /\ Done(p, n).failed = watcher[p].failed
            /\ watcher[p].approved \subseteq Done(p, n).approved
            /\ Judge(watcher[p].list, n).status = "Success" => SpecOf(watcher[p].list, n) \in Done(p, n).approved
        BY <1>0, DoneFields, ZenonT(60)
      <4> QED
        BY <2>6, <4>1, ZenonT(60)
    <3> QED
      BY <1>0, <2>3, <2>6, <3>1, <3>2, DoneStays, ZenonT(60)
  <2>7. ASSUME \/ watcher'[p] = [watcher[p] EXCEPT !.at = "updating", !.got = The(domain[n]).secrets,
                                                   !.name = {n}, !.fresh = TRUE]
               \/ watcher'[p] = [watcher[p] EXCEPT !.at = "looping", !.got = FALSE, !.name = {}]
        PROVE  PodOK(p)'
    <3> DEFINE w == watcher[p]
               got == The(domain[n]).secrets
    <3>0. w \in Records /\ w.at # "idle"
      BY <1>0, <2>3
    <3>1. Same(watcher'[p], watcher[p])
      <4>1. \/ watcher'[p] = [w EXCEPT !.at = "updating", !.got = got, !.name = {n}, !.fresh = TRUE]
            \/ watcher'[p] = [w EXCEPT !.at = "looping", !.got = FALSE, !.name = {}]
        BY <2>7
      <4> HIDE DEF w, got
      <4>2. Same([w EXCEPT !.at = "updating", !.got = got, !.name = {n}, !.fresh = TRUE], w)
        BY <3>0 DEF Same, Records
      <4>3. Same([w EXCEPT !.at = "looping", !.got = FALSE, !.name = {}], w)
        BY <3>0 DEF Same, Records
      <4> QED
        BY <4>1, <4>2, <4>3 DEF w
    <3> QED
      BY <1>0, <2>0, <3>1, PodStays, ZenonT(60)
  <2>8. PodOK(p)'
    BY <2>4, <2>5, <2>6, <2>7
  <2> QED
    BY <2>2, <2>8 DEF EventsOK
<1>3. ASSUME NEW n \in Names, UpdateStatus(p, n) PROVE EventsOK'
  <2>1. /\ watcher' = [Conflicting(n) EXCEPT ![p] = Done(p, n)] /\ stale' = AllStale(n)
        /\ watcher[p].at # "idle"
        /\ UNCHANGED <<seen, seenCert, queued, providers, hostCert, defaultCert>>
    BY <1>3 DEF UpdateStatus
  <2>2. \E S : domain' = [domain EXCEPT ![n] = S]
    BY <1>3, ZenonT(60) DEF UpdateStatus
  <2>3. ASSUME NEW q \in Pods
        PROVE  /\ stale[q] \subseteq stale'[q] /\ n \in stale'[q]
               /\ \A m \in Names \ stale'[q] : domain'[m] = domain[m]
    <3>1. stale[q] \subseteq stale'[q] /\ n \in stale'[q]
      BY <2>1, ZenonT(60) DEF RestOK, AllStale
    <3> QED
      BY <2>2, <3>1, ZenonT(60) DEF RestOK
  <2>4. ASSUME NEW q \in Pods, q # p PROVE PodOK(q)'
    <3>1. watcher'[q] = Conflicting(n)[q]
      BY <2>1, <2>4, ZenonT(60) DEF Conflicting
    <3>2. Same(watcher'[q], watcher[q])
      BY <3>1, ConflictingSame, ZenonT(60)
    <3> QED
      BY <2>1, <2>3, <3>2, PodStays, ZenonT(60) DEF EventsOK
  <2>5. PodOK(p)'
    <3>1. watcher'[p] = Done(p, n)
      BY <2>1 DEF Conflicting
    <3>2. /\ watcher'[p].at = "looping" /\ watcher'[p].list = watcher[p].list
          /\ watcher'[p].todo = watcher[p].todo \ {n} /\ watcher'[p].failed = watcher[p].failed
          /\ watcher[p].approved \subseteq watcher'[p].approved
          /\ Judge(watcher[p].list, n).status = "Success" => SpecOf(watcher[p].list, n) \in watcher'[p].approved
      <4>1. /\ Done(p, n).at = "looping" /\ Done(p, n).list = watcher[p].list
            /\ Done(p, n).todo = watcher[p].todo \ {n} /\ Done(p, n).failed = watcher[p].failed
            /\ watcher[p].approved \subseteq Done(p, n).approved
            /\ Judge(watcher[p].list, n).status = "Success" => SpecOf(watcher[p].list, n) \in Done(p, n).approved
        BY <1>0, DoneFields, ZenonT(60)
      <4> QED
        BY <3>1, <4>1, ZenonT(60)
    <3> QED
      BY <1>0, <2>1, <2>3, <3>2, DoneStays, ZenonT(60)
  <2> QED
    BY <2>4, <2>5 DEF EventsOK
<1> QED
  BY <1>1, <1>2, <1>3 DEF Watcher

\* What the events say of every pod, with the inductive invariant.
THEOREM EventsAlways == Spec => []EventsOK
<1>1. Init => EventsOK
  <2> SUFFICES ASSUME Init, NEW p \in Pods PROVE PodOK(p)
    BY DEF EventsOK
  <2>1. Started(p)
    BY DEF Init, Started
  <2> QED
    BY <2>1, StartStays DEF StartsOK
<1>2. Inv /\ EventsOK /\ [Next]_vars => EventsOK'
  <2> SUFFICES ASSUME WatchersOK, RestOK, EventsOK, [Next]_vars PROVE EventsOK'
    BY Forms
  <2>1. CASE Cluster \/ OtherLeader
    BY <2>1, WrittenStays, EventStays, PodItself DEF Cluster, OtherLeader
  <2>2. ASSUME NEW p \in Pods, Watcher(p) PROVE EventsOK'
    BY <2>2, WatcherStays
  <2>3. ASSUME NEW p \in Pods, Informer(p) \/ ObserveTLS(p) PROVE EventsOK'
    BY <2>3, EventStays, PodItself DEF Informer
  <2>4. CASE UNCHANGED vars
    <3>1. UNCHANGED <<domain, seen, stale, seenCert, queued, watcher, providers, hostCert, defaultCert>>
      BY <2>4 DEF vars
    <3>2. ASSUME NEW p \in Pods PROVE PodOK(p)'
      <4>1. Same(watcher'[p], watcher[p])
        BY <3>1 DEF Same
      <4> QED
        BY <3>1, <4>1, PodStays, ZenonT(60) DEF EventsOK
    <3> QED
      BY <3>2 DEF EventsOK
  <2> QED
    BY <2>1, <2>2, <2>3, <2>4 DEF Next
<1> QED
  BY <1>1, <1>2, InvAlways, PTL DEF Spec


\* A pod with no event before it and nothing to do serves what it should, every status says
\* so, and each host has its certificate, for any number of pods and whatever happened
\* before: users' changes, conflicts, failures, restarts and changes of the leader.
THEOREM RestMeansDone == Spec => []SettledIsRight
<1>1. Inv /\ EventsOK => SettledIsRight
  <2> SUFFICES ASSUME RestOK, WatchersOK, EventsOK, NEW p \in Pods, Settled(p)
               PROVE  /\ providers[p] = Approved(SpecsIn(domain))
                      /\ \A n \in Listed(domain) : The(domain[n]).condition = Judge(SpecsIn(domain), n)
                      /\ \A spec \in providers[p] : spec.tls # NoTLS => hostCert[p][spec.host] = cert[spec.tls]
                      /\ defaultCert[p] = cert[DefaultTLS]
    BY Forms, ZenonT(60) DEF SettledIsRight
  <2>0. /\ PodOK(p) /\ stale[p] = {} /\ seenCert[p] = cert /\ queued[p] = {} /\ watcher[p].at = "idle"
        /\ watcher[p] \in Watchers /\ domain \in [Names -> Maybe(Domains)]
    BY DEF EventsOK, Settled, WatchersOK, RestOK
  <2>1. seen[p] = SpecsIn(domain) /\ seen[p] \in Listings
    <3>1. seen[p] \in Listings /\ \A n \in Names : seen[p][n] = SpecsIn(domain)[n]
      BY <2>0, ZenonT(60) DEF PodOK, SeenOK, RestOK
    <3> QED
      BY <3>1, ZenonT(60) DEF Listings, SpecsIn
  <2>2. watcher[p].todo = {} /\ ~watcher[p].failed
    BY <2>0, ZenonT(60) DEF PodOK, SeenOK
  <2>3. providers[p] = Approved(SpecsIn(domain))
    BY <2>0, <2>1, ZenonT(60) DEF PodOK, CollectedOK
  <2>4. ASSUME NEW n \in Listed(domain) PROVE The(domain[n]).condition = Judge(SpecsIn(domain), n)
    BY <2>0, <2>1, <2>2, ZenonT(60) DEF PodOK, JudgedOK, Quiet
  <2>5. ASSUME NEW spec \in providers[p], spec.tls # NoTLS PROVE hostCert[p][spec.host] = cert[spec.tls]
    <3> DEFINE list == seen[p]
    <3>1. PICK n \in Names : list[n] # {} /\ Judge(list, n).status = "Success" /\ spec = SpecOf(list, n)
      BY <2>1, <2>3, ZenonT(60) DEF Approved, Listed
    <3>2. spec.parses /\ ~(Cardinality(SecretNames(list, spec)) > 1) /\ spec \in Specs /\ spec.host \in Hosts
      BY <2>1, <3>1, JudgeIs, SpecOfTyped, SpecTyped, ZenonT(60)
    <3>3. n \in Parsed(list) /\ Parsed(list) \subseteq Names
      BY <3>1, <3>2, ZenonT(60) DEF Parsed, Listed
    <3>4. ASSUME NEW m \in Parsed(list), SpecOf(list, m).host = spec.host, SpecOf(list, m).tls # NoTLS
          PROVE  SpecOf(list, m).tls = spec.tls
      BY <2>1, <2>5, <3>1, <3>2, <3>3, <3>4, OneSecret, ZenonT(60)
    <3>5. CertsFor(list, cert, spec.host) = {cert[spec.tls]} \ {NoCert}
      BY <2>5, <3>1, <3>3, <3>4, ZenonT(60) DEF CertsFor
    <3>6. LET found == CertsFor(list, cert, spec.host) IN
            hostCert[p][spec.host] \in IF found = {} THEN {NoCert} ELSE found
      BY <2>0, <3>2, ZenonT(60) DEF PodOK, ObservedOK
    <3> QED
      BY <3>5, <3>6, ZenonT(60)
  <2>6. defaultCert[p] = cert[DefaultTLS]
    BY <2>0, ZenonT(60) DEF PodOK, ObservedOK
  <2> QED
    BY <2>3, <2>4, <2>5, <2>6, ZenonT(60)
<1> QED
  BY <1>1, InvAlways, EventsAlways, PTL
=============================================================================
