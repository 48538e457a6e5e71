---------------------- MODULE ImpersonatorConfigProofs ----------------------
(***************************************************************************)
(* Proofs about ImpersonatorConfig for any specs, addresses, annotations   *)
(* and number of changes.                                                  *)
(*                                                                         *)
(* The invariant has two halves that no step mixes: WorldOK is about the   *)
(* objects at the API server and in the informers, PodOK about the Sync,   *)
(* its server and its certificates.  Steps of the rest of the cluster keep *)
(* the second half as it is, and most steps of a Sync the first.           *)
(***************************************************************************)
EXTENDS ImpersonatorConfig, TLAPS

\* The provers of a leaf that names none, with time to spare on a busy machine.
USE SMTT(30), ZenonT(60)

Syncs == [at : Places, spec : Specs, old : Strategies, fresh : BOOLEAN,
          name : Names \cup {Absent}, ca : Numbers \cup {0}, result : Strategies]
Servers == [handle : BOOLEAN, live : 0..2, exited : BOOLEAN, stop : BOOLEAN]

WorldOK ==
  /\ leader \in BOOLEAN /\ expired \in BOOLEAN
  /\ DOMAIN cluster = Objects /\ DOMAIN seen = Objects
  /\ \A o \in Objects : cluster[o] \in Values(o) /\ seen[o] \in Values(o)
  /\ stale \subseteq Objects
  /\ \A o \in Objects \ stale : seen[o] = cluster[o]
  /\ count \in [{"ca", "signer"} -> Numbers \cup {0}]
  /\ changes \in 0..MaxChanges
  /\ CountsOK

PodOK ==
  /\ queued \in BOOLEAN /\ listed \in BOOLEAN
  /\ sync \in Syncs /\ server \in Servers
  /\ served \in Certificates \cup {Absent} /\ signer \in Numbers \cup {Absent}
  /\ ServerOK /\ SyncOK /\ ResultOK

\* The invariant is the sum of its halves.
LEMMA Halves == Inv <=> WorldOK /\ PodOK
  BY DEF Inv, TypeOK, WorldOK, PodOK, Syncs, Servers

\* The number of live servers follows from the handle that the controller holds.
LEMMA LiveServers ==
  ASSUME PodOK
  PROVE  (server.handle /\ ~server.exited => server.live = 1) /\ (server = NoServer => server.live = 0)
  BY DEF PodOK, ServerOK, NoServer

-----------------------------------------------------------------------------
(* Values.                                                                 *)

\* What the objects can be, one by one.
LEMMA ValuesAre ==
  /\ Values("issuer") = [spec : Specs, strategy : Strategies]
  /\ Values("lb") = Services \cup {Absent} /\ Values("clusterip") = Services \cup {Absent}
  /\ Values("tls") = Certificates \cup {Corrupt, Absent}
  /\ Values("ca") = Numbers \cup {Absent} /\ Values("signer") = Numbers \cup {Absent}
  BY ZenonT(60) DEF Values

\* The number of a first CA is in range.
LEMMA OneIsANumber == 1 \in Numbers /\ MaxChanges \in Nat
  BY BoundsAssumption DEF Numbers

\* What a spec consists of, and which names its endpoint can be.
LEMMA SpecTyped ==
  ASSUME NEW spec \in Specs
  PROVE  /\ spec.valid \in BOOLEAN /\ spec.annotations \subseteq Keys
         /\ spec.mode \in {"enabled", "disabled", "auto"} /\ spec.type \in {"LoadBalancer", "ClusterIP", "None"}
         /\ spec.endpoint \in Names \cup {Absent}
         /\ spec.valid /\ spec.type = "None" /\ spec.mode # "disabled" => spec.endpoint # Absent
  BY SpecsAssumption DEF ProxySpecs

\* Strategies without an address, and one with an address.
LEMMA StrategiesTyped ==
  /\ \A r \in {"none", "Disabled", "Pending", "Conflict", "Error"} : Without(r) \in Strategies
  /\ \A ca \in Numbers, name \in Names : Strategy("Listening", ca, name) \in Strategies
  BY DEF Strategies, Strategy

\* The reason of a strategy without an address.
LEMMA WithoutReason == \A r : Without(r).reason = r
  BY DEF Without, Strategy

\* Until doSync is done, its result is the error of an early return.
LEMMA ErrorUntilDone ==
  ASSUME PodOK, sync.at \notin {"idle", "publish"}
  PROVE  sync.result = Without("Error") /\ sync.result.reason = "Error"
<1>1. sync.result = Without("Error")
  BY ZenonT(60) DEF PodOK, SyncOK
<1> QED
  BY <1>1, WithoutReason, ZenonT(60)

\* The result of doSync is a strategy, since one with an address has a CA.
LEMMA ResultTyped ==
  ASSUME NEW spec, NEW ca, NEW name \in Names \cup {Absent},
         ShouldHaveImpersonator(spec) /\ name # Absent => ca \in Numbers
  PROVE  SyncResult(spec, ca, name) \in Strategies
  BY StrategiesTyped DEF SyncResult

\* findDesiredTLSCertificateName finds a name or none.
LEMMA NameTyped ==
  ASSUME NEW spec \in Specs, NEW objects,
         objects["lb"] \in Services \cup {Absent}, objects["clusterip"] \in Services \cup {Absent}
  PROVE  DesiredName(spec, objects) \in Names \cup {Absent}
<1>1. \A s \in Services \cup {Absent} : AddressOf(s) \in Names \cup {Absent}
  BY DEF AddressOf, Services
<1> QED
  BY <1>1, SpecTyped DEF DesiredName

\* Services whose address has changed, or that have an annotation of others more.
LEMMA ChangedService ==
  ASSUME NEW s \in Services
  PROVE  /\ \A a \in Names \cup {Absent} : /\ [s EXCEPT !.address = a] \in Services
                                         /\ [s EXCEPT !.address = a].keys = s.keys
                                         /\ [s EXCEPT !.address = a].address = a
         /\ \A k \in ForeignKeys : /\ [s EXCEPT !.keys = @ \cup {k}] \in Services
                                  /\ [s EXCEPT !.keys = @ \cup {k}].keys = s.keys \cup {k}
<1>1. /\ s \in [keys : SUBSET (Keys \cup ForeignKeys), record : SUBSET Keys, address : Names \cup {Absent}]
      /\ s.keys \cap Keys = s.record /\ s.keys \in SUBSET (Keys \cup ForeignKeys)
  BY DEF Services
<1>2. ASSUME NEW a \in Names \cup {Absent}
      PROVE  /\ [s EXCEPT !.address = a] \in Services /\ [s EXCEPT !.address = a].keys = s.keys
             /\ [s EXCEPT !.address = a].address = a
  BY <1>1, ZenonT(60) DEF Services
<1>3. ASSUME NEW k \in ForeignKeys
      PROVE  /\ [s EXCEPT !.keys = @ \cup {k}] \in Services
             /\ [s EXCEPT !.keys = @ \cup {k}].keys = s.keys \cup {k}
  <2> DEFINE keys == s.keys \cup {k}
             t == [s EXCEPT !.keys = keys]
  <2>1. keys \in SUBSET (Keys \cup ForeignKeys) /\ keys \cap Keys = s.record
    BY <1>1, SpecsAssumption
  <2> HIDE DEF keys
  <2>2. /\ t \in [keys : SUBSET (Keys \cup ForeignKeys), record : SUBSET Keys, address : Names \cup {Absent}]
        /\ t.keys = keys /\ t.record = s.record
    BY <1>1, <2>1, ZenonT(60)
  <2>3. t \in Services /\ t.keys = keys
    BY <2>1, <2>2, ZenonT(60) DEF Services
  <2> QED
    BY <2>3 DEF keys
<1> QED
  BY <1>2, <1>3

\* A new Service, and one whose annotations were merged.
LEMMA ServicesTyped ==
  ASSUME NEW keys \in SUBSET Keys
  PROVE  /\ \A o \in {"lb", "clusterip"} : NewService(o, keys) \in Services
         /\ \A s \in Services : Merged(s, keys) \in Services
<1>1. ClusterIP \in Names
  BY DEF Names
<1>2. ASSUME NEW o PROVE NewService(o, keys) \in Services
  BY <1>1 DEF NewService, Services
<1>3. ASSUME NEW s \in Services PROVE Merged(s, keys) \in Services
  <2> DEFINE merged == (s.keys \cup keys) \ (s.record \ keys)
             t == [s EXCEPT !.keys = merged, !.record = keys]
  <2>1. merged \in SUBSET (Keys \cup ForeignKeys) /\ merged \cap Keys = keys
    BY DEF Services
  <2>2. Merged(s, keys) = t
    BY DEF Merged
  <2> HIDE DEF merged
  <2>3. /\ t \in [keys : SUBSET (Keys \cup ForeignKeys), record : SUBSET Keys, address : Names \cup {Absent}]
        /\ t.keys = merged /\ t.record = keys
    BY <2>1, ZenonT(60) DEF Services
  <2> QED
    BY <2>1, <2>2, <2>3, ZenonT(60) DEF Services
<1> QED
  BY <1>2, <1>3

\* What createOrUpdateService writes still has the annotations of others: it removes only
\* what its record has, and that came from a spec.
LEMMA MergedKeepsForeign ==
  ASSUME NEW s \in Services, NEW keys
  PROVE  s.keys \cap ForeignKeys \subseteq Merged(s, keys).keys
<1>1. s.record \cap ForeignKeys = {}
  BY SpecsAssumption DEF Services
<1>2. Merged(s, keys).keys = (s.keys \cup keys) \ (s.record \ keys)
  BY DEF Merged, Services
<1> QED
  BY <1>1, <1>2

-----------------------------------------------------------------------------
(* Calls.                                                                  *)

\* To make a CA is to call the API server.
LEMMA CAIsCalledFor == Call("create", "ca", count["ca"] + 1) # NoCall
  BY DEF Call, NoCall

\* The calls that a Sync can make, by their place.
LEMMA CallForms ==
  ASSUME NEW place \in Calling, NEW s, NEW objects, CallAt(place, s, objects) # NoCall
  PROVE  LET c == CallAt(place, s, objects) IN
         \/ /\ place \in {"lb", "clusterip"} /\ objects[place] = Absent
            /\ c = Call("create", place, NewService(place, s.spec.annotations))
         \/ /\ place \in {"lb", "clusterip"} /\ objects[place] # Absent
            /\ c = Call("update", place, Merged(objects[place], s.spec.annotations))
         \/ place \in {"lb", "clusterip"} /\ objects[place] # Absent /\ c = Call("delete", place, Absent)
         \/ /\ place = "ca" /\ ShouldHaveImpersonator(s.spec) /\ objects.ca = Absent
            /\ c = Call("create", "ca", count["ca"] + 1)
         \/ place = "remove" /\ objects.tls # Absent /\ c = Call("delete", "tls", Absent)
         \/ place = "create" /\ c = Call("create", "tls", [ca |-> s.ca, name |-> s.name])
<1>1. CASE place \in {"lb", "clusterip"}
  <2>1. CallAt(place, s, objects) = ServiceCall(s.spec, place, objects[place])
    BY <1>1 DEF CallAt
  <2> QED
    BY <1>1, <2>1 DEF ServiceCall
<1>2. CASE place = "ca"
  BY <1>2 DEF CallAt
<1>3. CASE place = "remove"
  BY <1>3 DEF CallAt
<1>4. CASE place = "create"
  BY <1>4 DEF CallAt
<1> QED
  BY <1>1, <1>2, <1>3, <1>4 DEF Calling

\* The object that a place of doSync is about.
ObjectAt(place) == IF place \in {"remove", "create"} THEN "tls" ELSE place

\* A call is about the object of its place, and only what the informer has is deleted.
LEMMA CallObject ==
  ASSUME NEW place \in Calling, NEW s, NEW objects, NEW c, c = CallAt(place, s, objects), c # NoCall
  PROVE  /\ c.obj = ObjectAt(place) /\ ObjectAt(place) \in Objects
         /\ c.verb = "delete" => objects[ObjectAt(place)] # Absent
<1>1. CASE place \in {"lb", "clusterip"}
  <2>1. \/ c = Call("create", place, NewService(place, s.spec.annotations))
        \/ c = Call("update", place, Merged(objects[place], s.spec.annotations))
        \/ objects[place] # Absent /\ c = Call("delete", place, Absent)
    BY <1>1, CallForms, ZenonT(60)
  <2>2. c.obj = place /\ (c.verb = "delete" => objects[place] # Absent)
    BY <2>1 DEF Call
  <2>3. ObjectAt(place) = place /\ place \in Objects
    BY <1>1 DEF ObjectAt, Objects
  <2> QED
    BY <2>2, <2>3, ZenonT(60)
<1>2. CASE place = "ca"
  <2>1. c = Call("create", "ca", count["ca"] + 1)
    BY <1>2, CallForms, ZenonT(60)
  <2>2. c.obj = "ca" /\ c.verb = "create"
    BY <2>1 DEF Call
  <2> QED
    BY <1>2, <2>2 DEF ObjectAt, Objects
<1>3. CASE place = "remove"
  <2>1. objects.tls # Absent /\ c = Call("delete", "tls", Absent)
    BY <1>3, CallForms, ZenonT(60)
  <2>2. c.obj = "tls"
    BY <2>1 DEF Call
  <2> QED
    BY <1>3, <2>1, <2>2 DEF ObjectAt, Objects
<1>4. CASE place = "create"
  <2>1. c = Call("create", "tls", [ca |-> s.ca, name |-> s.name])
    BY <1>4, CallForms, ZenonT(60)
  <2>2. c.obj = "tls" /\ c.verb = "create"
    BY <2>1 DEF Call
  <2> QED
    BY <1>4, <2>2 DEF ObjectAt, Objects
<1> QED
  BY <1>1, <1>2, <1>3, <1>4, ZenonT(60) DEF Calling

\* What a call may write to an object: a CA only where there is none, and never less of the
\* annotations of others.
Allowed(o, value) ==
  /\ o \in {"lb", "clusterip", "ca", "tls"} /\ value \in Values(o)
  /\ o = "ca" => cluster.ca = Absent
  /\ o \in {"lb", "clusterip"} /\ cluster[o] # Absent /\ value # Absent =>
       cluster[o].keys \cap ForeignKeys \subseteq value.keys

\* A CA that is made where there is none has a number in range.
LEMMA NextCA ==
  ASSUME WorldOK, cluster.ca = Absent
  PROVE  count["ca"] + 1 \in Numbers /\ count["ca"] + 1 <= changes + 1
<1>1. count["ca"] \in Nat /\ changes \in 0..MaxChanges
  BY OneIsANumber DEF WorldOK, Numbers
<1>2. count["ca"] + 1 <= changes + 1
  BY <1>1 DEF WorldOK, CountsOK
<1> QED
  BY <1>1, <1>2, OneIsANumber DEF Numbers

\* A call for a Service that starts from the latest version of it may be made.
LEMMA ServiceCallAllowed ==
  ASSUME WorldOK, NEW o \in {"lb", "clusterip"}, NEW keys \in SUBSET Keys, NEW value,
         \/ value = NewService(o, keys) /\ cluster[o] = Absent
         \/ value = Merged(cluster[o], keys) /\ cluster[o] # Absent
         \/ value = Absent
  PROVE  Allowed(o, value)
<1>1. Values(o) = Services \cup {Absent}
  BY ValuesAre
<1>2. cluster[o] \in Services \cup {Absent}
  BY <1>1 DEF WorldOK, Objects
<1> QED
  BY <1>1, <1>2, ServicesTyped, MergedKeepsForeign DEF Allowed

\* What the API server accepts of a Sync may be written: creations where there is nothing,
\* updates and deletions of the latest version.
LEMMA AcceptedIsAllowed ==
  ASSUME WorldOK, PodOK, MyCall # NoCall, Accepts(MyCall)
  PROVE  Allowed(MyCall.obj, MyCall.value)
<1>1. sync.at \in Calling /\ MyCall = CallAt(sync.at, sync, seen)
  BY DEF MyCall
<1>2. sync.spec \in Specs /\ sync.spec.annotations \in SUBSET Keys
  BY SpecTyped DEF PodOK, Syncs
<1>3. CASE sync.at \in {"lb", "clusterip"}
  <2>1. \/ /\ seen[sync.at] = Absent
           /\ MyCall = Call("create", sync.at, NewService(sync.at, sync.spec.annotations))
        \/ /\ seen[sync.at] # Absent
           /\ MyCall = Call("update", sync.at, Merged(seen[sync.at], sync.spec.annotations))
        \/ MyCall = Call("delete", sync.at, Absent)
    BY <1>1, <1>3, CallForms, ZenonT(60)
  <2>2. CASE MyCall = Call("create", sync.at, NewService(sync.at, sync.spec.annotations))
    <3>1. cluster[sync.at] = Absent
      BY <2>2 DEF Accepts, Call
    <3> QED
      BY <1>2, <1>3, <2>2, <3>1, ServiceCallAllowed DEF Call
  <2>3. CASE seen[sync.at] # Absent /\ MyCall = Call("update", sync.at, Merged(seen[sync.at], sync.spec.annotations))
    <3>1. cluster[sync.at] # Absent /\ sync.at \notin stale
      BY <2>3 DEF Accepts, Call
    <3>2. seen[sync.at] = cluster[sync.at]
      BY <1>3, <3>1 DEF WorldOK, Objects
    <3> QED
      BY <1>2, <1>3, <2>3, <3>1, <3>2, ServiceCallAllowed DEF Call
  <2>4. CASE MyCall = Call("delete", sync.at, Absent)
    BY <1>2, <1>3, <2>4, ServiceCallAllowed, ZenonT(60) DEF Call
  <2> QED
    BY <2>1, <2>2, <2>3, <2>4
<1>4. CASE sync.at = "ca"
  <2>1. MyCall = Call("create", "ca", count["ca"] + 1)
    BY <1>1, <1>4, CallForms, ZenonT(60)
  <2>2. cluster.ca = Absent
    BY <2>1 DEF Accepts, Call
  <2> QED
    BY <2>1, <2>2, NextCA, ValuesAre DEF Call, Allowed
<1>5. CASE sync.at = "remove"
  <2>1. MyCall = Call("delete", "tls", Absent)
    BY <1>1, <1>5, CallForms, ZenonT(60)
  <2> QED
    BY <2>1, ValuesAre DEF Call, Allowed
<1>6. CASE sync.at = "create"
  <2>1. MyCall = Call("create", "tls", [ca |-> sync.ca, name |-> sync.name])
    BY <1>1, <1>6, CallForms
  <2>2. [ca |-> sync.ca, name |-> sync.name] \in Certificates
    BY <1>6 DEF PodOK, SyncOK, Syncs, Certificates
  <2> QED
    BY <2>1, <2>2, ValuesAre DEF Call, Allowed
<1> QED
  BY <1>1, <1>3, <1>4, <1>5, <1>6 DEF Calling

\* The types of the objects that a Sync looks at, at the API server and in the informers.
LEMMA ObjectsTyped ==
  ASSUME WorldOK
  PROVE  \A objects \in {cluster, seen} :
           /\ objects.issuer.spec \in Specs /\ objects.issuer.strategy \in Strategies
           /\ objects.issuer \in [spec : Specs, strategy : Strategies]
           /\ objects["lb"] \in Services \cup {Absent} /\ objects["clusterip"] \in Services \cup {Absent}
           /\ objects.tls \in Certificates \cup {Corrupt, Absent}
           /\ objects.ca \in Numbers \cup {Absent} /\ objects.signer \in Numbers \cup {Absent}
<1> SUFFICES ASSUME NEW objects \in {cluster, seen}
             PROVE  /\ objects.issuer.spec \in Specs /\ objects.issuer.strategy \in Strategies
                    /\ objects.issuer \in [spec : Specs, strategy : Strategies]
                    /\ objects["lb"] \in Services \cup {Absent} /\ objects["clusterip"] \in Services \cup {Absent}
                    /\ objects.tls \in Certificates \cup {Corrupt, Absent}
                    /\ objects.ca \in Numbers \cup {Absent} /\ objects.signer \in Numbers \cup {Absent}
  OBVIOUS
<1>1. \A o \in Objects : objects[o] \in Values(o)
  BY DEF WorldOK
<1>2. objects.issuer \in Values("issuer") /\ objects.ca \in Values("ca") /\ objects.signer \in Values("signer")
      /\ objects["lb"] \in Values("lb") /\ objects["clusterip"] \in Values("clusterip") /\ objects.tls \in Values("tls")
  BY <1>1 DEF Objects
<1>3. objects.issuer \in [spec : Specs, strategy : Strategies]
  BY <1>2, ValuesAre, ZenonT(60)
<1>4. objects.issuer.spec \in Specs /\ objects.issuer.strategy \in Strategies
  BY <1>3
<1> QED
  BY <1>2, <1>3, <1>4, ValuesAre

\* What another pod finds out is what the cluster has.
LEMMA CurrentTyped ==
  ASSUME WorldOK
  PROVE  /\ Current.spec \in Specs /\ Current.ca \in Numbers \cup {Absent}
         /\ Current.name \in Names \cup {Absent}
<1>1. DesiredName(cluster.issuer.spec, cluster) \in Names \cup {Absent}
  BY ObjectsTyped, NameTyped
<1> QED
  BY <1>1, ObjectsTyped DEF Current

\* When another pod has no call left to make before the certificate's, there is a CA.
LEMMA OthersHaveCA ==
  ASSUME ~Wanted("ca"), Current.spec.valid, ShouldHaveImpersonator(Current.spec)
  PROVE  cluster.ca # Absent
<1>1. CallAt("ca", Current, cluster) = NoCall
  BY DEF Wanted
<1>2. SUFFICES ASSUME cluster.ca = Absent PROVE FALSE
  OBVIOUS
<1>3. CallAt("ca", Current, cluster) = Call("create", "ca", count["ca"] + 1)
  BY <1>2 DEF CallAt
<1> QED
  BY <1>1, <1>3 DEF NoCall, Call

\* What another pod writes may be written: it sees the objects as they are.
LEMMA OthersAreAllowed ==
  ASSUME WorldOK, NEW call \in CallsOfOthers
  PROVE  Allowed(call.obj, call.value)
<1>1. PICK i \in DOMAIN Order :
        /\ Wanted(Order[i]) /\ \A k \in 1..(i - 1) : ~Wanted(Order[k])
        /\ call = CallAt(Order[i], Current, cluster)
  BY DEF CallsOfOthers
<1>2. i \in 1..5 /\ Order[i] \in Calling
  BY DEF Order, Calling
<1>3. CallAt(Order[i], Current, cluster) # NoCall
  BY <1>1 DEF Wanted
<1>4. Current.spec.annotations \in SUBSET Keys
  BY CurrentTyped, SpecTyped
<1>5. CASE Order[i] \in {"lb", "clusterip"}
  <2>1. \/ /\ cluster[Order[i]] = Absent
           /\ call = Call("create", Order[i], NewService(Order[i], Current.spec.annotations))
        \/ /\ cluster[Order[i]] # Absent
           /\ call = Call("update", Order[i], Merged(cluster[Order[i]], Current.spec.annotations))
        \/ call = Call("delete", Order[i], Absent)
    BY <1>1, <1>2, <1>3, <1>5, CallForms, ZenonT(60)
  <2>2. /\ call.obj = Order[i]
        /\ \/ call.value = NewService(Order[i], Current.spec.annotations) /\ cluster[Order[i]] = Absent
           \/ call.value = Merged(cluster[Order[i]], Current.spec.annotations) /\ cluster[Order[i]] # Absent
           \/ call.value = Absent
    BY <2>1 DEF Call
  <2> QED
    BY <1>4, <1>5, <2>2, ServiceCallAllowed
<1>6. CASE Order[i] = "ca"
  <2>1. call = Call("create", "ca", count["ca"] + 1) /\ cluster.ca = Absent
    BY <1>1, <1>2, <1>3, <1>6, CallForms, ZenonT(60)
  <2> QED
    BY <2>1, NextCA, ValuesAre DEF Call, Allowed
<1>7. CASE Order[i] = "remove"
  <2>1. call = Call("delete", "tls", Absent)
    BY <1>1, <1>2, <1>3, <1>7, CallForms, ZenonT(60)
  <2> QED
    BY <2>1, ValuesAre DEF Call, Allowed
<1>8. CASE Order[i] = "create"
  <2>1. call = Call("create", "tls", [ca |-> Current.ca, name |-> Current.name])
    BY <1>1, <1>2, <1>3, <1>8, CallForms
  <2>2. i = 5 /\ Order[3] = "ca"
    BY <1>2, <1>8 DEF Order
  <2>3. ~Wanted("ca")
    BY <1>1, <2>2
  <2>4. Current.spec.valid /\ ShouldHaveImpersonator(Current.spec) /\ Current.name # Absent
    BY <1>1, <1>8 DEF Wanted
  <2>5. Current.ca # Absent
    BY <2>3, <2>4, OthersHaveCA DEF Current
  <2>6. [ca |-> Current.ca, name |-> Current.name] \in Certificates
    BY <2>4, <2>5, CurrentTyped DEF Certificates
  <2> QED
    BY <2>1, <2>6, ValuesAre DEF Call, Allowed
<1> QED
  BY <1>2, <1>5, <1>6, <1>7, <1>8 DEF Calling

-----------------------------------------------------------------------------
(* Steps and the first half of the invariant.                              *)

\* A bounded change keeps within the bound.
LEMMA ChangeIs ==
  ASSUME WorldOK, Change \/ MayFail \/ UNCHANGED changes
  PROVE  /\ changes' \in 0..MaxChanges /\ changes' >= changes
         /\ Change => changes' = changes + 1
  BY OneIsANumber DEF WorldOK, Change, MayFail

\* A step that writes nothing, of a Sync or a change of the leader.
LEMMA WorldStays ==
  ASSUME WorldOK, UNCHANGED <<cluster, count, expired, informers>>, leader' \in BOOLEAN,
         Change \/ MayFail \/ UNCHANGED changes
  PROVE  WorldOK'
<1>1. cluster' = cluster /\ count' = count /\ expired' = expired /\ seen' = seen /\ stale' = stale
  BY DEF informers
<1>2. changes' \in 0..MaxChanges /\ changes' >= changes
  BY ChangeIs
<1>3. CountsOK'
  <2>1. count["ca"] \in Nat /\ count["signer"] \in Nat /\ changes \in Nat
    BY OneIsANumber DEF WorldOK, Numbers
  <2> QED
    BY <1>1, <1>2, <2>1 DEF WorldOK, CountsOK
<1> QED
  BY <1>1, <1>2, <1>3 DEF WorldOK

\* A write changes one object, and the informers will hear of it.
LEMMA WriteIs ==
  ASSUME WorldOK, NEW o \in Objects, NEW value \in Values(o), Write(o, value)
  PROVE  /\ DOMAIN cluster' = Objects /\ seen' = seen /\ stale' = stale \cup {o}
         /\ cluster'[o] = value /\ \A q \in Objects \ {o} : cluster'[q] = cluster[q]
         /\ \A q \in Objects : cluster'[q] \in Values(q)
         /\ \A q \in Objects \ stale' : seen'[q] = cluster'[q]
<1>1. cluster' = [cluster EXCEPT ![o] = value] /\ seen' = seen /\ stale' = stale \cup {o}
  BY DEF Write
<1>2. cluster'[o] = value /\ \A q \in Objects \ {o} : cluster'[q] = cluster[q]
  BY <1>1 DEF WorldOK
<1> QED
  BY <1>1, <1>2 DEF WorldOK

\* Writes keep the first half of the invariant, if they make no CA but for one that is
\* missing, and only age removes the signer.
LEMMA WriteStep ==
  ASSUME WorldOK, NEW o \in Objects, NEW value \in Values(o), Write(o, value), leader' = leader,
         Change \/ UNCHANGED changes,
         o = "ca" => cluster.ca = Absent \/ (value = Absent /\ Change),
         IF o = "signer" THEN value = Absent /\ expired /\ ~expired' ELSE UNCHANGED expired,
         expired' \in BOOLEAN
  PROVE  WorldOK'
<1>1. changes' \in 0..MaxChanges /\ changes' >= changes /\ (Change => changes' = changes + 1)
  BY ChangeIs
<1>2. /\ count["ca"] \in Numbers \cup {0} /\ count["signer"] \in Numbers \cup {0}
      /\ count["ca"] \in Nat /\ count["signer"] \in Nat /\ changes \in Nat /\ changes' \in Nat
      /\ DOMAIN count = {"ca", "signer"}
  BY <1>1, OneIsANumber DEF WorldOK, Numbers
<1>3. CASE o = "ca"
  <2>1. cluster'.signer = cluster.signer /\ expired' = expired /\ cluster'.ca = value
    BY <1>3, WriteIs DEF Objects
  <2>2. /\ count'["ca"] = IF value = Absent THEN count["ca"] ELSE count["ca"] + 1
        /\ count'["signer"] = count["signer"]
    BY <1>2, <1>3 DEF Write
  <2>3. CASE value = Absent
    <3>1. CountsOK'
      BY <1>1, <1>2, <1>3, <2>1, <2>2, <2>3 DEF WorldOK, CountsOK
    <3>2. count' = count
      BY <1>3, <2>3 DEF Write
    <3> QED
      BY <1>1, <3>1, <3>2, WriteIs DEF WorldOK
  <2>4. CASE value # Absent
    <3>1. cluster.ca = Absent
      BY <1>3, <2>4
    <3>2. count["ca"] + 1 \in Numbers /\ count["ca"] + 1 <= changes + 1
      BY <3>1, NextCA
    <3>3. CountsOK'
      BY <1>1, <1>2, <2>1, <2>2, <2>4, <3>2 DEF WorldOK, CountsOK
    <3>4. count' \in [{"ca", "signer"} -> Numbers \cup {0}]
      BY <1>3, <2>4, <3>2 DEF Write, WorldOK
    <3> QED
      BY <1>1, <3>3, <3>4, WriteIs DEF WorldOK
  <2> QED
    BY <2>3, <2>4
<1>4. CASE o # "ca"
  <2>1. count' = count
    BY <1>4 DEF Write
  <2>2. cluster'.ca = cluster.ca
    BY <1>4, WriteIs DEF Objects
  <2>3. CountsOK'
    <3>1. CASE o = "signer"
      BY <1>1, <1>2, <2>1, <2>2, <3>1 DEF WorldOK, CountsOK
    <3>2. CASE o # "signer"
      <4>1. cluster'.signer = cluster.signer /\ expired' = expired
        BY <3>2, WriteIs DEF Objects
      <4> QED
        BY <1>1, <1>2, <2>1, <2>2, <4>1 DEF WorldOK, CountsOK
    <3> QED
      BY <3>1, <3>2
  <2> QED
    BY <1>1, <2>1, <2>3, WriteIs DEF WorldOK
<1> QED
  BY <1>3, <1>4

\* In particular, what is allowed can be written.
LEMMA AllowedWrite ==
  ASSUME WorldOK, NEW o, NEW value, Allowed(o, value), Write(o, value), UNCHANGED <<leader, expired>>,
         Change \/ UNCHANGED changes
  PROVE  WorldOK'
<1>1. o \in Objects /\ o # "signer" /\ value \in Values(o) /\ (o = "ca" => cluster.ca = Absent)
  BY DEF Allowed, Objects
<1>2. expired' \in BOOLEAN
  BY DEF WorldOK
<1> QED
  BY <1>1, <1>2, WriteStep

-----------------------------------------------------------------------------
(* The other pods, the informers and the rest of the cluster.              *)

\* The second half does not depend on what others do.
LEMMA PodStays ==
  ASSUME PodOK, sync' \in {sync, Outdated}, UNCHANGED <<listed, server, certs>>, queued' \in BOOLEAN
  PROVE  PodOK'
<1>1. listed' = listed /\ server' = server /\ served' = served /\ signer' = signer
  BY DEF certs
<1>2. /\ sync'.at = sync.at /\ sync'.spec = sync.spec /\ sync'.name = sync.name
      /\ sync'.ca = sync.ca /\ sync'.result = sync.result /\ sync' \in Syncs
  BY ZenonT(60) DEF PodOK, Syncs, Outdated
<1>3. ServerOK' /\ SyncOK' /\ ResultOK'
  BY <1>1, <1>2, ZenonT(60) DEF PodOK, ServerOK, SyncOK, ResultOK, NoServer
<1> QED
  BY <1>1, <1>2, <1>3 DEF PodOK

\* When another pod has nothing to call, it wants nothing; the places before the
\* certificate's matter here.
LEMMA NothingWanted ==
  ASSUME CallsOfOthers = {}
  PROVE  ~Wanted("ca")
<1>1. \A i \in DOMAIN Order : Wanted(Order[i]) => \E k \in 1..(i - 1) : Wanted(Order[k])
  BY DEF CallsOfOthers
<1>2. DOMAIN Order = 1..5 /\ Order[1] = "lb" /\ Order[2] = "clusterip" /\ Order[3] = "ca"
  BY DEF Order
<1>3. ~Wanted(Order[1])
  BY <1>1, <1>2
<1>4. ~Wanted(Order[2])
  <2>1. \A k \in 1..(2 - 1) : k = 1
    OBVIOUS
  <2> QED
    BY <1>1, <1>2, <1>3, <2>1
<1>5. ~Wanted(Order[3])
  <2>1. \A k \in 1..(3 - 1) : k = 1 \/ k = 2
    OBVIOUS
  <2> QED
    BY <1>1, <1>2, <1>3, <1>4, <2>1
<1> QED
  BY <1>2, <1>5

\* A pod that leads in the place of this one keeps the first half.
LEMMA OtherPodStep ==
  ASSUME WorldOK, OtherPod
  PROVE  WorldOK'
<1>1. CASE OtherPodCalls
  <2>1. PICK call \in CallsOfOthers : Write(call.obj, call.value)
    BY <1>1 DEF OtherPodCalls
  <2>2. Allowed(call.obj, call.value)
    BY OthersAreAllowed
  <2> QED
    BY <1>1, <2>1, <2>2, AllowedWrite DEF OtherPodCalls
<1>2. CASE OtherPodPublishes
  <2> DEFINE result == IF Current.spec.valid THEN SyncResult(Current.spec, Current.ca, Current.name)
                       ELSE Without("Error")
  <2>1. CallsOfOthers = {} /\ Write("issuer", [cluster.issuer EXCEPT !.strategy = result])
        /\ UNCHANGED <<leader, expired, changes>>
    BY <1>2 DEF OtherPodPublishes
  <2>2. result \in Strategies
    <3>1. Current.spec.valid /\ ShouldHaveImpersonator(Current.spec) => Current.ca \in Numbers
      BY <2>1, NothingWanted, OthersHaveCA, CurrentTyped DEF Current
    <3>2. Current.spec.valid => SyncResult(Current.spec, Current.ca, Current.name) \in Strategies
      BY <3>1, CurrentTyped, ResultTyped
    <3> QED
      BY <3>2, StrategiesTyped
  <2> HIDE DEF result
  <2>3. [cluster.issuer EXCEPT !.strategy = result] \in Values("issuer")
    BY <2>2, ObjectsTyped, ValuesAre, ZenonT(60)
  <2>4. "issuer" \in Objects /\ expired' \in BOOLEAN
    BY <2>1 DEF Objects, WorldOK
  <2> QED
    BY <2>1, <2>3, <2>4, WriteStep
<1> QED
  BY <1>1, <1>2 DEF OtherPod

\* certsManagerController and certsExpirerController: there is a new signer only after
\* the one before was deleted, and that one got old.
LEMMA SignerStep ==
  ASSUME WorldOK, CreateSigner \/ DeleteSigner
  PROVE  WorldOK'
<1>0. /\ count["ca"] \in Nat /\ count["signer"] \in Nat /\ changes \in 0..MaxChanges /\ expired \in BOOLEAN
      /\ DOMAIN count = {"ca", "signer"} /\ "signer" \in Objects /\ "ca" \in Objects
  BY OneIsANumber DEF WorldOK, Numbers, Objects
<1>1. CASE CreateSigner
  <2>1. count["signer"] + 1 <= changes + 1
    BY <1>0, <1>1 DEF CreateSigner, WorldOK, CountsOK
  <2>2. count["signer"] + 1 \in Numbers
    BY <1>0, <2>1, OneIsANumber DEF Numbers
  <2>3. count' \in [{"ca", "signer"} -> Numbers \cup {0}]
    BY <1>1, <2>2 DEF CreateSigner, WorldOK
  <2>4. count'["ca"] = count["ca"] /\ count'["signer"] = count["signer"] + 1
    BY <1>0, <1>1 DEF CreateSigner
  <2>5. /\ DOMAIN cluster' = Objects /\ cluster'["signer"] = count["signer"] + 1
        /\ \A q \in Objects \ {"signer"} : cluster'[q] = cluster[q]
    BY <1>0, <1>1 DEF CreateSigner, WorldOK
  <2>6. CountsOK'
    <3>1. cluster'.ca = cluster.ca /\ expired' = expired /\ changes' = changes
      BY <1>0, <1>1, <2>5 DEF CreateSigner
    <3>2. count["signer"] + 1 + (IF expired THEN 1 ELSE 0) <= changes + 1
      BY <1>0, <1>1 DEF CreateSigner, WorldOK, CountsOK
    <3>3. cluster'.signer # Absent
      BY <2>2, <2>5, NamesAssumption
    <3> QED
      BY <1>0, <2>4, <3>1, <3>2, <3>3 DEF WorldOK, CountsOK
  <2>7. \A o \in Objects : cluster'[o] \in Values(o)
    BY <2>2, <2>5, ValuesAre DEF WorldOK
  <2> QED
    BY <1>1, <2>3, <2>5, <2>6, <2>7 DEF CreateSigner, WorldOK, Objects
<1>2. CASE DeleteSigner
  <2>1. Write("signer", Absent) /\ expired /\ expired' = FALSE /\ UNCHANGED <<leader, changes>>
    BY <1>2 DEF DeleteSigner
  <2>2. Absent \in Values("signer")
    BY ValuesAre
  <2> QED
    BY <1>0, <2>1, <2>2, WriteStep, ZenonT(60)
<1> QED
  BY <1>1, <1>2

\* Informers tell what is at the API server.
LEMMA InformerStep ==
  ASSUME WorldOK, NEW o \in Objects, InformerEvent(o)
  PROVE  WorldOK'
<1>1. /\ seen' = [seen EXCEPT ![o] = cluster[o]] /\ stale' = stale \ {o}
      /\ leader' = leader /\ cluster' = cluster /\ count' = count /\ expired' = expired /\ changes' = changes
  BY DEF InformerEvent, world
<1>2. DOMAIN seen' = Objects /\ seen'[o] = cluster[o] /\ \A q \in Objects \ {o} : seen'[q] = seen[q]
  BY <1>1 DEF WorldOK
<1>3. CountsOK'
  BY <1>1 DEF WorldOK, CountsOK
<1> QED
  BY <1>1, <1>2, <1>3 DEF WorldOK

\* Users, the cloud and time.
LEMMA ClusterStep ==
  ASSUME WorldOK, AssignAddress \/ ChangeSpec \/ Disturb \/ ExpireSigner \/ ChangeLeader
  PROVE  WorldOK'
<1>0. /\ leader \in BOOLEAN /\ expired \in BOOLEAN
      /\ "lb" \in Objects /\ "clusterip" \in Objects /\ "ca" \in Objects /\ "tls" \in Objects /\ "issuer" \in Objects
  BY DEF WorldOK, Objects
<1>1. CASE AssignAddress
  <2>1. PICK a \in Addresses : Write("lb", [cluster.lb EXCEPT !.address = a])
    BY <1>1 DEF AssignAddress
  <2>2. cluster.lb \in Services /\ a \in Names
    BY <1>1, ObjectsTyped DEF AssignAddress, Names
  <2>3. [cluster.lb EXCEPT !.address = a] \in Values("lb")
    BY <2>2, ValuesAre, ChangedService
  <2> QED
    BY <1>0, <1>1, <2>1, <2>3, WriteStep DEF AssignAddress
<1>2. CASE ChangeSpec
  <2>1. PICK spec \in Specs : Write("issuer", [cluster.issuer EXCEPT !.spec = spec])
    BY <1>2 DEF ChangeSpec
  <2>2. [cluster.issuer EXCEPT !.spec = spec] \in Values("issuer")
    BY ObjectsTyped, ValuesAre, ZenonT(60)
  <2> QED
    BY <1>0, <1>2, <2>1, <2>2, WriteStep DEF ChangeSpec
<1>3. CASE Disturb
  <2>0. Change /\ UNCHANGED <<leader, expired>>
    BY <1>3 DEF Disturb
  <2>1. ASSUME NEW o \in {"lb", "clusterip", "ca", "tls"}, Write(o, Absent) PROVE WorldOK'
    <3>1. Absent \in Values(o) /\ o \in Objects /\ o # "signer"
      BY ValuesAre DEF Objects
    <3> QED
      BY <1>0, <2>0, <2>1, <3>1, WriteStep
  <2>2. ASSUME Write("tls", Corrupt) PROVE WorldOK'
    <3>1. Corrupt \in Values("tls")
      BY ValuesAre
    <3> QED
      BY <1>0, <2>0, <2>2, <3>1, WriteStep
  <2>3. ASSUME cluster.lb # Absent, NEW k \in ForeignKeys, Write("lb", [cluster.lb EXCEPT !.keys = @ \cup {k}])
        PROVE  WorldOK'
    <3>1. cluster.lb \in Services
      BY <2>3, ObjectsTyped
    <3>2. [cluster.lb EXCEPT !.keys = @ \cup {k}] \in Values("lb")
      BY <3>1, ValuesAre, ChangedService
    <3> QED
      BY <1>0, <2>0, <2>3, <3>2, WriteStep
  <2>4. ASSUME AddressOf(cluster.lb) # Absent, Write("lb", [cluster.lb EXCEPT !.address = Absent])
        PROVE  WorldOK'
    <3>1. cluster.lb \in Services
      BY <2>4, ObjectsTyped DEF AddressOf
    <3>2. [cluster.lb EXCEPT !.address = Absent] \in Values("lb")
      BY <3>1, ValuesAre, ChangedService
    <3> QED
      BY <1>0, <2>0, <2>4, <3>2, WriteStep
  <2> QED
    BY <1>3, <2>1, <2>2, <2>3, <2>4, ZenonT(60) DEF Disturb
<1>4. CASE ExpireSigner
  <2>1. /\ leader' = leader /\ cluster' = cluster /\ count' = count /\ seen' = seen /\ stale' = stale
        /\ ~expired /\ expired' = TRUE /\ Change
    BY <1>4 DEF ExpireSigner, informers
  <2>2. changes' \in 0..MaxChanges /\ changes' = changes + 1
    BY <2>1, ChangeIs
  <2>3. count["ca"] \in Nat /\ count["signer"] \in Nat /\ changes \in Nat
    BY OneIsANumber DEF WorldOK, Numbers
  <2>4. CountsOK'
    BY <2>1, <2>2, <2>3 DEF WorldOK, CountsOK
  <2> QED
    BY <2>1, <2>2, <2>4 DEF WorldOK
<1>5. CASE ChangeLeader
  <2>1. UNCHANGED <<cluster, count, expired, informers>> /\ leader' \in BOOLEAN /\ Change
    BY <1>0, <1>5 DEF ChangeLeader
  <2> QED
    BY <2>1, WorldStays
<1> QED
  BY <1>1, <1>2, <1>3, <1>4, <1>5

\* A pod that starts has neither a Sync nor a server.
LEMMA NothingRuns ==
  /\ Idle \in Syncs /\ Idle.at = "idle"
  /\ NoServer \in Servers /\ ~NoServer.stop /\ ~NoServer.handle
<1>1. (CHOOSE s \in Specs : TRUE) \in Specs
  BY SpecsAssumption
<1>2. Idle \in Syncs /\ Idle.at = "idle"
  BY <1>1, StrategiesTyped DEF Idle, Syncs, Places
<1>3. NoServer \in Servers /\ ~NoServer.stop /\ ~NoServer.handle
  BY DEF NoServer, Servers
<1> QED
  BY <1>2, <1>3

\* A server that is one more, one less, or that has ended.
LEMMA ServersTyped ==
  /\ \A s \in Servers : [s EXCEPT !.exited = TRUE] \in Servers
  /\ \A s \in Servers : s.live = 0 => [s EXCEPT !.live = @ + 1] \in Servers
  /\ \A s \in Servers : s.live = 1 => [s EXCEPT !.live = @ - 1] \in Servers
<1>1. \A s \in Servers : [s EXCEPT !.exited = TRUE] \in Servers
  BY ZenonT(60) DEF Servers
<1>2. \A s \in Servers : s.live = 0 => [s EXCEPT !.live = @ + 1] \in Servers
  BY DEF Servers
<1>3. \A s \in Servers : s.live = 1 => [s EXCEPT !.live = @ - 1] \in Servers
  BY DEF Servers
<1> QED
  BY <1>1, <1>2, <1>3

\* The pod starts again.
LEMMA RestartStep ==
  ASSUME WorldOK, PodOK, Restart
  PROVE  WorldOK' /\ PodOK'
<1>1. /\ seen' = cluster /\ stale' = {} /\ queued' = TRUE /\ sync' = Idle /\ listed' = FALSE
      /\ server' = NoServer /\ served' = Absent /\ signer' = Absent
      /\ leader' = leader /\ cluster' = cluster /\ count' = count /\ expired' = expired /\ Change
  BY DEF Restart, world
<1>2. PodOK'
  <2>1. ServerOK' /\ SyncOK' /\ ResultOK'
    BY <1>1, NothingRuns DEF ServerOK, SyncOK, ResultOK, Calling
  <2> QED
    BY <1>1, <2>1, NothingRuns, ZenonT(60) DEF PodOK
<1>3. changes' \in 0..MaxChanges /\ changes' = changes + 1
  BY <1>1, ChangeIs
<1>4. CountsOK'
  <2>1. count["ca"] \in Nat /\ count["signer"] \in Nat /\ changes \in Nat
    BY OneIsANumber DEF WorldOK, Numbers
  <2> QED
    BY <1>1, <1>3, <2>1 DEF WorldOK, CountsOK
<1> QED
  BY <1>1, <1>2, <1>3, <1>4 DEF WorldOK

-----------------------------------------------------------------------------
(* The first states.                                                       *)

\* The spec of a CredentialIssuer can be any other.
LEMMA ChangedIssuer ==
  ASSUME NEW issuer \in Values("issuer"), NEW spec \in Specs
  PROVE  [issuer EXCEPT !.spec = spec] \in Values("issuer")
<1>1. issuer \in [spec : Specs, strategy : Strategies]
  BY ValuesAre, ZenonT(60)
<1>2. [issuer EXCEPT !.spec = spec] \in [spec : Specs, strategy : Strategies]
  BY <1>1, ZenonT(60)
<1> QED
  BY <1>2, ValuesAre, ZenonT(60)

\* What another pod has made of a spec is typed, in particular the name in the TLS
\* Secret: the load balancer has an address by then.
LEMMA InstalledTyped ==
  ASSUME NEW spec \in Specs, NEW foreign \in SUBSET ForeignKeys
  PROVE  /\ DOMAIN Installed(spec, foreign) = Objects
         /\ \A o \in Objects : Installed(spec, foreign)[o] \in Values(o)
         /\ Installed(spec, foreign).ca \in {1, Absent} /\ Installed(spec, foreign).signer = 1
<1> DEFINE has == spec.valid /\ ShouldHaveImpersonator(spec)
           service(o) == [keys |-> spec.annotations \cup foreign, record |-> spec.annotations,
             address |-> IF o = "lb" THEN CHOOSE a \in Addresses : TRUE ELSE ClusterIP]
           services == [o \in {"lb", "clusterip"} |->
             IF ~(has /\ ShouldHaveService(spec, o)) THEN Absent
             ELSE service(o)]
           name == DesiredName(spec, services)
<1>1. (CHOOSE a \in Addresses : TRUE) \in Addresses /\ Addresses \subseteq Names
  BY NamesAssumption DEF Names
<1>2. /\ \A o \in {"lb", "clusterip"} : service(o) \in Services
      /\ service("lb").address \in Addresses /\ service("clusterip").address = ClusterIP
  <2>1. spec.annotations \subseteq Keys
    BY SpecTyped
  <2>2. spec.annotations \cup foreign \subseteq Keys \cup ForeignKeys
        /\ (spec.annotations \cup foreign) \cap Keys = spec.annotations
    BY <2>1, SpecsAssumption
  <2> QED
    BY <1>1, <2>1, <2>2 DEF Services, Names
<1>3. \A o \in {"lb", "clusterip"} :
        services[o] = IF has /\ ShouldHaveService(spec, o) THEN service(o) ELSE Absent
  <2> HIDE DEF has, service
  <2> QED
    BY ZenonT(60)
<1>4. services["lb"] \in Services \cup {Absent} /\ services["clusterip"] \in Services \cup {Absent}
  <2> HIDE DEF services, service, has
  <2> QED
    BY <1>2, <1>3, ZenonT(60)
<1>5. name \in Names \cup {Absent}
  <2> HIDE DEF services
  <2> QED
    BY <1>4, NameTyped
<1>6. ASSUME has PROVE name # Absent
  <2>1. spec.type \in {"LoadBalancer", "ClusterIP", "None"} /\ spec.mode # "disabled" /\ spec.valid
    BY <1>6, SpecTyped DEF ShouldHaveImpersonator
  <2>2. CASE spec.endpoint # Absent
    BY <2>2 DEF DesiredName
  <2>3. CASE spec.endpoint = Absent /\ spec.type = "LoadBalancer"
    <3>1. services["lb"] = service("lb")
      <4>1. ShouldHaveService(spec, "lb")
        BY <1>6, <2>3 DEF ShouldHaveService
      <4> HIDE DEF services, service
      <4> QED
        BY <1>3, <1>6, <4>1, ZenonT(60)
    <3>2. services["lb"] \in Services /\ services["lb"].address \in Addresses
      BY <1>2, <3>1, ZenonT(60)
    <3>3. name = AddressOf(services["lb"])
      BY <2>3 DEF DesiredName
    <3> QED
      BY <3>2, <3>3, NamesAssumption, ZenonT(60) DEF AddressOf
  <2>4. CASE spec.endpoint = Absent /\ spec.type = "ClusterIP"
    <3>1. services["clusterip"] = service("clusterip")
      <4>1. ShouldHaveService(spec, "clusterip")
        BY <1>6, <2>4 DEF ShouldHaveService
      <4> HIDE DEF services, service
      <4> QED
        BY <1>3, <1>6, <4>1, ZenonT(60)
    <3>2. services["clusterip"] \in Services /\ services["clusterip"].address = ClusterIP
      BY <1>2, <3>1, ZenonT(60)
    <3>3. name = AddressOf(services["clusterip"])
      BY <2>4 DEF DesiredName
    <3> QED
      BY <3>2, <3>3, NamesAssumption DEF AddressOf
  <2> QED
    BY <2>1, <2>2, <2>3, <2>4, SpecTyped
<1> DEFINE made == [o \in Objects |->
             CASE o = "issuer" ->
                    [spec |-> spec, strategy |-> IF spec.valid THEN SyncResult(spec, 1, name) ELSE Without("Error")]
               [] o \in {"lb", "clusterip"} -> services[o]
               [] o = "tls" /\ has -> [ca |-> 1, name |-> name]
               [] o = "signer" \/ (o = "ca" /\ has) -> 1
               [] OTHER -> Absent]
<1>7. Installed(spec, foreign) = made
  BY DEF Installed
<1>8. made["issuer"] \in Values("issuer")
  <2>1. SyncResult(spec, 1, name) \in Strategies
    BY <1>5, OneIsANumber, ResultTyped
  <2> HIDE DEF name
  <2> QED
    BY <2>1, StrategiesTyped, ValuesAre, ZenonT(60) DEF Objects
<1> HIDE DEF has, services, name
<1>9. made["lb"] \in Values("lb") /\ made["clusterip"] \in Values("clusterip")
  BY <1>4, ValuesAre DEF Objects
<1>10. made["tls"] \in Values("tls")
  BY <1>5, <1>6, OneIsANumber, ValuesAre DEF Objects, Certificates
<1>11. made["ca"] \in {1, Absent} /\ made["signer"] = 1
  BY DEF Objects
<1>12. made["ca"] \in Values("ca") /\ made["signer"] \in Values("signer")
  BY <1>11, OneIsANumber, ValuesAre
<1>13. DOMAIN made = Objects
  OBVIOUS
<1> HIDE DEF made
<1> QED
  BY <1>7, <1>8, <1>9, <1>10, <1>11, <1>12, <1>13 DEF Objects

\* At the start the informers are up to date and nothing runs.
LEMMA InvInit == Init => Inv
<1> SUFFICES ASSUME Init PROVE WorldOK /\ PodOK
  BY Halves
<1>1. PICK spec \in Specs :
        /\ leader \in BOOLEAN
        /\ \/ cluster = New(spec)
           \/ cluster = Installed(spec, {})
           \/ \E old \in Specs, foreign \in SUBSET ForeignKeys :
                cluster = [Installed(old, foreign) EXCEPT !["issuer"].spec = spec]
  BY EarlierAssumption, ZenonT(60) DEF Init
<1>2. /\ count = [k \in {"ca", "signer"} |-> IF cluster[k] = Absent THEN 0 ELSE 1]
      /\ expired = FALSE /\ seen = cluster /\ stale = {} /\ changes = 0
      /\ queued = TRUE /\ sync = Idle /\ listed = FALSE /\ server = NoServer /\ served = Absent /\ signer = Absent
  BY DEF Init
<1>3. /\ DOMAIN cluster = Objects /\ \A o \in Objects : cluster[o] \in Values(o)
      /\ cluster.ca \in {1, Absent} /\ cluster.signer = 1
  <2>1. CASE cluster = New(spec)
    <3>1. /\ DOMAIN cluster = Objects
          /\ cluster["issuer"] = [spec |-> spec, strategy |-> Without("none")]
          /\ cluster["signer"] = 1 /\ cluster["ca"] = Absent /\ cluster["tls"] = Absent
          /\ cluster["lb"] = Absent /\ cluster["clusterip"] = Absent
      BY <2>1 DEF New, Objects
    <3>2. cluster["issuer"] \in Values("issuer")
      BY <3>1, StrategiesTyped, ValuesAre, ZenonT(60)
    <3> QED
      BY <3>1, <3>2, OneIsANumber, ValuesAre DEF Objects
  <2>2. CASE cluster = Installed(spec, {})
    BY <2>2, InstalledTyped
  <2>3. ASSUME NEW old \in Specs, NEW foreign \in SUBSET ForeignKeys,
               cluster = [Installed(old, foreign) EXCEPT !["issuer"].spec = spec]
        PROVE  /\ DOMAIN cluster = Objects /\ \A o \in Objects : cluster[o] \in Values(o)
               /\ cluster.ca \in {1, Absent} /\ cluster.signer = 1
    <3> DEFINE installed == Installed(old, foreign)
    <3>1. /\ DOMAIN installed = Objects /\ \A o \in Objects : installed[o] \in Values(o)
          /\ installed.ca \in {1, Absent} /\ installed.signer = 1
      BY InstalledTyped
    <3> HIDE DEF installed
    <3>2. cluster = [installed EXCEPT !["issuer"] = [installed["issuer"] EXCEPT !.spec = spec]]
      BY <2>3 DEF installed
    <3>3. [installed["issuer"] EXCEPT !.spec = spec] \in Values("issuer")
      BY <3>1, ChangedIssuer, ZenonT(60) DEF Objects
    <3> QED
      BY <3>1, <3>2, <3>3 DEF Objects
  <2> QED
    BY <1>1, <2>1, <2>2, <2>3
<1>4. CountsOK /\ count \in [{"ca", "signer"} -> Numbers \cup {0}]
  <2>1. cluster.signer # Absent
    BY <1>3, OneIsANumber, NamesAssumption
  <2>2. count["signer"] = 1 /\ count["ca"] = (IF cluster.ca = Absent THEN 0 ELSE 1)
    BY <1>2, <2>1
  <2>3. CountsOK
    BY <1>2, <2>1, <2>2 DEF CountsOK
  <2>4. count \in [{"ca", "signer"} -> Numbers \cup {0}]
    BY <1>2, OneIsANumber
  <2> QED
    BY <2>3, <2>4
<1>5. WorldOK
  <2>1. leader \in BOOLEAN /\ expired \in BOOLEAN
    BY <1>1, <1>2, ZenonT(60)
  <2>2. seen = cluster /\ changes \in 0..MaxChanges /\ stale \subseteq Objects
    BY <1>2, OneIsANumber
  <2> QED
    BY <1>3, <1>4, <2>1, <2>2 DEF WorldOK
<1>6. PodOK
  <2>1. ServerOK /\ SyncOK /\ ResultOK
    BY <1>2, NothingRuns DEF ServerOK, SyncOK, ResultOK, Calling
  <2> QED
    BY <1>2, <2>1, NothingRuns, ZenonT(60) DEF PodOK
<1> QED
  BY <1>5, <1>6

-----------------------------------------------------------------------------
(* The steps of a Sync and the second half of the invariant.               *)

\* A Sync that goes on keeps what it has found out.
LEMMA GotoIs ==
  ASSUME PodOK, NEW place \in Places, Goto(place)
  PROVE  /\ sync' \in Syncs /\ sync'.at = place /\ sync'.spec = sync.spec /\ sync'.name = sync.name
         /\ sync'.old = sync.old /\ sync'.ca = sync.ca /\ sync'.result = sync.result
  BY DEF PodOK, Syncs, Goto

\* An error ends doSync: there is no result but the error.
LEMMA ErrorStep ==
  ASSUME PodOK, sync.at \notin {"idle", "publish"}, Goto("publish"),
         server' = NoServer \/ (server' = server /\ sync.at # "stopping"),
         UNCHANGED certs, queued' \in BOOLEAN, listed' \in BOOLEAN
  PROVE  PodOK'
<1>1. sync' \in Syncs /\ sync'.at = "publish" /\ sync'.spec = sync.spec /\ sync'.result = sync.result
  BY GotoIs DEF Places
<1>2. sync.result.reason = "Error"
  BY ErrorUntilDone, ZenonT(60)
<1>3. server' \in Servers /\ served' = served /\ signer' = signer
  BY NothingRuns DEF PodOK, certs
<1>4. ServerOK'
  BY <1>1, NothingRuns DEF PodOK, ServerOK
<1>5. SyncOK' /\ ResultOK'
  BY <1>1, <1>2 DEF SyncOK, ResultOK, Calling
<1> QED
  BY <1>1, <1>3, <1>4, <1>5 DEF PodOK

\* The server has been dealt with, and doSync goes on to the Services.
LEMMA SettledStep ==
  ASSUME PodOK, sync.at \in {"server", "stopping"}, Goto("lb"), server' \in Servers,
         IF ShouldHaveImpersonator(sync.spec)
         THEN server'.handle /\ server'.live = (IF server'.exited THEN 0 ELSE 1) /\ ~server'.stop
         ELSE server' = NoServer,
         UNCHANGED <<listed, certs>>, queued' = queued
  PROVE  PodOK'
<1>1. sync' \in Syncs /\ sync'.at = "lb" /\ sync'.spec = sync.spec /\ sync'.result = sync.result
  BY GotoIs DEF Places, Calling
<1>2. sync.result = Without("Error")
  BY DEF PodOK, SyncOK
<1>3. served' = served /\ signer' = signer
  BY DEF certs
<1>4. ServerOK'
  BY <1>1, NothingRuns DEF ServerOK
<1>5. SyncOK' /\ ResultOK'
  BY <1>1, <1>2 DEF SyncOK, ResultOK, Calling
<1> QED
  BY <1>1, <1>3, <1>4, <1>5 DEF PodOK

\* Sync begins.
LEMMA BeginStep ==
  ASSUME WorldOK, PodOK, Begin
  PROVE  PodOK'
<1>1. /\ sync.at = "idle" /\ queued' = FALSE
      /\ sync' = [Idle EXCEPT !.at = IF seen.issuer.spec.valid THEN "server" ELSE "publish",
                              !.spec = seen.issuer.spec, !.old = seen.issuer.strategy,
                              !.fresh = "issuer" \notin stale, !.result = Without("Error")]
      /\ listed' = listed /\ server' = server /\ served' = served /\ signer' = signer
  BY DEF Begin, certs
<1>2. sync' \in Syncs /\ sync'.at \in {"server", "publish"} /\ sync'.result = Without("Error")
  <2>1. seen.issuer.spec \in Specs /\ seen.issuer.strategy \in Strategies /\ Without("Error") \in Strategies
    BY ObjectsTyped, StrategiesTyped
  <2> QED
    BY <1>1, <2>1, NothingRuns, ZenonT(60) DEF Syncs, Places
<1>3. ServerOK'
  BY <1>1, <1>2 DEF PodOK, ServerOK
<1>4. SyncOK' /\ ResultOK'
  BY <1>2 DEF SyncOK, ResultOK, Calling, Without, Strategy
<1> QED
  BY <1>1, <1>2, <1>3, <1>4, ZenonT(60) DEF PodOK

\* ensureImpersonatorIsStarted and ensureImpersonatorIsStopped: a server is started when
\* none is known, and forgotten when it has ended.
LEMMA ServerStep ==
  ASSUME PodOK, ListNodes \/ StartServer \/ KeepServer \/ StopServer
  PROVE  PodOK'
<1>0. /\ server \in Servers /\ ServerOK /\ sync.at = "server" /\ ~server.stop
      /\ queued' = queued /\ UNCHANGED certs /\ queued \in BOOLEAN /\ listed \in BOOLEAN /\ listed' \in BOOLEAN
  BY ZenonT(60) DEF PodOK, ServerOK, ListNodes, StartServer, KeepServer, StopServer
<1>1. CASE ListNodes
  <2>1. CASE sync' = sync
    <3>1. server' = server /\ served' = served /\ signer' = signer
      BY <1>1 DEF ListNodes, certs
    <3> QED
      BY <1>0, <2>1, <3>1, ZenonT(60) DEF PodOK, ServerOK, SyncOK, ResultOK, NoServer
  <2>2. CASE Goto("publish")
    BY <1>0, <1>1, <2>2, ErrorStep DEF ListNodes
  <2> QED
    BY <1>1, <2>1, <2>2 DEF ListNodes
<1>2. CASE StartServer
  <2>1. ShouldHaveImpersonator(sync.spec) /\ ~server.handle /\ listed' = listed
    BY <1>2 DEF StartServer
  <2>2. server = NoServer
    BY <1>0, <2>1 DEF ServerOK
  <2>3. CASE server' = [server EXCEPT !.handle = TRUE, !.live = @ + 1] /\ Goto("lb")
    <3>1. server'.handle = TRUE
      BY <2>2, <2>3 DEF NoServer
    <3>2. server'.live = 1
      BY <2>2, <2>3 DEF NoServer
    <3>3. server'.exited = FALSE
      BY <2>2, <2>3 DEF NoServer
    <3>4. server'.stop = FALSE
      BY <2>2, <2>3 DEF NoServer
    <3>5. server' \in Servers
      <4>1. server' = [[server EXCEPT !.handle = TRUE] EXCEPT !.live = @ + 1]
        BY <2>3
      <4>2. [server EXCEPT !.handle = TRUE] \in Servers
        BY <1>0, ZenonT(60) DEF Servers
      <4>3. [server EXCEPT !.handle = TRUE].live = 0
        BY <2>2 DEF NoServer
      <4> QED
        BY <4>1, <4>2, <4>3, ServersTyped, ZenonT(60)
    <3> QED
      BY <1>0, <2>1, <2>3, <3>1, <3>2, <3>3, <3>4, <3>5, SettledStep
  <2>4. CASE server' = server /\ Goto("publish")
    BY <1>0, <2>4, ErrorStep
  <2> QED
    BY <1>2, <2>3, <2>4 DEF StartServer
<1>3. CASE KeepServer
  <2>1. ShouldHaveImpersonator(sync.spec) /\ server.handle /\ listed' = listed
    BY <1>3 DEF KeepServer
  <2>2. CASE server' = NoServer /\ Goto("publish")
    BY <1>0, <2>2, ErrorStep
  <2>3. CASE server' = server /\ Goto("lb")
    BY <1>0, <2>1, <2>3, SettledStep DEF ServerOK
  <2> QED
    BY <1>3, <2>2, <2>3 DEF KeepServer
<1>4. CASE StopServer
  <2>1. ~ShouldHaveImpersonator(sync.spec) /\ listed' = listed
    BY <1>4 DEF StopServer
  <2>2. CASE server.handle /\ server' = [server EXCEPT !.stop = TRUE] /\ Goto("stopping")
    <3>1. /\ sync' \in Syncs /\ sync'.at = "stopping" /\ sync'.spec = sync.spec /\ sync'.result = sync.result
      BY <2>2, GotoIs DEF Places
    <3>2. /\ server' \in Servers /\ server'.handle /\ server'.stop
          /\ server'.live = server.live /\ server'.exited = server.exited
      BY <1>0, <2>2, ZenonT(60) DEF Servers
    <3>3. ServerOK'
      BY <1>0, <2>2, <3>1, <3>2 DEF ServerOK
    <3>4. SyncOK' /\ ResultOK'
      BY <1>0, <2>1, <3>1, ZenonT(60) DEF PodOK, SyncOK, ResultOK, Calling
    <3> QED
      BY <1>0, <2>1, <3>1, <3>2, <3>3, <3>4 DEF PodOK, certs
  <2>3. CASE ~server.handle /\ server' = server /\ Goto("lb")
    BY <1>0, <2>1, <2>3, SettledStep DEF ServerOK
  <2> QED
    BY <1>4, <2>2, <2>3 DEF StopServer
<1> QED
  BY <1>1, <1>2, <1>3, <1>4

\* The server has ended, after the controller told it to.
LEMMA ServerStoppedStep ==
  ASSUME PodOK, NEW failed \in BOOLEAN, ServerStopped(failed)
  PROVE  PodOK'
<1>1. /\ sync.at = "stopping" /\ server' = NoServer /\ Goto(IF failed THEN "publish" ELSE "lb")
      /\ queued' = queued /\ listed' = listed /\ UNCHANGED certs /\ queued \in BOOLEAN /\ listed \in BOOLEAN
  BY DEF ServerStopped, PodOK
<1>2. ~ShouldHaveImpersonator(sync.spec)
  BY <1>1 DEF PodOK, SyncOK
<1>3. CASE failed
  BY <1>1, <1>3, ErrorStep
<1>4. CASE ~failed
  BY <1>1, <1>2, <1>4, NothingRuns, SettledStep
<1> QED
  BY <1>3, <1>4

\* The goroutine of a server ends: serverStopCh is still there.
LEMMA ServerEndsStep ==
  ASSUME PodOK, ServerEnds
  PROVE  PodOK'
<1>1. /\ server.live > 0 /\ ~server.exited /\ server' = [server EXCEPT !.live = @ - 1, !.exited = TRUE]
      /\ queued' = TRUE /\ sync' = sync /\ listed' = listed /\ served' = served /\ signer' = signer
  BY DEF ServerEnds, certs
<1>2. server \in Servers /\ server.handle /\ server.live = 1
  BY <1>1 DEF PodOK, ServerOK, NoServer
<1>3. /\ server' \in Servers /\ server'.handle = server.handle /\ server'.live = 0
      /\ server'.exited = TRUE /\ server'.stop = server.stop
  <2>1. server' = [[server EXCEPT !.live = @ - 1] EXCEPT !.exited = TRUE]
    BY <1>1
  <2>2. server' \in Servers
    BY <1>2, <2>1, ServersTyped, ZenonT(60)
  <2>3. server'.handle = server.handle
    BY <1>1, <1>2, ZenonT(60) DEF Servers
  <2>4. server'.live = 0
    BY <1>1, <1>2 DEF Servers
  <2>5. server'.exited = TRUE
    BY <1>1, <1>2 DEF Servers
  <2>6. server'.stop = server.stop
    BY <1>1, <1>2 DEF Servers
  <2> QED
    BY <2>2, <2>3, <2>4, <2>5, <2>6
<1>4. server # NoServer
  BY <1>2 DEF NoServer
<1>5. ServerOK' /\ SyncOK' /\ ResultOK'
  BY <1>1, <1>2, <1>3, <1>4 DEF PodOK, ServerOK, SyncOK, ResultOK
<1> QED
  BY <1>1, <1>3, <1>5 DEF PodOK

\* doSync returns a result: that the proxy listens only with a certificate for the name
\* and a signer, that it is disabled only without.
LEMMA FinishStep ==
  ASSUME WorldOK, PodOK, Finish, sync.at \in {"tls", "remove", "create"},
         UNCHANGED <<queued, listed, server>>, served' \in Certificates \cup {Absent},
         ShouldHaveImpersonator(sync.spec) /\ sync.name # Absent =>
           served' = [ca |-> sync.ca, name |-> sync.name],
         ~ShouldHaveImpersonator(sync.spec) => served' = Absent
  PROVE  PodOK'
<1> DEFINE has == ShouldHaveImpersonator(sync.spec)
           result == IF has /\ seen.signer = Absent THEN Without("Error")
                     ELSE SyncResult(sync.spec, sync.ca, sync.name)
<1>1. /\ signer' = IF ~has THEN Absent ELSE IF seen.signer = Absent THEN signer ELSE seen.signer
      /\ sync' = [sync EXCEPT !.at = "publish", !.result = result]
  BY DEF Finish
<1>2. sync.name \in Names \cup {Absent} /\ (has => sync.ca \in Numbers)
  BY DEF PodOK, Syncs, SyncOK
<1>3. result \in Strategies
  BY <1>2, ResultTyped, StrategiesTyped, ZenonT(60)
<1>4. signer' \in Numbers \cup {Absent}
  <2>1. seen.signer \in Numbers \cup {Absent} /\ signer \in Numbers \cup {Absent}
    BY ObjectsTyped, ZenonT(60) DEF PodOK
  <2> QED
    BY <1>1, <2>1
<1>5. /\ result.reason = "Listening" =>
           has /\ sync.name # Absent /\ seen.signer # Absent /\ result.ca = sync.ca /\ result.name = sync.name
      /\ result.reason = "Disabled" => ~has
  BY ZenonT(60) DEF SyncResult, Without, Strategy
<1>6. IF has THEN server.handle ELSE server = NoServer
  BY ZenonT(60) DEF PodOK, SyncOK, Calling
<1>7. (seen.signer # Absent /\ has => signer' # Absent) /\ (~has => signer' = Absent)
  BY <1>1
<1> HIDE DEF result, has
<1>8. sync' \in Syncs /\ sync'.at = "publish" /\ sync'.result = result
  BY <1>1, <1>3, ZenonT(60) DEF PodOK, Syncs, Places
<1>9. ServerOK'
  BY <1>8, ZenonT(60) DEF PodOK, ServerOK
<1>10. SyncOK'
  BY <1>8, ZenonT(60) DEF SyncOK, Calling
<1>11. ResultOK'
  BY <1>5, <1>6, <1>7, <1>8, ZenonT(60) DEF ResultOK, has
<1> QED
  BY <1>4, <1>8, <1>9, <1>10, <1>11 DEF PodOK

\* A Sync goes on from one place to the next.
LEMMA NextPlace ==
  ASSUME PodOK, sync.at \in Calling \cup {"tls"}, sync' \in Syncs, sync'.at \in Calling \cup {"tls"},
         sync'.spec = sync.spec, sync'.result = sync.result,
         LET has == ShouldHaveImpersonator(sync.spec) IN
         /\ sync'.at \in {"tls", "create"} => has
         /\ sync'.at \in {"tls", "create"} \/ (sync'.at = "remove" /\ has) => sync'.ca # 0
         /\ sync'.at = "create" => sync'.name # Absent,
         UNCHANGED <<queued, listed, server, certs>>
  PROVE  PodOK'
<1>1. queued' = queued /\ listed' = listed /\ server' = server /\ served' = served /\ signer' = signer
  BY ZenonT(60) DEF certs
<1>2. ServerOK' /\ ResultOK'
  BY <1>1, ZenonT(60) DEF PodOK, ServerOK, ResultOK, Calling
<1>3. SyncOK'
  BY <1>1 DEF PodOK, SyncOK, Calling
<1> QED
  BY <1>1, <1>2, <1>3 DEF PodOK

\* What follows a call, for a CA whose number is in range.
LEMMA AfterCallStep ==
  ASSUME WorldOK, PodOK, sync.at \in Calling, AfterCall, UNCHANGED <<queued, listed, server>>,
         sync.at = "ca" /\ ShouldHaveImpersonator(sync.spec) /\ seen.ca = Absent => count["ca"] + 1 \in Numbers
  PROVE  PodOK'
<1> DEFINE has == ShouldHaveImpersonator(sync.spec)
<1>0. sync \in Syncs /\ sync.spec \in Specs
  BY DEF PodOK, Syncs
<1>1. CASE sync.at = "lb"
  <2>1. Goto("clusterip") /\ UNCHANGED certs
    BY <1>1 DEF AfterCall
  <2>2. sync' \in Syncs /\ sync'.at = "clusterip" /\ sync'.spec = sync.spec /\ sync'.result = sync.result
    BY <2>1, GotoIs DEF Places, Calling
  <2> QED
    BY <1>1, <2>1, <2>2, NextPlace DEF Calling
<1>2. CASE sync.at = "clusterip"
  <2> DEFINE name == IF has THEN DesiredName(sync.spec, seen) ELSE Absent
  <2>1. sync' = [sync EXCEPT !.at = "ca", !.name = name] /\ UNCHANGED certs
    BY <1>2 DEF AfterCall
  <2>2. name \in Names \cup {Absent}
    BY <1>0, ObjectsTyped, NameTyped
  <2> HIDE DEF name, has
  <2>3. sync' \in Syncs /\ sync'.at = "ca" /\ sync'.spec = sync.spec /\ sync'.result = sync.result
    BY <1>0, <2>1, <2>2, ZenonT(60) DEF Syncs, Places, Calling
  <2> QED
    BY <1>2, <2>1, <2>3, NextPlace DEF Calling
<1>3. CASE sync.at = "ca" /\ has
  <2> DEFINE ca == IF seen.ca = Absent THEN count["ca"] + 1 ELSE seen.ca
  <2>1. sync' = [sync EXCEPT !.at = "tls", !.ca = ca] /\ UNCHANGED certs
    BY <1>3 DEF AfterCall
  <2>2. ca \in Numbers
    BY <1>3, ObjectsTyped
  <2>3. ca # 0
    BY <2>2, OneIsANumber DEF Numbers
  <2> HIDE DEF ca
  <2>4. /\ sync' \in Syncs /\ sync'.at = "tls" /\ sync'.spec = sync.spec /\ sync'.result = sync.result
        /\ sync'.ca = ca
    BY <1>0, <2>1, <2>2, ZenonT(60) DEF Syncs, Places
  <2> QED
    BY <1>3, <2>1, <2>3, <2>4, NextPlace DEF Calling
<1>4. CASE sync.at = "ca" /\ ~has
  <2>1. Goto("remove") /\ UNCHANGED certs
    BY <1>4 DEF AfterCall, Goto
  <2>2. sync' \in Syncs /\ sync'.at = "remove" /\ sync'.spec = sync.spec /\ sync'.result = sync.result
    BY <2>1, GotoIs DEF Places, Calling
  <2> QED
    BY <1>4, <2>1, <2>2, NextPlace, ZenonT(60) DEF Calling
<1>5. CASE sync.at = "remove" /\ has /\ sync.name # Absent
  <2>1. Goto("create") /\ UNCHANGED certs
    BY <1>5 DEF AfterCall
  <2>2. /\ sync' \in Syncs /\ sync'.at = "create" /\ sync'.spec = sync.spec /\ sync'.result = sync.result
        /\ sync'.name = sync.name /\ sync'.ca = sync.ca
    BY <2>1, GotoIs DEF Places, Calling
  <2>3. sync.ca # 0
    BY <1>5 DEF PodOK, SyncOK
  <2> QED
    BY <1>5, <2>1, <2>2, <2>3, NextPlace DEF Calling
<1>6. CASE sync.at = "remove" /\ has /\ sync.name = Absent
  <2>1. Finish /\ served' = served
    BY <1>6 DEF AfterCall
  <2>2. served \in Certificates \cup {Absent}
    BY DEF PodOK
  <2> QED
    BY <1>6, <2>1, <2>2, FinishStep
<1>7. CASE sync.at = "remove" /\ ~has
  <2>1. Finish /\ served' = Absent
    BY <1>7 DEF AfterCall
  <2> QED
    BY <1>7, <2>1, FinishStep
<1>8. CASE sync.at = "create"
  <2>1. Finish /\ served' = [ca |-> sync.ca, name |-> sync.name]
    BY <1>8 DEF AfterCall
  <2>2. has /\ sync.ca \in Numbers /\ sync.name \in Names
    BY <1>8 DEF PodOK, SyncOK, Syncs
  <2>3. served' \in Certificates
    BY <2>1, <2>2 DEF Certificates
  <2> QED
    BY <1>8, <2>1, <2>2, <2>3, FinishStep
<1> QED
  BY <1>1, <1>2, <1>3, <1>4, <1>5, <1>6, <1>7, <1>8 DEF Calling

\* A call that the API server carries out keeps the first half, whether its answer comes or not.
LEMMA AcceptedStep ==
  ASSUME WorldOK, PodOK, Accepted, Change \/ UNCHANGED changes
  PROVE  WorldOK'
<1>1. MyCall # NoCall /\ Accepts(MyCall) /\ sync.at \in Calling /\ UNCHANGED <<leader, expired>>
  BY ZenonT(60) DEF Accepted, MyCall
<1>2. leader' \in BOOLEAN /\ UNCHANGED expired
  BY <1>1 DEF WorldOK
<1>3. CASE UNCHANGED <<cluster, count, informers>>
  BY <1>1, <1>2, <1>3, WorldStays
<1>4. CASE Write(MyCall.obj, MyCall.value)
  <2>1. Allowed(MyCall.obj, MyCall.value)
    BY <1>1, AcceptedIsAllowed
  <2> QED
    BY <1>1, <1>4, <2>1, AllowedWrite
<1> QED
  BY <1>3, <1>4, ZenonT(60) DEF Accepted

\* The calls of doSync: none was needed, or it was accepted, refused or failed.
LEMMA CallStep ==
  ASSUME WorldOK, PodOK, NothingToCall \/ CallAccepted \/ CallUnanswered \/ CallRefused \/ CallFails
  PROVE  WorldOK' /\ PodOK'
<1>0. queued \in BOOLEAN /\ listed \in BOOLEAN /\ leader \in BOOLEAN /\ expired \in BOOLEAN
  BY DEF PodOK, WorldOK
<1>1. CASE NothingToCall
  <2>1. /\ sync.at \in Calling /\ MyCall = NoCall /\ AfterCall
        /\ UNCHANGED <<world, informers, queued, listed, server, changes>>
    BY <1>1 DEF NothingToCall
  <2>2. UNCHANGED <<leader, cluster, count, expired, informers, queued, listed, server, changes>>
    BY <2>1 DEF world
  <2>3. ~(sync.at = "ca" /\ ShouldHaveImpersonator(sync.spec) /\ seen.ca = Absent)
    <3> SUFFICES ASSUME sync.at = "ca", ShouldHaveImpersonator(sync.spec), seen.ca = Absent PROVE FALSE
      OBVIOUS
    <3>1. MyCall = Call("create", "ca", count["ca"] + 1)
      BY <2>1 DEF MyCall, CallAt
    <3> QED
      BY <2>1, <3>1, CAIsCalledFor, ZenonT(60)
  <2> QED
    BY <1>0, <2>1, <2>2, <2>3, AfterCallStep, WorldStays
<1>2. CASE CallAccepted
  <2>1. /\ MyCall # NoCall /\ Accepts(MyCall) /\ AfterCall /\ sync.at \in Calling
        /\ UNCHANGED <<leader, expired, queued, listed, server, changes>>
    BY <1>2, ZenonT(60) DEF CallAccepted, Accepted, MyCall
  <2>2. ASSUME sync.at = "ca", ShouldHaveImpersonator(sync.spec), seen.ca = Absent
        PROVE  count["ca"] + 1 \in Numbers
    <3>1. MyCall = Call("create", "ca", count["ca"] + 1)
      BY <2>1, <2>2 DEF MyCall, CallAt
    <3>2. cluster.ca = Absent
      BY <2>1, <3>1 DEF Accepts, Call
    <3> QED
      BY <3>2, NextCA
  <2>3. PodOK'
    BY <2>1, <2>2, AfterCallStep
  <2> QED
    BY <1>2, <2>3, AcceptedStep, ZenonT(60) DEF CallAccepted
<1>3. CASE CallRefused
  <2>1. PICK reason \in {"Error", "Conflict"} :
          sync' = [sync EXCEPT !.at = "publish", !.result = Without(reason)]
    BY <1>3, ZenonT(60) DEF CallRefused
  <2>2. /\ sync.at \in Calling
        /\ UNCHANGED <<leader, cluster, count, expired, informers, queued, listed, server, served, signer, changes>>
    BY <1>3 DEF CallRefused, MyCall, world, certs
  <2>3. WorldOK'
    BY <1>0, <2>2, WorldStays
  <2>4. sync' \in Syncs /\ sync'.at = "publish" /\ sync'.result = Without(reason)
    <3>1. Without(reason) \in Strategies
      BY StrategiesTyped
    <3> QED
      BY <2>1, <3>1, ZenonT(60) DEF PodOK, Syncs, Places
  <2>5. ServerOK'
    BY <2>2, <2>4 DEF PodOK, ServerOK, Calling
  <2>6. SyncOK'
    BY <2>4 DEF SyncOK, Calling
  <2>7. sync'.result.reason = reason
    BY <2>4, WithoutReason, ZenonT(60)
  <2>8. ResultOK'
    BY <2>4, <2>7 DEF ResultOK
  <2> QED
    BY <2>2, <2>3, <2>4, <2>5, <2>6, <2>8 DEF PodOK
<1>4. CASE CallFails
  <2>1. /\ sync.at \in Calling /\ Goto("publish") /\ MayFail
        /\ UNCHANGED <<leader, cluster, count, expired, informers, queued, listed, server, certs>>
    BY <1>4 DEF CallFails, MyCall, world
  <2>2. sync.at \notin {"idle", "publish", "stopping"}
    BY <2>1 DEF Calling
  <2> QED
    BY <1>0, <2>1, <2>2, WorldStays, ErrorStep
<1>5. CASE CallUnanswered
  <2>1. /\ Accepted /\ Change /\ Goto("publish") /\ sync.at \in Calling
        /\ UNCHANGED <<queued, listed, server, certs>>
    BY <1>5, ZenonT(60) DEF CallUnanswered, Accepted, MyCall
  <2>2. sync.at \notin {"idle", "publish", "stopping"}
    BY <2>1 DEF Calling
  <2> QED
    BY <1>0, <2>1, <2>2, AcceptedStep, ErrorStep
<1> QED
  BY <1>1, <1>2, <1>3, <1>4, <1>5

\* ensureTLSSecret: a Secret that fits is what the server gets.
LEMMA JudgeTLSStep ==
  ASSUME WorldOK, PodOK, JudgeTLS
  PROVE  PodOK'
<1>1. sync.at = "tls" /\ UNCHANGED <<queued, listed, server>>
  BY DEF JudgeTLS
<1>2. ShouldHaveImpersonator(sync.spec) /\ sync.ca # 0 /\ sync.ca \in Numbers /\ served \in Certificates \cup {Absent}
  BY <1>1 DEF PodOK, SyncOK, Syncs
<1>3. CASE Goto("create") /\ sync.name # Absent /\ UNCHANGED certs
  <2>1. /\ sync' \in Syncs /\ sync'.at = "create" /\ sync'.spec = sync.spec /\ sync'.result = sync.result
        /\ sync'.name = sync.name /\ sync'.ca = sync.ca
    BY <1>3, GotoIs DEF Places, Calling
  <2> QED
    BY <1>1, <1>2, <1>3, <2>1, NextPlace DEF Calling
<1>4. CASE Finish /\ sync.name = Absent /\ served' = served
  BY <1>1, <1>2, <1>4, FinishStep
<1>5. CASE Matches(seen.tls, sync.ca, sync.name) /\ served' = seen.tls /\ Finish
  <2>1. served' = [ca |-> sync.ca, name |-> sync.name] /\ sync.name \in Names
    BY <1>5 DEF Matches, PodOK, Syncs
  <2>2. served' \in Certificates
    BY <1>2, <2>1 DEF Certificates
  <2> QED
    BY <1>1, <1>2, <1>5, <2>1, <2>2, FinishStep, ZenonT(60)
<1>6. CASE Goto("remove") /\ UNCHANGED certs
  <2>1. /\ sync' \in Syncs /\ sync'.at = "remove" /\ sync'.spec = sync.spec /\ sync'.result = sync.result
        /\ sync'.ca = sync.ca
    BY <1>6, GotoIs DEF Places, Calling
  <2> QED
    BY <1>1, <1>2, <1>6, <2>1, NextPlace DEF Calling
<1> QED
  BY <1>3, <1>4, <1>5, <1>6 DEF JudgeTLS

\* The end of a Sync.
LEMMA PublishStep ==
  ASSUME WorldOK, PodOK, NothingToPublish \/ Publish \/ PublishFails
  PROVE  WorldOK' /\ PodOK'
<1>0. queued \in BOOLEAN /\ leader \in BOOLEAN /\ expired \in BOOLEAN /\ sync.result \in Strategies
  BY DEF PodOK, WorldOK, Syncs
<1>1. PodOK'
  <2>1. /\ sync.at = "publish" /\ sync' = Idle /\ queued' \in BOOLEAN
        /\ listed' = listed /\ server' = server /\ served' = served /\ signer' = signer
    BY <1>0, ZenonT(60) DEF NothingToPublish, Publish, PublishFails, EndSync, certs
  <2>2. ServerOK'
    BY <2>1, NothingRuns DEF PodOK, ServerOK
  <2>3. SyncOK' /\ ResultOK'
    BY <2>1, NothingRuns DEF SyncOK, ResultOK, Calling
  <2> QED
    BY <2>1, <2>2, <2>3, NothingRuns DEF PodOK
<1>2. CASE NothingToPublish
  <2>1. UNCHANGED <<leader, cluster, count, expired, informers, changes>>
    BY <1>2 DEF NothingToPublish, world
  <2> QED
    BY <1>0, <1>1, <2>1, WorldStays
<1>3. CASE Publish
  <2>1. /\ Write("issuer", [cluster.issuer EXCEPT !.strategy = sync.result])
        /\ UNCHANGED <<leader, expired>> /\ (Change \/ UNCHANGED changes)
    BY <1>3, ZenonT(60) DEF Publish
  <2>2. [cluster.issuer EXCEPT !.strategy = sync.result] \in Values("issuer") /\ "issuer" \in Objects
    BY <1>0, ObjectsTyped, ValuesAre, ZenonT(60) DEF Objects
  <2> QED
    BY <1>0, <1>1, <2>1, <2>2, WriteStep
<1>4. CASE PublishFails
  <2>1. UNCHANGED <<leader, cluster, count, expired, informers>> /\ (MayFail \/ UNCHANGED changes)
    BY <1>4 DEF PublishFails, world
  <2> QED
    BY <1>0, <1>1, <2>1, WorldStays
<1> QED
  BY <1>2, <1>3, <1>4

-----------------------------------------------------------------------------
(* Theorems.                                                               *)

\* Every step keeps the invariant.
LEMMA InvNext == Inv /\ [Next]_vars => Inv'
<1> SUFFICES ASSUME Inv, [Next]_vars PROVE Inv'
  OBVIOUS
<1>0. WorldOK /\ PodOK /\ leader \in BOOLEAN /\ queued \in BOOLEAN
  BY Halves DEF WorldOK, PodOK
<1> SUFFICES WorldOK' /\ PodOK'
  BY ZenonT(60) DEF Inv, TypeOK, WorldOK, PodOK, Syncs, Servers
<1>1. CASE Begin \/ ListNodes \/ StartServer \/ KeepServer \/ StopServer \/ JudgeTLS
  <2>1. UNCHANGED <<leader, cluster, count, expired, informers>> /\ (Change \/ UNCHANGED changes)
    BY <1>1 DEF Begin, ListNodes, StartServer, KeepServer, StopServer, JudgeTLS, world
  <2>2. WorldOK'
    BY <1>0, <2>1, WorldStays
  <2> QED
    BY <1>0, <1>1, <2>2, BeginStep, ServerStep, JudgeTLSStep
<1>2. ASSUME NEW failed \in BOOLEAN, ServerStopped(failed) PROVE WorldOK' /\ PodOK'
  <2>1. UNCHANGED <<leader, cluster, count, expired, informers, changes>>
    BY <1>2 DEF ServerStopped, world
  <2> QED
    BY <1>0, <1>2, <2>1, WorldStays, ServerStoppedStep
<1>3. CASE NothingToCall \/ CallAccepted \/ CallUnanswered \/ CallRefused \/ CallFails
  BY <1>0, <1>3, CallStep
<1>4. CASE NothingToPublish \/ Publish \/ PublishFails
  BY <1>0, <1>4, PublishStep
<1>5. CASE ServerEnds
  <2>1. UNCHANGED <<leader, cluster, count, expired, informers>> /\ (Change \/ UNCHANGED changes)
    BY <1>5 DEF ServerEnds, world
  <2> QED
    BY <1>0, <1>5, <2>1, WorldStays, ServerEndsStep
<1>6. ASSUME NEW o \in Objects, InformerEvent(o) PROVE WorldOK' /\ PodOK'
  <2>1. sync' = sync /\ UNCHANGED <<listed, server, certs>> /\ queued' \in BOOLEAN
    BY <1>6 DEF InformerEvent
  <2> QED
    BY <1>0, <1>6, <2>1, InformerStep, PodStays
<1>7. CASE OtherPod \/ CreateSigner \/ DeleteSigner
  <2>1. sync' \in {sync, Outdated} /\ UNCHANGED <<listed, server, certs>> /\ queued' = queued
    BY <1>7 DEF OtherPod, OtherPodCalls, OtherPodPublishes, CreateSigner, DeleteSigner
  <2> QED
    BY <1>0, <1>7, <2>1, OtherPodStep, SignerStep, PodStays
<1>8. CASE AssignAddress \/ ChangeSpec \/ Disturb \/ ExpireSigner \/ ChangeLeader
  <2>1. sync' \in {sync, Outdated} /\ UNCHANGED <<listed, server, certs>> /\ queued' = queued
    BY <1>8 DEF AssignAddress, ChangeSpec, Disturb, ExpireSigner, ChangeLeader
  <2> QED
    BY <1>0, <1>8, <2>1, ClusterStep, PodStays
<1>9. CASE Restart
  BY <1>0, <1>9, RestartStep
<1>10. CASE UNCHANGED vars
  <2>1. /\ UNCHANGED <<leader, cluster, count, expired, informers, changes>>
        /\ sync' = sync /\ UNCHANGED <<listed, server, certs>> /\ queued' = queued
    BY <1>10 DEF vars, informers, certs
  <2> QED
    BY <1>0, <2>1, WorldStays, PodStays
<1> QED
  BY <1>1, <1>2, <1>3, <1>4, <1>5, <1>6, <1>7, <1>8, <1>9, <1>10, ZenonT(60) DEF Next, Controller, Informer

\* The invariant holds in every behaviour.
THEOREM InvAlways == Spec => []Inv
  BY InvInit, InvNext, PTL DEF Spec

\* Type correctness, for any specs and number of changes: in particular the numbers of CAs
\* stay within the changes that cost one, a certificate is made only with a CA and a name,
\* and an object that the informer is up to date with is the one at the API server.
THEOREM TypeCorrect == Spec => []TypeOK
<1>1. Inv => TypeOK
  BY DEF Inv
<1> QED
  BY <1>1, InvAlways, PTL

\* At most one server of the impersonation proxy runs, and the controller has the channel
\* that stops it, whatever users, failures and restarts do.
THEOREM OneServer == Spec => []NoOrphanServer
<1>1. Inv => NoOrphanServer
  <2> SUFFICES ASSUME Inv PROVE NoOrphanServer
    OBVIOUS
  <2>1. server \in Servers /\ ServerOK
    BY DEF Inv, TypeOK, Servers
  <2>2. CASE server.handle
    BY <2>1, <2>2 DEF ServerOK, NoOrphanServer, Servers
  <2>3. CASE ~server.handle
    BY <2>1, <2>3 DEF ServerOK, NoOrphanServer, NoServer
  <2> QED
    BY <2>2, <2>3
<1> QED
  BY <1>1, InvAlways, PTL

\* What Sync publishes is true of its pod at that moment, for every interleaving of its
\* steps with the rest of the cluster.
THEOREM StrategyIsTrue == Spec => PublishedIsTrue
<1> DEFINE A == Publish =>
             CASE sync.result.reason = "Listening" ->
                    /\ served = [ca |-> sync.result.ca, name |-> sync.result.name]
                    /\ server.handle /\ signer # Absent
               [] sync.result.reason = "Disabled" -> server = NoServer /\ served = Absent /\ signer = Absent
               [] OTHER -> TRUE
<1>1. Inv => A
  BY DEF Inv, ResultOK, Publish
<1>2. Inv /\ [Next]_vars => [A]_vars
  BY <1>1
<1> QED
  BY <1>2, InvAlways, PTL DEF Spec, PublishedIsTrue

\* A Service keeps the annotations of others, or it is gone or new.
KeepsForeign(o) ==
  cluster[o] # Absent /\ cluster'[o] # Absent => cluster[o].keys \cap ForeignKeys \subseteq cluster'[o].keys

\* A write to an object does so if what it writes to a Service does.
LEMMA WriteKeepsForeign ==
  ASSUME WorldOK, NEW o \in Objects, NEW value \in Values(o), Write(o, value),
         o \in {"lb", "clusterip"} /\ cluster[o] # Absent /\ value # Absent =>
           cluster[o].keys \cap ForeignKeys \subseteq value.keys
  PROVE  \A q \in {"lb", "clusterip"} : KeepsForeign(q)
<1> SUFFICES ASSUME NEW q \in {"lb", "clusterip"} PROVE KeepsForeign(q)
  OBVIOUS
<1>1. cluster'[o] = value /\ (q # o => cluster'[q] = cluster[q])
  BY WriteIs, ZenonT(60) DEF Objects
<1> QED
  BY <1>1 DEF KeepsForeign

\* So does every step: createOrUpdateService removes only annotations of its record, and
\* its update fails when the Service has changed since it was read.
LEMMA StepKeepsForeign ==
  ASSUME WorldOK, PodOK, Next
  PROVE  \A q \in {"lb", "clusterip"} : KeepsForeign(q)
<1>0. "lb" \in Objects /\ "issuer" \in Objects /\ "signer" \in Objects /\ "tls" \in Objects
  BY DEF Objects
<1>1. CASE cluster' = cluster
  BY <1>1 DEF KeepsForeign
<1>2. ASSUME NEW o, NEW value, Allowed(o, value), Write(o, value)
      PROVE  \A q \in {"lb", "clusterip"} : KeepsForeign(q)
  BY <1>2, WriteKeepsForeign, ZenonT(60) DEF Allowed, Objects
<1>3. ASSUME NEW o \in {"issuer", "signer", "tls"}, NEW value, cluster' = [cluster EXCEPT ![o] = value]
      PROVE  \A q \in {"lb", "clusterip"} : KeepsForeign(q)
  BY <1>3, ZenonT(60) DEF KeepsForeign, WorldOK, Objects
<1>4. CASE Begin \/ ListNodes \/ StartServer \/ KeepServer \/ StopServer \/ ServerStopped(FALSE) \/ ServerStopped(TRUE)
  BY <1>1, <1>4 DEF Begin, ListNodes, StartServer, KeepServer, StopServer, ServerStopped, world
<1>5. CASE NothingToCall \/ CallRefused \/ CallFails \/ JudgeTLS \/ NothingToPublish \/ PublishFails \/ ServerEnds
  BY <1>1, <1>5, ZenonT(60) DEF NothingToCall, CallRefused, CallFails, JudgeTLS, NothingToPublish, PublishFails, ServerEnds, world
<1>6. CASE CallAccepted \/ CallUnanswered
  <2>1. Accepted
    BY <1>6 DEF CallAccepted, CallUnanswered
  <2>2. CASE Write(MyCall.obj, MyCall.value)
    BY <1>2, <2>1, <2>2, AcceptedIsAllowed, ZenonT(60) DEF Accepted
  <2> QED
    BY <1>1, <2>1, <2>2, ZenonT(60) DEF Accepted
<1>7. CASE Publish
  BY <1>3, <1>7, ZenonT(60) DEF Publish, Write
<1>8. CASE OtherPod
  <2>1. CASE OtherPodCalls
    BY <1>2, <2>1, OthersAreAllowed DEF OtherPodCalls
  <2>2. CASE OtherPodPublishes
    BY <1>3, <2>2, ZenonT(60) DEF OtherPodPublishes, Write
  <2> QED
    BY <1>8, <2>1, <2>2 DEF OtherPod
<1>9. CASE CreateSigner \/ DeleteSigner \/ ChangeSpec
  BY <1>3, <1>9 DEF CreateSigner, DeleteSigner, ChangeSpec, Write
<1>10. CASE ExpireSigner \/ ChangeLeader \/ Restart \/ Informer
  BY <1>1, <1>10 DEF ExpireSigner, ChangeLeader, Restart, Informer, InformerEvent, world
<1>11. ASSUME cluster.lb \in Services, NEW value \in Services, cluster.lb.keys \subseteq value.keys, Write("lb", value)
       PROVE  \A q \in {"lb", "clusterip"} : KeepsForeign(q)
  <2>1. value \in Values("lb")
    BY ValuesAre
  <2> QED
    BY <1>0, <1>11, <2>1, WriteKeepsForeign
<1>12. CASE AssignAddress
  <2>1. PICK a \in Addresses : Write("lb", [cluster.lb EXCEPT !.address = a])
    BY <1>12 DEF AssignAddress
  <2>2. cluster.lb \in Services /\ a \in Names
    BY <1>12, ObjectsTyped DEF AssignAddress, Names
  <2>3. [cluster.lb EXCEPT !.address = a] \in Services /\ [cluster.lb EXCEPT !.address = a].keys = cluster.lb.keys
    BY <2>2, ChangedService
  <2> QED
    BY <1>11, <2>1, <2>2, <2>3, ZenonT(60)
<1>13. CASE Disturb
  <2>1. ASSUME NEW o \in {"lb", "clusterip", "ca", "tls"}, Write(o, Absent)
        PROVE  \A q \in {"lb", "clusterip"} : KeepsForeign(q)
    <3>1. o \in Objects /\ Absent \in Values(o)
      BY ValuesAre DEF Objects
    <3> QED
      BY <2>1, <3>1, WriteKeepsForeign
  <2>2. CASE Write("tls", Corrupt)
    BY <1>3, <2>2, ZenonT(60) DEF Write
  <2>3. ASSUME cluster.lb # Absent, NEW k \in ForeignKeys, Write("lb", [cluster.lb EXCEPT !.keys = @ \cup {k}])
        PROVE  \A q \in {"lb", "clusterip"} : KeepsForeign(q)
    <3>1. cluster.lb \in Services
      BY <2>3, ObjectsTyped
    <3>2. /\ [cluster.lb EXCEPT !.keys = @ \cup {k}] \in Services
          /\ [cluster.lb EXCEPT !.keys = @ \cup {k}].keys = cluster.lb.keys \cup {k}
      BY <3>1, ChangedService
    <3> QED
      BY <1>11, <2>3, <3>1, <3>2, ZenonT(60)
  <2>4. CASE AddressOf(cluster.lb) # Absent /\ Write("lb", [cluster.lb EXCEPT !.address = Absent])
    <3>1. cluster.lb \in Services
      BY <2>4, ObjectsTyped DEF AddressOf
    <3>2. /\ [cluster.lb EXCEPT !.address = Absent] \in Services
          /\ [cluster.lb EXCEPT !.address = Absent].keys = cluster.lb.keys
      BY <3>1, ChangedService
    <3> QED
      BY <1>11, <2>4, <3>1, <3>2, ZenonT(60)
  <2> QED
    BY <1>13, <2>1, <2>2, <2>3, <2>4, ZenonT(60) DEF Disturb
<1> QED
  BY <1>4, <1>5, <1>6, <1>7, <1>8, <1>9, <1>10, <1>12, <1>13, ZenonT(60) DEF Next, Controller

\* The controller never takes an annotation of others from a Service, for any annotations
\* in the specs and any that others add meanwhile.
THEOREM AnnotationsStay == Spec => ForeignKeysStay
<1>1. Inv /\ [Next]_vars => [\A o \in {"lb", "clusterip"} : KeepsForeign(o)]_vars
  BY Halves, StepKeepsForeign
<1> QED
  BY <1>1, InvAlways, PTL DEF Spec, ForeignKeysStay, KeepsForeign


-----------------------------------------------------------------------------
(* At rest the controller is done.                                         *)

\* What WorkOK promises when no other Sync is queued.
Achieved == StartedOK /\ ServicesOK /\ TLSOK /\ StrategyOK

\* What others write makes objects stale and changes nothing that a Sync has achieved.
LEMMA WorkStays ==
  ASSUME WorkOK, seen' = seen, stale \subseteq stale', queued' = queued,
         sync'.at = sync.at, sync'.spec = sync.spec, sync'.old = sync.old, sync'.name = sync.name,
         sync'.ca = sync.ca, sync'.result = sync.result, UNCHANGED <<server, served, signer>>
  PROVE  WorkOK'
<1> SUFFICES ASSUME ~queued' PROVE StartedOK' /\ ServicesOK' /\ TLSOK' /\ StrategyOK'
  BY DEF WorkOK
<1>0. StartedOK /\ ServicesOK /\ TLSOK /\ StrategyOK
  BY DEF WorkOK
<1>1. SeenName' = SeenName
  BY ZenonT(60) DEF SeenName, DesiredName, AddressOf
<1>2. StartedOK'
  BY <1>0, ZenonT(60) DEF StartedOK, Past
<1>3. ServicesOK'
  BY <1>0, <1>1, ZenonT(60) DEF ServicesOK, ServiceDone, Past
<1>4. TLSOK'
  BY <1>0, <1>1, ZenonT(60) DEF TLSOK, Past
<1>5. StrategyOK'
  BY <1>0, <1>1, ZenonT(60) DEF StrategyOK, Past
<1> QED
  BY <1>2, <1>3, <1>4, <1>5

\* An error promises nothing, for it leads to another Sync.
LEMMA WorkError ==
  ASSUME sync'.at = "publish", sync'.result.reason \in {"Error", "Conflict"},
         sync'.spec = seen'.issuer.spec, sync'.old = seen'.issuer.strategy
  PROVE  Achieved'
<1>1. StartedOK'
  BY DEF StartedOK, Past, Calling
<1>2. ServicesOK'
  BY DEF ServicesOK, Past
<1>3. TLSOK'
  BY ZenonT(60) DEF TLSOK, Past
<1>4. StrategyOK'
  BY DEF StrategyOK, Past
<1> QED
  BY <1>1, <1>2, <1>3, <1>4 DEF Achieved

\* doSync has started or stopped the server and goes on.
LEMMA ServerWork ==
  ASSUME PodOK, Achieved, sync.at \in {"server", "stopping"}, Goto("lb"), seen' = seen,
         IF ShouldHaveImpersonator(sync.spec) THEN server'.handle /\ ~server'.exited ELSE server' = NoServer
  PROVE  Achieved'
<1>1. sync'.at = "lb" /\ sync'.spec = sync.spec /\ sync'.old = sync.old
  BY GotoIs, ZenonT(60) DEF Places, Calling
<1>2. sync.spec = seen.issuer.spec /\ sync.old = seen.issuer.strategy /\ seen.issuer.spec.valid
  BY ZenonT(60) DEF Achieved, StartedOK, Past, Places
<1>3. StartedOK'
  BY <1>1, <1>2, ZenonT(60) DEF StartedOK
<1>4. ServicesOK' /\ TLSOK' /\ StrategyOK'
  BY <1>1, ZenonT(60) DEF ServicesOK, TLSOK, StrategyOK, Past
<1> QED
  BY <1>3, <1>4 DEF Achieved

\* A call that was accepted is of the object of its place, whose event is on its way: a
\* deletion of what is gone already means that the informer is late.
LEMMA AcceptedIsStale ==
  ASSUME WorldOK, PodOK, Accepted
  PROVE  seen' = seen /\ stale \subseteq stale' /\ ObjectAt(sync.at) \in stale'
<1>1. sync.at \in Calling /\ MyCall = CallAt(sync.at, sync, seen) /\ MyCall # NoCall
  BY ZenonT(60) DEF Accepted, MyCall
<1>2. /\ MyCall.obj = ObjectAt(sync.at) /\ ObjectAt(sync.at) \in Objects
      /\ MyCall.verb = "delete" => seen[ObjectAt(sync.at)] # Absent
  BY <1>1, CallObject
<1>3. CASE Write(MyCall.obj, MyCall.value)
  BY <1>2, <1>3 DEF Write
<1>4. CASE MyCall.verb = "delete" /\ cluster[MyCall.obj] = Absent /\ UNCHANGED informers
  BY <1>2, <1>4 DEF WorldOK, informers
<1> QED
  BY <1>3, <1>4, ZenonT(60) DEF Accepted


\* doSync returns: what its result says is what the informers know, or an event will come.
LEMMA FinishWork ==
  ASSUME PodOK, Achieved, Finish, sync.at \in {"tls", "remove", "create"},
         seen' = seen, stale \subseteq stale', server' = server,
         LET has == ShouldHaveImpersonator(sync.spec) IN
         /\ ~has => served' = Absent
         /\ \/ "tls" \in stale'
            \/ seen.tls = Absent /\ (~has \/ sync.name = Absent)
            \/ has /\ sync.name # Absent /\ seen.tls = served' /\ served' = [ca |-> sync.ca, name |-> sync.name]
  PROVE  Achieved'
<1> DEFINE has == ShouldHaveImpersonator(sync.spec)
           result == IF has /\ seen.signer = Absent THEN Without("Error")
                     ELSE SyncResult(sync.spec, sync.ca, sync.name)
<1>1. /\ signer' = IF ~has THEN Absent ELSE IF seen.signer = Absent THEN signer ELSE seen.signer
      /\ sync' = [sync EXCEPT !.at = "publish", !.result = result]
  BY DEF Finish
<1>2. /\ sync.spec = seen.issuer.spec /\ sync.old = seen.issuer.strategy /\ seen.issuer.spec.valid
      /\ IF has THEN server.handle /\ ~server.exited ELSE server = NoServer
  BY ZenonT(60) DEF Achieved, StartedOK, Past, Places, Calling
<1>3. ServiceDone("lb") /\ ServiceDone("clusterip") /\ sync.name = SeenName
  BY ZenonT(60) DEF Achieved, ServicesOK, Past
<1>4. has => "ca" \in stale \/ sync.ca = seen.ca
  BY <1>2, ZenonT(60) DEF Achieved, TLSOK
<1>5. SeenName' = SeenName
  BY ZenonT(60) DEF SeenName, DesiredName, AddressOf
<1>6. result.reason \notin {"Error", "Conflict"} =>
        /\ result = SyncResult(sync.spec, sync.ca, sync.name)
        /\ has => seen.signer # Absent
  BY ZenonT(60) DEF Without, Strategy
<1>7. "ca" \in stale \/ SyncResult(sync.spec, sync.ca, sync.name) = SyncResult(seen.issuer.spec, seen.ca, SeenName)
  BY <1>2, <1>3, <1>4, ZenonT(60) DEF SyncResult
<1> HIDE DEF result
<1>8. sync'.at = "publish" /\ sync'.spec = sync.spec /\ sync'.old = sync.old /\ sync'.result = result
  BY <1>1, ZenonT(60) DEF PodOK, Syncs
<1>9. StartedOK'
  BY <1>2, <1>8, ZenonT(60) DEF StartedOK
<1>10. ServicesOK'
  BY <1>3, <1>8, ZenonT(60) DEF ServicesOK, ServiceDone
<1>11. TLSOK'
  <2>1. seen'.tls = seen.tls /\ seen'.ca = seen.ca /\ seen'.signer = seen.signer
        /\ ShouldHaveImpersonator(seen'.issuer.spec) = has
    BY <1>2, ZenonT(60)
  <2> SUFFICES ASSUME result.reason \notin {"Error", "Conflict"}
               PROVE  /\ \/ "tls" \in stale'
                         \/ seen.tls = Absent /\ (~has \/ SeenName = Absent)
                         \/ /\ has /\ SeenName # Absent /\ seen.tls = served'
                            /\ "ca" \in stale' \/ served' = [ca |-> seen.ca, name |-> SeenName]
                      /\ ~has => served' = Absent
                      /\ signer' = IF has THEN seen.signer ELSE Absent
    BY <1>5, <1>8, <2>1, ZenonT(60) DEF TLSOK, Past
  <2> QED
    BY <1>1, <1>3, <1>4, <1>6
<1>12. StrategyOK'
  <2> SUFFICES ASSUME "ca" \notin stale', result.reason \notin {"Error", "Conflict"}
               PROVE  result = SyncResult(seen.issuer.spec, seen.ca, SeenName)
    BY <1>5, <1>8, ZenonT(60) DEF StrategyOK, Past
  <2> QED
    BY <1>6, <1>7, ZenonT(60)
<1> QED
  BY <1>9, <1>10, <1>11, <1>12, ZenonT(60) DEF Achieved

\* A Sync that has passed the Services goes on.
LEMMA NextWork ==
  ASSUME Achieved, sync.at \in {"ca", "tls", "remove"}, sync'.at \in {"tls", "remove", "create"},
         sync'.spec = sync.spec, sync'.old = sync.old, sync'.name = sync.name,
         seen' = seen, stale \subseteq stale', server' = server,
         LET has == ShouldHaveImpersonator(sync.spec) IN
         /\ has => "ca" \in stale' \/ sync'.ca = seen.ca
         /\ has /\ sync'.at = "remove" => seen.tls # Absent
  PROVE  Achieved'
<1>1. sync.spec = seen.issuer.spec
  BY ZenonT(60) DEF Achieved, StartedOK
<1>2. StartedOK'
  BY ZenonT(60) DEF Achieved, StartedOK, Past, Places, Calling
<1>3. ServicesOK'
  <2>1. SeenName' = SeenName
    BY ZenonT(60) DEF SeenName, DesiredName, AddressOf
  <2> QED
    BY <2>1, ZenonT(60) DEF Achieved, ServicesOK, ServiceDone, Past
<1>4. TLSOK' /\ StrategyOK'
  BY <1>1, ZenonT(60) DEF TLSOK, StrategyOK, Past
<1> QED
  BY <1>2, <1>3, <1>4, ZenonT(60) DEF Achieved

\* After a call that was accepted or not needed, the place is done.
LEMMA CallWork ==
  ASSUME WorldOK, PodOK, Achieved, sync.at \in Calling, AfterCall,
         seen' = seen, stale \subseteq stale', server' = server,
         MyCall = NoCall \/ ObjectAt(sync.at) \in stale'
  PROVE  Achieved'
<1> DEFINE has == ShouldHaveImpersonator(sync.spec)
<1>0. /\ sync \in Syncs /\ sync.spec = seen.issuer.spec /\ sync.old = seen.issuer.strategy
      /\ MyCall = CallAt(sync.at, sync, seen)
  BY ZenonT(60) DEF PodOK, Achieved, StartedOK, Calling, MyCall
<1>1. CASE sync.at = "lb"
  <2>1. sync'.at = "clusterip" /\ sync'.spec = sync.spec /\ sync'.old = sync.old
    BY <1>1, GotoIs DEF AfterCall, Places, Calling
  <2>2. ServiceDone("lb")'
    BY <1>0, <1>1 DEF ServiceDone, CallAt, ObjectAt
  <2>3. StartedOK'
    BY <1>1, <2>1, ZenonT(60) DEF Achieved, StartedOK, Past, Places, Calling
  <2>4. ServicesOK' /\ TLSOK' /\ StrategyOK'
    BY <2>1, <2>2, ZenonT(60) DEF ServicesOK, TLSOK, StrategyOK, Past
  <2> QED
    BY <2>3, <2>4 DEF Achieved
<1>2. CASE sync.at = "clusterip"
  <2> DEFINE name == IF has THEN DesiredName(sync.spec, seen) ELSE Absent
  <2>1. sync' = [sync EXCEPT !.at = "ca", !.name = name]
    BY <1>2 DEF AfterCall
  <2>2. name = SeenName /\ SeenName' = SeenName
    BY <1>0, ZenonT(60) DEF SeenName, DesiredName, AddressOf
  <2> HIDE DEF name
  <2>3. sync'.at = "ca" /\ sync'.spec = sync.spec /\ sync'.old = sync.old /\ sync'.name = name
    BY <1>0, <2>1, ZenonT(60) DEF Syncs
  <2>4. ServiceDone("lb")' /\ ServiceDone("clusterip")'
    BY <1>0, <1>2 DEF Achieved, ServicesOK, ServiceDone, CallAt, ObjectAt, Past
  <2>5. StartedOK'
    BY <1>2, <2>3, ZenonT(60) DEF Achieved, StartedOK, Past, Places, Calling
  <2>6. ServicesOK' /\ TLSOK' /\ StrategyOK'
    BY <2>2, <2>3, <2>4, ZenonT(60) DEF ServicesOK, TLSOK, StrategyOK, Past
  <2> QED
    BY <2>5, <2>6 DEF Achieved
<1>3. CASE sync.at = "ca" /\ has
  <2> DEFINE ca == IF seen.ca = Absent THEN count["ca"] + 1 ELSE seen.ca
  <2>1. sync' = [sync EXCEPT !.at = "tls", !.ca = ca]
    BY <1>3 DEF AfterCall
  <2>2. "ca" \in stale' \/ ca = seen.ca
    <3> SUFFICES ASSUME MyCall = NoCall PROVE seen.ca # Absent
      BY <1>3 DEF ObjectAt
    <3> QED
      BY <1>0, <1>3 DEF CallAt, Call, NoCall
  <2> HIDE DEF ca
  <2>3. /\ sync'.at = "tls" /\ sync'.spec = sync.spec /\ sync'.old = sync.old /\ sync'.name = sync.name
        /\ sync'.ca = ca
    BY <1>0, <2>1, ZenonT(60) DEF Syncs
  <2> QED
    BY <1>3, <2>2, <2>3, NextWork, ZenonT(60)
<1>4. CASE sync.at = "ca" /\ ~has
  <2>1. Goto("remove")
    BY <1>4 DEF AfterCall, Goto
  <2>2. sync'.at = "remove" /\ sync'.spec = sync.spec /\ sync'.old = sync.old /\ sync'.name = sync.name
    BY <2>1, GotoIs DEF Places, Calling
  <2> QED
    BY <1>4, <2>2, NextWork, ZenonT(60)
<1>5. CASE sync.at = "remove" /\ has /\ sync.name # Absent
  <2>1. /\ sync'.at = "create" /\ sync'.spec = sync.spec /\ sync'.old = sync.old /\ sync'.name = sync.name
        /\ sync'.ca = sync.ca
    BY <1>5, GotoIs DEF AfterCall, Places, Calling
  <2>2. "ca" \in stale' \/ sync'.ca = seen.ca
    BY <1>0, <1>5, <2>1, ZenonT(60) DEF Achieved, TLSOK
  <2> QED
    BY <1>5, <2>1, <2>2, NextWork, ZenonT(60)
<1>6. "tls" \in stale' \/ seen.tls = Absent \/ sync.at # "remove"
  <2> SUFFICES ASSUME sync.at = "remove", MyCall = NoCall PROVE seen.tls = Absent
    BY DEF ObjectAt
  <2> QED
    BY <1>0 DEF CallAt, Call, NoCall
<1>7. CASE sync.at = "remove" /\ has /\ sync.name = Absent
  <2>1. Finish
    BY <1>7 DEF AfterCall
  <2> QED
    BY <1>6, <1>7, <2>1, FinishWork
<1>8. CASE sync.at = "remove" /\ ~has
  <2>1. Finish /\ served' = Absent
    BY <1>8 DEF AfterCall
  <2> QED
    BY <1>6, <1>8, <2>1, FinishWork
<1>9. CASE sync.at = "create"
  <2>1. Finish
    BY <1>9 DEF AfterCall
  <2>2. has
    BY <1>9 DEF PodOK, SyncOK
  <2>3. "tls" \in stale'
    BY <1>0, <1>9 DEF CallAt, Call, NoCall, ObjectAt
  <2> QED
    BY <1>9, <2>1, <2>2, <2>3, FinishWork
<1> QED
  BY <1>1, <1>2, <1>3, <1>4, <1>5, <1>7, <1>8, <1>9 DEF Calling

\* ensureTLSSecret: a Secret that fits is loaded, one that does not is there to be removed.
LEMMA JudgeWork ==
  ASSUME PodOK, Achieved, JudgeTLS
  PROVE  Achieved'
<1>1. sync.at = "tls" /\ seen' = seen /\ stale \subseteq stale' /\ server' = server
  BY DEF JudgeTLS, informers
<1>2. /\ ShouldHaveImpersonator(sync.spec) /\ sync.spec = seen.issuer.spec
      /\ "ca" \in stale' \/ sync.ca = seen.ca
  BY <1>1 DEF PodOK, SyncOK, Achieved, StartedOK, TLSOK, JudgeTLS, informers
<1>3. ASSUME NEW place \in {"create", "remove"}, Goto(place), place = "remove" => seen.tls # Absent
      PROVE  Achieved'
  <2>1. /\ sync'.at = place /\ sync'.spec = sync.spec /\ sync'.old = sync.old /\ sync'.name = sync.name
        /\ sync'.ca = sync.ca
    BY <1>3, GotoIs DEF Places, Calling
  <2> QED
    BY <1>1, <1>2, <1>3, <2>1, NextWork, ZenonT(60)
<1>4. CASE Finish /\ seen.tls = Absent /\ sync.name = Absent
  BY <1>1, <1>2, <1>4, FinishWork, ZenonT(60)
<1>5. CASE Matches(seen.tls, sync.ca, sync.name) /\ served' = seen.tls /\ Finish
  BY <1>1, <1>2, <1>5, FinishWork, ZenonT(60) DEF Matches
<1> QED
  BY <1>3, <1>4, <1>5 DEF JudgeTLS

\* A Sync ends: without an error it has passed every place, and the strategy is published
\* already, or its event will come.
LEMMA PublishWork ==
  ASSUME Achieved, sync.at = "publish", sync.result.reason \notin {"Error", "Conflict"}, sync' = Idle,
         seen' = seen, stale \subseteq stale', UNCHANGED <<server, served, signer>>,
         sync.result = sync.old \/ "issuer" \in stale'
  PROVE  Achieved'
<1>1. sync'.at = "idle" /\ SeenName' = SeenName
  BY NothingRuns, ZenonT(60) DEF SeenName, DesiredName, AddressOf
<1>2. sync.old = seen.issuer.strategy
  BY ZenonT(60) DEF Achieved, StartedOK
<1>3. StartedOK'
  BY <1>1, ZenonT(60) DEF Achieved, StartedOK, Past
<1>4. ServicesOK'
  BY <1>1, ZenonT(60) DEF Achieved, ServicesOK, ServiceDone, Past
<1>5. TLSOK'
  BY <1>1, ZenonT(60) DEF Achieved, TLSOK, Past
<1>6. StrategyOK'
  BY <1>1, <1>2, ZenonT(60) DEF Achieved, StrategyOK, Past
<1> QED
  BY <1>3, <1>4, <1>5, <1>6 DEF Achieved

\* Begin: nothing is achieved yet but that the spec and the strategy are the informer's.
LEMMA BeginWork ==
  ASSUME WorldOK, Begin
  PROVE  Achieved'
<1>1. /\ sync' = [Idle EXCEPT !.at = IF seen.issuer.spec.valid THEN "server" ELSE "publish",
                              !.spec = seen.issuer.spec, !.old = seen.issuer.strategy,
                              !.fresh = "issuer" \notin stale, !.result = Without("Error")]
      /\ seen' = seen
  BY DEF Begin, informers
<1>2. /\ sync'.at = IF seen.issuer.spec.valid THEN "server" ELSE "publish"
      /\ sync'.spec = seen.issuer.spec /\ sync'.old = seen.issuer.strategy /\ sync'.result = Without("Error")
  BY <1>1, NothingRuns, ZenonT(60) DEF Syncs
<1>3. CASE seen.issuer.spec.valid
  <2>1. StartedOK'
    BY <1>1, <1>2, <1>3 DEF StartedOK, Past, Calling
  <2>2. ServicesOK' /\ TLSOK' /\ StrategyOK'
    BY <1>2, <1>3, ZenonT(60) DEF ServicesOK, TLSOK, StrategyOK, Past
  <2> QED
    BY <2>1, <2>2 DEF Achieved
<1>4. CASE ~seen.issuer.spec.valid
  <2>1. sync'.result.reason = "Error"
    BY <1>2, WithoutReason, ZenonT(60)
  <2> QED
    BY <1>1, <1>2, <1>4, <2>1, WorkError
<1> QED
  BY <1>3, <1>4

\* The steps of a Sync before the Services.
LEMMA StartWork ==
  ASSUME PodOK, Achieved, WorkOK, ~queued,
         \/ ListNodes \/ StartServer \/ KeepServer \/ StopServer \/ ServerStopped(FALSE) \/ ServerStopped(TRUE)
  PROVE  WorkOK'
<1>0. seen' = seen /\ queued' = queued /\ stale' = stale /\ served' = served /\ signer' = signer
      /\ sync.at \in {"server", "stopping"} /\ server \in Servers /\ ServerOK
  BY DEF ListNodes, StartServer, KeepServer, StopServer, ServerStopped, informers, certs, PodOK
<1>1. sync.spec = seen.issuer.spec /\ sync.old = seen.issuer.strategy /\ seen.issuer.spec.valid
  BY <1>0, ZenonT(60) DEF Achieved, StartedOK, Past, Places
<1>2. ASSUME Goto("publish") PROVE Achieved'
  <2>1. sync'.at = "publish" /\ sync'.spec = sync.spec /\ sync'.old = sync.old /\ sync'.result = sync.result
    BY <1>2, GotoIs DEF Places
  <2>2. sync.result.reason = "Error"
    BY <1>0, ErrorUntilDone
  <2> QED
    BY <1>0, <1>1, <2>1, <2>2, WorkError
<1>3. ASSUME Goto("stopping") PROVE Achieved'
  <2>1. sync'.at = "stopping" /\ sync'.spec = sync.spec /\ sync'.old = sync.old
    BY <1>3, GotoIs DEF Places
  <2>2. StartedOK'
    BY <1>0, <1>1, <2>1, ZenonT(60) DEF StartedOK, Past, Calling
  <2>3. ServicesOK' /\ TLSOK' /\ StrategyOK'
    BY <2>1, ZenonT(60) DEF ServicesOK, TLSOK, StrategyOK, Past
  <2> QED
    BY <2>2, <2>3 DEF Achieved
<1>4. CASE ListNodes
  <2>1. CASE sync' = sync
    BY <1>0, <1>4, <2>1, WorkStays DEF ListNodes
  <2> QED
    BY <1>2, <1>4, <2>1 DEF ListNodes, WorkOK, Achieved
<1>5. CASE StartServer
  <2>1. ASSUME server' = [server EXCEPT !.handle = TRUE, !.live = @ + 1], Goto("lb") PROVE Achieved'
    <3>1. server = NoServer /\ ShouldHaveImpersonator(sync.spec)
      BY <1>0, <1>5 DEF StartServer, ServerOK
    <3>2. server'.handle = TRUE
      BY <2>1, <3>1 DEF NoServer
    <3>3. server'.exited = FALSE
      BY <2>1, <3>1 DEF NoServer
    <3> QED
      BY <1>0, <2>1, <3>1, <3>2, <3>3, ServerWork
  <2> QED
    BY <1>2, <1>5, <2>1 DEF StartServer, WorkOK, Achieved
<1>6. CASE KeepServer
  <2>1. ASSUME ~server.exited, Goto("lb"), server' = server PROVE Achieved'
    BY <1>0, <1>6, <2>1, ServerWork DEF KeepServer
  <2> QED
    BY <1>2, <1>6, <2>1 DEF KeepServer, WorkOK, Achieved
<1>7. CASE StopServer
  <2>1. ASSUME ~server.handle, Goto("lb"), server' = server PROVE Achieved'
    BY <1>0, <1>7, <2>1, ServerWork DEF StopServer, ServerOK
  <2> QED
    BY <1>3, <1>7, <2>1 DEF StopServer, WorkOK, Achieved
<1>8. CASE ServerStopped(TRUE)
  BY <1>2, <1>8 DEF ServerStopped, WorkOK, Achieved
<1>9. CASE ServerStopped(FALSE)
  <2>1. Goto("lb") /\ server' = NoServer /\ ~ShouldHaveImpersonator(sync.spec)
    BY <1>9 DEF ServerStopped, PodOK, SyncOK
  <2> QED
    BY <1>0, <2>1, ServerWork DEF WorkOK, Achieved
<1> QED
  BY <1>4, <1>5, <1>6, <1>7, <1>8, <1>9, ZenonT(60)


\* Every step keeps what a Sync has achieved, or another Sync is queued.
LEMMA WorkNext == Inv /\ WorkOK /\ [Next]_vars => WorkOK'
<1> SUFFICES ASSUME Inv, WorkOK, [Next]_vars, ~queued' PROVE Achieved'
  BY DEF WorkOK, Achieved
<1>0. WorldOK /\ PodOK /\ queued \in BOOLEAN
  BY Halves DEF PodOK
<1>1. CASE Begin
  BY <1>0, <1>1, BeginWork
<1>2. queued => Begin
  <2> SUFFICES ASSUME queued, ~Begin PROVE FALSE
    OBVIOUS
  <2>1. CASE \/ ListNodes \/ StartServer \/ KeepServer \/ StopServer \/ ServerStopped(FALSE) \/ ServerStopped(TRUE)
             \/ NothingToCall \/ Accepted \/ CallRefused \/ CallFails \/ JudgeTLS
    BY <2>1, ZenonT(60) DEF ListNodes, StartServer, KeepServer, StopServer, ServerStopped,
                NothingToCall, Accepted, CallRefused, CallFails, JudgeTLS
  <2>2. CASE NothingToPublish \/ Publish \/ PublishFails \/ ServerEnds \/ Restart \/ \E o \in Objects : InformerEvent(o)
    BY <2>2, ZenonT(60) DEF NothingToPublish, Publish, PublishFails, EndSync, ServerEnds, Restart, InformerEvent
  <2>3. CASE \/ OtherPod \/ CreateSigner \/ DeleteSigner
             \/ AssignAddress \/ ChangeSpec \/ Disturb \/ ExpireSigner \/ ChangeLeader \/ UNCHANGED vars
    BY <2>3, ZenonT(60) DEF OtherPod, OtherPodCalls, OtherPodPublishes, CreateSigner, DeleteSigner,
                AssignAddress, ChangeSpec, Disturb, ExpireSigner, ChangeLeader, vars
  <2> QED
    BY <2>1, <2>2, <2>3, ZenonT(60) DEF Next, Controller, Informer, CallAccepted, CallUnanswered
<1>3. SUFFICES ASSUME ~queued PROVE Achieved'
  BY <1>1, <1>2
<1>4. Achieved
  BY <1>3 DEF WorkOK, Achieved
<1>5. CASE \/ ListNodes \/ StartServer \/ KeepServer \/ StopServer \/ ServerStopped(FALSE) \/ ServerStopped(TRUE)
  BY <1>0, <1>3, <1>4, <1>5, StartWork, ZenonT(60) DEF WorkOK, Achieved
<1>6. CASE NothingToCall
  BY <1>0, <1>4, <1>6, CallWork DEF NothingToCall, informers
<1>7. CASE CallAccepted
  <2>1. Accepted /\ sync.at \in Calling /\ AfterCall /\ server' = server
    BY <1>7, ZenonT(60) DEF CallAccepted, Accepted, MyCall
  <2> QED
    BY <1>0, <1>4, <2>1, AcceptedIsStale, CallWork
<1>8. CASE CallRefused
  <2>1. PICK reason \in {"Error", "Conflict"} :
          sync' = [sync EXCEPT !.at = "publish", !.result = Without(reason)]
    BY <1>8, ZenonT(60) DEF CallRefused
  <2>2. sync'.at = "publish" /\ sync'.spec = sync.spec /\ sync'.old = sync.old /\ sync'.result = Without(reason)
    BY <1>0, <2>1, ZenonT(60) DEF PodOK, Syncs
  <2>3. sync.at \in Calling /\ seen' = seen
    BY <1>8 DEF CallRefused, MyCall, informers
  <2>4. sync.at # "idle"
    BY <2>3 DEF Calling
  <2>5. sync'.result.reason = reason
    BY <2>2, WithoutReason, ZenonT(60)
  <2> QED
    BY <1>4, <2>2, <2>3, <2>4, <2>5, WorkError, ZenonT(60) DEF Achieved, StartedOK
<1>9. CASE CallFails \/ CallUnanswered
  <2>1. Goto("publish") /\ sync.at \in Calling /\ seen' = seen
    <3>1. CASE CallFails
      BY <3>1 DEF CallFails, MyCall, informers
    <3>2. CASE CallUnanswered
      BY <1>0, <3>2, AcceptedIsStale, ZenonT(60) DEF CallUnanswered, Accepted, MyCall
    <3> QED
      BY <1>9, <3>1, <3>2
  <2>2. sync'.at = "publish" /\ sync'.spec = sync.spec /\ sync'.old = sync.old /\ sync'.result = sync.result
    BY <1>0, <2>1, GotoIs DEF Places
  <2>3. sync.at \notin {"idle", "publish"}
    BY <2>1 DEF Calling
  <2>4. sync.result.reason = "Error"
    BY <1>0, <2>3, ErrorUntilDone, ZenonT(60)
  <2> QED
    BY <1>4, <2>1, <2>2, <2>3, <2>4, WorkError, ZenonT(60) DEF Achieved, StartedOK
<1>10. CASE JudgeTLS
  BY <1>0, <1>4, <1>10, JudgeWork
<1>11. CASE NothingToPublish \/ Publish
  <2>1. /\ sync.at = "publish" /\ sync.result.reason \notin {"Error", "Conflict"} /\ sync' = Idle
        /\ seen' = seen /\ stale \subseteq stale' /\ UNCHANGED <<server, served, signer>>
        /\ sync.result = sync.old \/ "issuer" \in stale'
    BY <1>11, ZenonT(60) DEF NothingToPublish, Publish, NeedsUpdate, EndSync, Write, informers, certs
  <2> QED
    BY <1>4, <2>1, PublishWork
<1>12. CASE PublishFails \/ ServerEnds \/ Restart \/ \E o \in Objects : InformerEvent(o)
  BY <1>12, ZenonT(60) DEF PublishFails, EndSync, ServerEnds, Restart, InformerEvent
<1>13. CASE \/ OtherPod \/ CreateSigner \/ DeleteSigner
            \/ AssignAddress \/ ChangeSpec \/ Disturb \/ ExpireSigner \/ ChangeLeader \/ UNCHANGED vars
  <2>1. /\ seen' = seen /\ stale \subseteq stale' /\ queued' = queued /\ sync' \in {sync, Outdated}
        /\ UNCHANGED <<server, served, signer>>
    <3>1. CASE OtherPod \/ CreateSigner \/ DeleteSigner
      BY <3>1 DEF OtherPod, OtherPodCalls, OtherPodPublishes, CreateSigner, DeleteSigner, Write, certs
    <3>2. CASE AssignAddress \/ ChangeSpec
      BY <3>2 DEF AssignAddress, ChangeSpec, Write, certs
    <3>3. CASE Disturb
      BY <3>3 DEF Disturb, Write, certs
    <3>4. CASE ExpireSigner \/ ChangeLeader \/ UNCHANGED vars
      BY <3>4 DEF ExpireSigner, ChangeLeader, vars, informers, certs
    <3> QED
      BY <1>13, <3>1, <3>2, <3>3, <3>4
  <2>2. /\ sync'.at = sync.at /\ sync'.spec = sync.spec /\ sync'.old = sync.old /\ sync'.name = sync.name
        /\ sync'.ca = sync.ca /\ sync'.result = sync.result
    BY <1>0, <2>1, ZenonT(60) DEF PodOK, Syncs, Outdated
  <2>3. WorkOK'
    BY <2>1, <2>2, WorkStays
  <2> QED
    BY <2>3 DEF WorkOK, Achieved
<1> QED
  BY <1>1, <1>5, <1>6, <1>7, <1>8, <1>9, <1>10, <1>11, <1>12, <1>13, ZenonT(60) DEF Next, Controller, Informer

\* A Service for which there is nothing to call is as the spec asks for: the record has the
\* annotations of the spec, and those are the ones on the Service.
LEMMA NoCallIsDone ==
  ASSUME NEW spec, NEW o, NEW service \in Services \cup {Absent}, ServiceCall(spec, o, service) = NoCall
  PROVE  IF ShouldHaveService(spec, o)
         THEN service # Absent /\ service.keys \cap Keys = spec.annotations
         ELSE service = Absent
<1>1. ASSUME ShouldHaveService(spec, o) PROVE service # Absent
  BY <1>1 DEF ServiceCall, Call, NoCall
<1>2. ASSUME ShouldHaveService(spec, o) PROVE service.keys \cap Keys = spec.annotations
  <2>1. service \in Services /\ Merged(service, spec.annotations) = service
    BY <1>1, <1>2 DEF ServiceCall, Call, NoCall
  <2>2. service.record = spec.annotations
    <3>1. Merged(service, spec.annotations).record = spec.annotations
      BY <2>1 DEF Merged, Services
    <3> QED
      BY <2>1, <3>1, ZenonT(60)
  <2> QED
    BY <2>1, <2>2, ZenonT(60) DEF Services
<1>3. ASSUME ~ShouldHaveService(spec, o) PROVE service = Absent
  BY <1>3 DEF ServiceCall, Call, NoCall
<1> QED
  BY <1>1, <1>2, <1>3

\* What a Sync has achieved, when no event is on its way.
LEMMA AchievedFits == Inv /\ WorkOK => SettledFits
<1> SUFFICES ASSUME Inv, WorkOK, stale = {}, ~queued, sync.at = "idle"
             PROVE  cluster.issuer.spec.valid /\ Fits
  BY DEF SettledFits
<1>0. WorldOK /\ PodOK /\ StartedOK /\ ServicesOK /\ TLSOK /\ StrategyOK
  BY Halves DEF WorkOK
<1>1. /\ seen["issuer"] = cluster["issuer"] /\ seen["lb"] = cluster["lb"] /\ seen["clusterip"] = cluster["clusterip"]
      /\ seen["ca"] = cluster["ca"] /\ seen["tls"] = cluster["tls"] /\ seen["signer"] = cluster["signer"]
  BY <1>0, ZenonT(60) DEF WorldOK, Objects
<1> DEFINE spec == cluster.issuer.spec
           has == ShouldHaveImpersonator(spec)
           name == DesiredName(spec, cluster)
<1>2. /\ spec.valid
      /\ IF has THEN server.handle /\ ~server.exited ELSE server = NoServer
  BY <1>0, <1>1 DEF StartedOK, Past
<1>3. SeenName = IF has THEN name ELSE Absent
  BY <1>1 DEF SeenName, DesiredName
<1>4. cluster.issuer.strategy = SyncResult(spec, cluster.ca, name)
  <2>1. cluster.issuer.strategy = SyncResult(spec, cluster.ca, SeenName)
    BY <1>0, <1>1 DEF StrategyOK
  <2> QED
    BY <1>3, <2>1 DEF SyncResult
<1>5. ASSUME NEW o \in {"lb", "clusterip"}
      PROVE  IF ShouldHaveService(spec, o)
             THEN cluster[o] # Absent /\ cluster[o].keys \cap Keys = spec.annotations
             ELSE cluster[o] = Absent
  <2>1. ServiceCall(spec, o, cluster[o]) = NoCall
    BY <1>0, <1>1, ZenonT(60) DEF ServicesOK, ServiceDone, Past
  <2>2. cluster[o] \in Services \cup {Absent}
    BY <1>0, ObjectsTyped
  <2> QED
    BY <2>1, <2>2, NoCallIsDone, ZenonT(60)
<1>6. /\ \/ cluster.tls = Absent /\ (~has \/ SeenName = Absent)
         \/ has /\ SeenName # Absent /\ cluster.tls = served /\ served = [ca |-> cluster.ca, name |-> SeenName]
      /\ ~has => served = Absent
      /\ signer = IF has THEN cluster.signer ELSE Absent
  BY <1>0, <1>1, ZenonT(60) DEF TLSOK, Past
<1>7. server.live = IF has THEN 1 ELSE 0
  BY <1>0, <1>2, LiveServers, ZenonT(60)
<1>8. /\ cluster.tls = IF has /\ name # Absent THEN [ca |-> cluster.ca, name |-> name] ELSE Absent
      /\ ~has \/ name # Absent => served = cluster.tls
  BY <1>3, <1>6, ZenonT(60)
<1> QED
  BY <1>2, <1>4, <1>5, <1>6, <1>7, <1>8, ZenonT(60) DEF Fits

\* The controller rests only when it is done: the safety half of ProxyFollowsSpec, for any
\* specs, annotations, number of changes and whichever pod leads.
THEOREM RestMeansFits == Spec => []SettledFits
<1>1. Init => WorkOK
  BY DEF Init, WorkOK
<1>2. Spec => []WorkOK
  BY <1>1, WorkNext, InvAlways, PTL DEF Spec
<1> QED
  BY <1>2, AchievedFits, InvAlways, PTL
=============================================================================
