---------------------- MODULE AuthenticatorCacheProofs ----------------------
(***************************************************************************)
(* Proofs about AuthenticatorCache for any sets of resources and of specs. *)
(* The invariant says, beyond the types, that the JWT filler has closed    *)
(* the authenticator which it is about to replace (ReplacedIsClosed).  No  *)
(* other controller stores a JWT authenticator meanwhile: the filler has   *)
(* one worker, and the cleaner only closes and deletes.                    *)
(***************************************************************************)
EXTENDS AuthenticatorCache, FiniteSetTheorems, TLAPS

\* The provers of a leaf that names none, with time to spare on a busy machine.
USE SMTT(30), ZenonT(60)

\* At the start no filler builds anything.
LEMMA InvInit == Init => Inv
<1> SUFFICES ASSUME Init PROVE Inv
  OBVIOUS
<1>1. filling["jwt"] = NotFilling /\ filling["webhook"] = NotFilling
  BY DEF Init, Kinds
<1>2. filling \in [Kinds -> [busy : SUBSET Keys, spec : Specs \cup {NoSpec}]]
  BY DEF Init, NotFilling
<1>3. Cardinality(NotFilling.busy) <= 1
  BY FS_EmptySet DEF NotFilling
<1>4. cache \in [Keys -> Entries]
  BY DEF Init, Entries
<1>5. cleaner \in [at : {"idle", "webhooks listed", "all listed", "cleaning", "deleting"},
                   listed : SUBSET Keys, todo : SUBSET Keys]
  BY DEF Init, NotCleaning
<1>6. changes \in 0..MaxChanges /\ fillQueue \subseteq Keys /\ cleanQueue \in BOOLEAN
  BY BoundAssumption DEF Init
<1>7. TypeOK
  BY <1>1, <1>2, <1>3, <1>4, <1>5, <1>6, ZenonT(60) DEF Init, TypeOK, Kinds, NotFilling
<1> QED
  BY <1>1, <1>7 DEF Inv, ReplacedIsClosed, NotFilling

-----------------------------------------------------------------------------
(* Types.                                                                  *)

\* What TypeOK says of the fillers: each builds at most one authenticator, of its kind.
FillersOK ==
  /\ filling \in [Kinds -> [busy : SUBSET Keys, spec : Specs \cup {NoSpec}]]
  /\ \A kind \in Kinds : filling[kind].busy \subseteq KeysOf(kind) /\ Cardinality(filling[kind].busy) <= 1
  /\ \A kind \in Kinds : filling[kind].busy # {} => filling[kind].spec \in Specs

\* A filler that takes up a resource that exists, or is done, leaves the fillers typed.
LEMMA FillersTyped ==
  ASSUME TypeOK, NEW kind \in Kinds,
         NEW f, f = NotFilling \/ \E k \in KeysOf(kind), s \in Specs : f = [busy |-> {k}, spec |-> s],
         filling' = [filling EXCEPT ![kind] = f]
  PROVE  FillersOK'
<1>1. filling \in [Kinds -> [busy : SUBSET Keys, spec : Specs \cup {NoSpec}]]
  BY ZenonT(60) DEF TypeOK
<1>2. KeysOf(kind) \subseteq Keys
  BY DEF KeysOf, Keys
<1>3. f \in [busy : SUBSET Keys, spec : Specs \cup {NoSpec}]
  BY <1>2 DEF NotFilling
<1>4. f.busy \subseteq KeysOf(kind) /\ (f.busy # {} => f.spec \in Specs)
  BY DEF NotFilling
<1>5. f.busy = {} \/ \E k : f.busy = {k}
  BY DEF NotFilling
<1>6. Cardinality(f.busy) <= 1
  <2>1. Cardinality(f.busy) = 0 \/ Cardinality(f.busy) = 1
    BY <1>5, FS_EmptySet, FS_Singleton, ZenonT(60)
  <2> QED
    BY <2>1
<1>7. filling' \in [Kinds -> [busy : SUBSET Keys, spec : Specs \cup {NoSpec}]]
  BY <1>1, <1>3
<1>8. ASSUME NEW other \in Kinds PROVE filling'[other] = IF other = kind THEN f ELSE filling[other]
  BY <1>1
<1>9. ASSUME NEW other \in Kinds
      PROVE  /\ filling'[other].busy \subseteq KeysOf(other) /\ Cardinality(filling'[other].busy) <= 1
             /\ filling'[other].busy # {} => filling'[other].spec \in Specs
  BY <1>4, <1>6, <1>8, ZenonT(60) DEF TypeOK
<1> QED
  BY <1>7, <1>9 DEF FillersOK

\* Closing an entry of the cache leaves an entry.
LEMMA ClosedTyped ==
  ASSUME TypeOK, NEW k \in Keys, cache[k] # Nothing
  PROVE  /\ [cache EXCEPT ![k].closed = TRUE] \in [Keys -> Entries]
         /\ [cache EXCEPT ![k].closed = TRUE][k].closed
<1>1. cache \in [Keys -> Entries]
  BY ZenonT(60) DEF TypeOK
<1>2. cache[k] \in [spec : Specs, closed : BOOLEAN]
  BY <1>1 DEF Entries
<1>3. [cache[k] EXCEPT !.closed = TRUE] \in Entries /\ [cache[k] EXCEPT !.closed = TRUE].closed
  BY <1>2, ZenonT(60) DEF Entries
<1> QED
  BY <1>1, <1>3

\* The cleaner's place after an entry, or after it listed the entries to go.
LEMMA CleanNextTyped ==
  ASSUME TypeOK, NEW todo \in SUBSET Keys
  PROVE  CleanNext(todo) \in [at : {"idle", "webhooks listed", "all listed", "cleaning", "deleting"},
                              listed : SUBSET Keys, todo : SUBSET Keys]
  BY ZenonT(60) DEF TypeOK, CleanNext, NotCleaning

-----------------------------------------------------------------------------
\* No step of an informer, a filler or the cleaner takes the state out of the invariant.
LEMMA InvNext == Inv /\ [Next]_vars => Inv'
<1> SUFFICES ASSUME Inv, [Next]_vars PROVE Inv'
  OBVIOUS
<1>0. TypeOK /\ ReplacedIsClosed /\ FillersOK
  BY ZenonT(60) DEF Inv, TypeOK, FillersOK
<1>k. JWTs \subseteq Keys /\ Webhooks \subseteq Keys /\ KeysOf("jwt") = JWTs
      /\ KeysOf("webhook") = Webhooks /\ "jwt" \in Kinds /\ "webhook" \in Kinds
  BY DEF Keys, KeysOf, Kinds
<1>t. ASSUME NEW S, S = [at : {"idle", "webhooks listed", "all listed", "cleaning", "deleting"},
                         listed : SUBSET Keys, todo : SUBSET Keys],
             known' \in [Keys -> Specs \cup {NoSpec}], cache' \in [Keys -> Entries],
             fillQueue' \subseteq Keys, cleanQueue' \in BOOLEAN, FillersOK', cleaner' \in S,
             changes' \in 0..MaxChanges
      PROVE  TypeOK'
  BY <1>t, ZenonT(60) DEF TypeOK, FillersOK
<1>1. CASE UNCHANGED vars
  BY <1>0, <1>1, ZenonT(60) DEF Inv, TypeOK, ReplacedIsClosed, vars
<1>2. ASSUME NEW k \in Keys, NEW spec \in Specs \cup {NoSpec}, ClusterChange(k, spec) PROVE Inv'
  <2>1. known' \in [Keys -> Specs \cup {NoSpec}]
    BY <1>0, <1>2, ZenonT(60) DEF TypeOK, ClusterChange
  <2>2. changes' \in 0..MaxChanges
    <3>1. changes \in 0..MaxChanges
      BY <1>0, ZenonT(60) DEF TypeOK
    <3>2. changes < MaxChanges /\ changes' = changes + 1
      BY <1>2 DEF ClusterChange
    <3> QED
      BY <3>1, <3>2, BoundAssumption
  <2>3. fillQueue' \subseteq Keys /\ cleanQueue' \in BOOLEAN
    BY <1>0, <1>2, ZenonT(60) DEF TypeOK, ClusterChange, Event
  <2>4. TypeOK'
    BY <1>0, <1>2, <2>1, <2>2, <2>3, ZenonT(60) DEF TypeOK, ClusterChange
  <2> QED
    BY <1>0, <1>2, <2>4 DEF Inv, ReplacedIsClosed, ClusterChange
<1>3. CASE Resync
  <2>1. TypeOK'
    BY <1>0, <1>3, ZenonT(60) DEF TypeOK, Resync
  <2> QED
    BY <1>0, <1>3, <2>1 DEF Inv, ReplacedIsClosed, Resync
<1>4. ASSUME NEW k \in Keys, FillJWT(k) PROVE Inv'
  <2>1. CASE known[k] = NoSpec \/ cache[k].spec = known[k]
    <3>1. fillQueue' \subseteq Keys /\ UNCHANGED <<known, cache, filling, cleanQueue, cleaner, changes>>
      BY <1>0, <1>4, <2>1, ZenonT(60) DEF TypeOK, FillJWT
    <3> QED
      BY <1>0, <3>1, ZenonT(60) DEF Inv, TypeOK, ReplacedIsClosed
  <2>2. CASE ~(known[k] = NoSpec \/ cache[k].spec = known[k])
    <3>1. known[k] \in Specs /\ k \in JWTs
      BY <1>0, <1>4, <2>2, ZenonT(60) DEF TypeOK, FillJWT
    <3>2. filling' = [filling EXCEPT !["jwt"] = [busy |-> {k}, spec |-> known[k]]]
      BY <1>4, <2>2 DEF FillJWT
    <3>3. FillersOK'
      BY <1>0, <1>k, <3>1, <3>2, FillersTyped, ZenonT(60)
    <3>4. cache' = IF cache[k] = Nothing THEN cache ELSE [cache EXCEPT ![k].closed = TRUE]
      BY <1>4, <2>2 DEF FillJWT
    <3>5. cache' \in [Keys -> Entries] /\ (cache'[k] = Nothing \/ cache'[k].closed)
      BY <1>0, <3>4, ClosedTyped, ZenonT(60) DEF TypeOK
    <3>6. TypeOK'
      BY <1>0, <1>4, <3>3, <3>5, <1>t, ZenonT(60) DEF TypeOK, FillJWT
    <3>7. filling'["jwt"].busy = {k}
      BY <1>0, <1>k, <3>2 DEF FillersOK
    <3> QED
      BY <3>5, <3>6, <3>7 DEF Inv, ReplacedIsClosed
  <2> QED
    BY <2>1, <2>2
<1>5. ASSUME NEW k \in Keys, FillWebhook(k) PROVE Inv'
  <2>1. \/ filling' = filling
        \/ /\ filling' = [filling EXCEPT !["webhook"] = [busy |-> {k}, spec |-> known[k]]]
           /\ known[k] \in Specs
    BY <1>0, <1>5, ZenonT(60) DEF FillWebhook, TypeOK
  <2>2. FillersOK'
    <3>1. CASE filling' = filling
      BY <1>0, <3>1 DEF FillersOK
    <3>2. CASE filling' # filling
      <4>1. k \in KeysOf("webhook")
        BY <1>5, <1>k DEF FillWebhook
      <4> QED
        BY <1>0, <1>k, <2>1, <3>2, <4>1, FillersTyped
    <3> QED
      BY <3>1, <3>2
  <2>3. filling'["jwt"] = filling["jwt"]
    BY <1>0, <1>k, <2>1 DEF FillersOK
  <2>4. TypeOK'
    BY <1>0, <1>5, <2>2, <1>t, ZenonT(60) DEF TypeOK, FillWebhook
  <2> QED
    BY <1>0, <1>5, <2>3, <2>4 DEF Inv, ReplacedIsClosed, FillWebhook
<1>6. ASSUME NEW kind \in Kinds, NEW k \in Keys, Built(kind, k) PROVE Inv'
  <2>1. filling' = [filling EXCEPT ![kind] = NotFilling]
    BY <1>6 DEF Built
  <2>2. FillersOK'
    BY <1>0, <2>1, FillersTyped, ZenonT(60)
  <2>3. filling[kind].spec \in Specs /\ k \in KeysOf(kind)
    BY <1>0, <1>6 DEF FillersOK, Built
  <2>4. cache' = [cache EXCEPT ![k] = [spec |-> filling[kind].spec, closed |-> FALSE]]
    BY <1>6 DEF Built
  <2>5. cache' \in [Keys -> Entries]
    BY <1>0, <2>3, <2>4, ZenonT(60) DEF TypeOK, Entries
  <2>6. TypeOK'
    BY <1>0, <1>6, <2>2, <2>5, <1>t, ZenonT(60) DEF TypeOK, Built
  <2>7. ASSUME NEW j \in filling'["jwt"].busy PROVE cache'[j] = Nothing \/ cache'[j].closed
    <3>1. kind = "webhook" /\ filling'["jwt"] = filling["jwt"]
      BY <1>0, <1>k, <2>1, <2>7 DEF FillersOK, Kinds, NotFilling
    <3>2. j \in JWTs /\ k \in Webhooks
      BY <1>0, <1>k, <2>3, <2>7, <3>1 DEF FillersOK
    <3>3. cache'[j] = cache[j]
      BY <1>0, <1>k, <2>4, <3>2, KeysAssumption, ZenonT(60) DEF TypeOK
    <3> QED
      BY <1>0, <2>7, <3>1, <3>3 DEF ReplacedIsClosed
  <2> QED
    BY <2>6, <2>7 DEF Inv, ReplacedIsClosed
<1>7. ASSUME NEW kind \in Kinds, NEW k \in Keys, Requeue(kind, k) PROVE Inv'
  <2>1. filling' = [filling EXCEPT ![kind] = NotFilling]
    BY <1>7 DEF Requeue
  <2>2. FillersOK'
    BY <1>0, <2>1, FillersTyped, ZenonT(60)
  <2>3. TypeOK'
    <3>1. fillQueue' \subseteq Keys
      BY <1>0, <1>7, ZenonT(60) DEF TypeOK, Requeue
    <3> QED
      BY <1>0, <1>7, <2>2, <3>1, <1>t, ZenonT(60) DEF TypeOK, Requeue
  <2>4. filling'["jwt"].busy \subseteq filling["jwt"].busy
    BY <1>0, <1>k, <2>1 DEF FillersOK, NotFilling
  <2> QED
    BY <1>0, <1>7, <2>3, <2>4 DEF Inv, ReplacedIsClosed, Requeue
<1>8. CASE ListWebhooks \/ ListJWTs
  <2>1. cleaner' \in [at : {"idle", "webhooks listed", "all listed", "cleaning", "deleting"},
                       listed : SUBSET Keys, todo : SUBSET Keys]
    <3>1. cleaner \in [at : {"idle", "webhooks listed", "all listed", "cleaning", "deleting"},
                       listed : SUBSET Keys, todo : SUBSET Keys]
      BY <1>0, ZenonT(60) DEF TypeOK
    <3>2. {k \in Webhooks : known[k] # NoSpec} \subseteq Keys
      BY <1>k
    <3>3. {k \in JWTs : known[k] # NoSpec} \subseteq Keys
      BY <1>k
    <3>4. CASE ListWebhooks
      BY <3>2, <3>4, ZenonT(60) DEF ListWebhooks
    <3>5. CASE ListJWTs
      BY <3>1, <3>3, <3>5, ZenonT(60) DEF ListJWTs
    <3> QED
      BY <1>8, <3>4, <3>5, ZenonT(60)
  <2>2. UNCHANGED <<known, cache, fillQueue, filling, changes>> /\ cleanQueue' \in BOOLEAN
    BY <1>0, <1>8, ZenonT(60) DEF TypeOK, ListWebhooks, ListJWTs
  <2>3. TypeOK'
    BY <1>0, <2>1, <2>2, ZenonT(60) DEF TypeOK
  <2> QED
    BY <1>0, <2>2, <2>3 DEF Inv, ReplacedIsClosed
<1>9. CASE CacheKeys
  <2>1. TypeOK'
    BY <1>0, <1>9, CleanNextTyped, ZenonT(60) DEF TypeOK, CacheKeys
  <2> QED
    BY <1>0, <1>9, <2>1, ZenonT(60) DEF Inv, ReplacedIsClosed, CacheKeys
<1>10. ASSUME NEW k \in Keys, CleanClose(k) PROVE Inv'
  <2>1. \/ cache' = cache
        \/ cache' = [cache EXCEPT ![k].closed = TRUE] /\ cache[k] # Nothing
    BY <1>10 DEF CleanClose
  <2>2. cache' \in [Keys -> Entries]
    BY <1>0, <2>1, ClosedTyped, ZenonT(60) DEF TypeOK
  <2>3. TypeOK'
    BY <1>0, <1>10, <2>2, ZenonT(60) DEF TypeOK, CleanClose
  <2>4. ASSUME NEW j \in Keys, cache[j] = Nothing \/ cache[j].closed
        PROVE  cache'[j] = Nothing \/ cache'[j].closed
    <3>1. CASE j = k
      BY <2>1, <2>4, <3>1, <1>0, ClosedTyped, ZenonT(60)
    <3>2. CASE j # k
      BY <1>0, <2>1, <2>4, <3>2, ZenonT(60) DEF TypeOK
    <3> QED
      BY <3>1, <3>2
  <2> QED
    BY <1>0, <1>10, <1>k, <2>3, <2>4 DEF Inv, ReplacedIsClosed, CleanClose, FillersOK
<1>11. ASSUME NEW k \in Keys, CleanDelete(k) PROVE Inv'
  <2>1. cache' = [cache EXCEPT ![k] = Nothing]
    BY <1>11 DEF CleanDelete
  <2>2. TypeOK'
    <3>1. cache' \in [Keys -> Entries]
      BY <1>0, <2>1, ZenonT(60) DEF TypeOK, Entries
    <3>2. cleaner.todo \ {k} \in SUBSET Keys
      BY <1>0, ZenonT(60) DEF TypeOK
    <3> QED
      BY <1>0, <1>11, <3>1, <3>2, CleanNextTyped, ZenonT(60) DEF TypeOK, CleanDelete
  <2>3. ASSUME NEW j \in Keys PROVE cache'[j] = Nothing \/ cache'[j] = cache[j]
    BY <1>0, <2>1, ZenonT(60) DEF TypeOK
  <2> QED
    BY <1>0, <1>11, <1>k, <2>2, <2>3 DEF Inv, ReplacedIsClosed, CleanDelete, FillersOK
<1> QED
  BY <1>1, <1>2, <1>3, <1>4, <1>5, <1>6, <1>7, <1>8, <1>9, <1>10, <1>11, <1>k DEF Next, Filler,
    Cleaner, NewJWTAuthenticatorFails, NewWebhookAuthenticatorFails

\* The invariant holds in every behaviour.
THEOREM InvAlways == Spec => []Inv
  BY InvInit, InvNext, PTL DEF Spec

\* Type correctness, for any resources: each filler builds one authenticator at a time, of
\* its kind and from a spec, and what the cache holds was built from a spec.
THEOREM TypeCorrect == Spec => []TypeOK
<1>1. Inv => TypeOK
  BY DEF Inv
<1> QED
  BY <1>1, InvAlways, PTL

\* The JWT filler never stores over an open authenticator, whatever the cleaner and the
\* other filler do between its Close and its Store.
THEOREM ReplacedWasClosed == Spec => NoOpenAuthenticatorReplaced
<1>1. Inv => \A k \in JWTs : Built("jwt", k) => cache[k] = Nothing \/ cache[k].closed
  BY DEF Inv, ReplacedIsClosed, Built
<1>2. Inv /\ [Next]_vars
      => [\A k \in JWTs : Built("jwt", k) => cache[k] = Nothing \/ cache[k].closed]_vars
  BY <1>1
<1> QED
  BY <1>2, InvAlways, PTL DEF Spec, NoOpenAuthenticatorReplaced


-----------------------------------------------------------------------------
(* Nothing stale is left at rest.                                          *)

\* What a filler builds is of its kind, so that no key is built twice.
LEMMA OneFiller ==
  ASSUME TypeOK, NEW kind \in Kinds, NEW other \in Kinds, NEW k \in filling[kind].busy, k \in filling[other].busy
  PROVE  kind = other
<1>1. k \in KeysOf(kind) /\ k \in KeysOf(other)
  BY ZenonT(60) DEF TypeOK
<1> QED
  BY <1>1, KeysAssumption DEF KeysOf, Kinds

\* A step of a filler: it takes up a key, or is done with it.
LEMMA FillerIs ==
  ASSUME TypeOK, NEW kind \in Kinds, NEW f, filling' = [filling EXCEPT ![kind] = f]
  PROVE  filling'[kind] = f /\ \A other \in Kinds \ {kind} : filling'[other] = filling[other]
<1>1. DOMAIN filling = Kinds
  BY ZenonT(60) DEF TypeOK
<1> QED
  BY <1>1

\* Closing an entry keeps its spec, and the other entries.
LEMMA ClosedSpec ==
  ASSUME TypeOK, NEW k \in Keys,
         cache' = cache \/ (cache[k] # Nothing /\ cache' = [cache EXCEPT ![k].closed = TRUE])
  PROVE  \A j \in Keys : cache'[j].spec = cache[j].spec /\ (j # k => cache'[j] = cache[j])
<1>1. cache \in [Keys -> Entries]
  BY ZenonT(60) DEF TypeOK
<1>2. CASE cache[k] # Nothing /\ cache' = [cache EXCEPT ![k].closed = TRUE]
  <2>1. cache[k] \in [spec : Specs, closed : BOOLEAN]
    BY <1>1, <1>2 DEF Entries
  <2>2. [cache[k] EXCEPT !.closed = TRUE].spec = cache[k].spec
    BY <2>1
  <2> QED
    BY <1>1, <1>2, <2>2
<1> QED
  BY <1>2

\* A key that no filler works on stays as it is when another one is worked on.
LEMMA OthersFresh ==
  ASSUME TypeOK, OneWorker, NEW kind \in Kinds, NEW k \in Keys, NEW j \in Keys \ {k}, Fresh(j),
         known' = known, cache'[j] = cache[j], fillQueue \ {k} \subseteq fillQueue',
         filling[kind] = NotFilling \/ k \in filling[kind].busy,
         filling'[kind].busy \subseteq {k}, \A other \in Kinds \ {kind} : filling'[other] = filling[other]
  PROVE  Fresh(j)'
<1>1. j \notin filling[kind].busy /\ j \notin filling'[kind].busy
  BY DEF OneWorker, NotFilling
<1> QED
  BY <1>1 DEF Fresh

\* A step of the cleaner deletes entries, or closes them; it never changes a spec.
LEMMA CleanerFresh ==
  ASSUME FreshOK, UNCHANGED <<known, fillQueue, filling>>,
         \A k \in Keys : cache'[k].spec \in {cache[k].spec, NoSpec}
  PROVE  FreshOK'
<1>1. OneWorker'
  BY DEF FreshOK, OneWorker
<1>2. ASSUME NEW k \in Keys PROVE Fresh(k)'
  BY <1>2 DEF FreshOK, Fresh
<1> QED
  BY <1>1, <1>2 DEF FreshOK

\* Every step of an informer, a filler or the cleaner leaves each resource fresh.
LEMMA FreshNext == Inv /\ FreshOK /\ [Next]_vars => FreshOK'
<1> SUFFICES ASSUME Inv, FreshOK, [Next]_vars PROVE FreshOK'
  OBVIOUS
<1>0. TypeOK /\ OneWorker /\ \A k \in Keys : Fresh(k)
  BY DEF Inv, FreshOK
<1>k. /\ "jwt" \in Kinds /\ "webhook" \in Kinds /\ \A kind \in Kinds : kind = "jwt" \/ kind = "webhook"
      /\ DOMAIN cache = Keys /\ DOMAIN known = Keys
  BY <1>0, ZenonT(60) DEF Kinds, TypeOK
<1>1. CASE UNCHANGED vars
  BY <1>0, <1>1, CleanerFresh DEF vars
<1>2. ASSUME NEW k \in Keys, NEW spec, ClusterChange(k, spec) PROVE FreshOK'
  <2>1. fillQueue' = fillQueue \cup {k} /\ cache' = cache /\ filling' = filling
        /\ \A j \in Keys \ {k} : known'[j] = known[j]
    BY <1>2, <1>k DEF ClusterChange, Event
  <2>2. ASSUME NEW j \in Keys PROVE Fresh(j)'
    BY <1>0, <2>1 DEF Fresh
  <2> QED
    BY <1>0, <2>1, <2>2 DEF FreshOK, OneWorker
<1>3. CASE Resync
  <2>1. fillQueue \subseteq fillQueue' /\ UNCHANGED <<known, cache, filling>>
    BY <1>3 DEF Resync
  <2> QED
    BY <1>0, <2>1 DEF FreshOK, OneWorker, Fresh
<1>4. ASSUME NEW kind \in Kinds, NEW k \in KeysOf(kind) \cap Keys, filling[kind] = NotFilling,
             fillQueue' = fillQueue \ {k}, known' = known,
             \A j \in Keys : cache'[j].spec = cache[j].spec /\ (j # k => cache'[j] = cache[j]),
             \/ filling' = filling /\ (known[k] = NoSpec \/ cache[k].spec = known[k])
             \/ filling' = [filling EXCEPT ![kind] = [busy |-> {k}, spec |-> known[k]]]
      PROVE  FreshOK'
  <2>1. \A other \in Kinds : k \notin filling[other].busy
    <3> SUFFICES ASSUME NEW other \in Kinds, k \in filling[other].busy PROVE FALSE
      OBVIOUS
    <3>1. k \in KeysOf(other)
      BY <1>0, ZenonT(60) DEF TypeOK
    <3>2. kind = other
      BY <1>4, <1>k, <3>1, KeysAssumption DEF KeysOf
    <3> QED
      BY <1>4, <3>2 DEF NotFilling
  <2>2. /\ filling' = filling \/ filling'[kind] = [busy |-> {k}, spec |-> known[k]]
        /\ \A other \in Kinds \ {kind} : filling'[other] = filling[other]
    <3>1. CASE filling' = filling
      BY <3>1
    <3>2. CASE filling' = [filling EXCEPT ![kind] = [busy |-> {k}, spec |-> known[k]]]
      BY <1>0, <3>2, FillerIs, ZenonT(60)
    <3> QED
      BY <1>4, <3>1, <3>2
  <2>3. filling'[kind].busy \subseteq {k}
    BY <1>4, <2>2 DEF NotFilling
  <2>4. OneWorker'
    BY <1>0, <2>2, <2>3 DEF OneWorker
  <2>5. ASSUME NEW j \in Keys \ {k} PROVE Fresh(j)'
    BY <1>0, <1>4, <2>2, <2>3, OthersFresh
  <2>6. Fresh(k)'
    <3>1. CASE filling' = filling /\ (known[k] = NoSpec \/ cache[k].spec = known[k])
      BY <1>4, <2>1, <3>1 DEF Fresh
    <3>2. CASE filling' = [filling EXCEPT ![kind] = [busy |-> {k}, spec |-> known[k]]]
      <4>1. filling'[kind] = [busy |-> {k}, spec |-> known[k]]
        BY <1>0, <3>2, FillerIs, ZenonT(60)
      <4> QED
        BY <1>4, <4>1 DEF Fresh
    <3> QED
      BY <1>4, <3>1, <3>2
  <2> QED
    BY <2>4, <2>5, <2>6 DEF FreshOK
<1>5. ASSUME NEW k \in Keys, FillJWT(k) PROVE FreshOK'
  <2>1. /\ k \in KeysOf("jwt") \cap Keys /\ filling["jwt"] = NotFilling
        /\ fillQueue' = fillQueue \ {k} /\ known' = known
    BY <1>5 DEF FillJWT, KeysOf
  <2>2. cache' = cache \/ (cache[k] # Nothing /\ cache' = [cache EXCEPT ![k].closed = TRUE])
    BY <1>5 DEF FillJWT
  <2>3. \A j \in Keys : cache'[j].spec = cache[j].spec /\ (j # k => cache'[j] = cache[j])
    BY <1>0, <2>2, ClosedSpec
  <2> QED
    BY <1>4, <1>5, <1>k, <2>1, <2>3 DEF FillJWT
<1>6. ASSUME NEW k \in Keys, FillWebhook(k) PROVE FreshOK'
  <2>1. /\ k \in KeysOf("webhook") \cap Keys /\ filling["webhook"] = NotFilling
        /\ fillQueue' = fillQueue \ {k} /\ known' = known /\ cache' = cache
        /\ \/ filling' = filling /\ known[k] = NoSpec
           \/ filling' = [filling EXCEPT !["webhook"] = [busy |-> {k}, spec |-> known[k]]]
    BY <1>6 DEF FillWebhook, KeysOf
  <2> QED
    BY <1>4, <1>k, <2>1
<1>7. ASSUME NEW kind \in Kinds, NEW k \in Keys, Built(kind, k) \/ Requeue(kind, k) PROVE FreshOK'
  <2>1. /\ k \in filling[kind].busy /\ known' = known /\ fillQueue \subseteq fillQueue'
        /\ filling' = [filling EXCEPT ![kind] = NotFilling]
        /\ \/ cache' = [cache EXCEPT ![k] = [spec |-> filling[kind].spec, closed |-> FALSE]]
           \/ k \in fillQueue' /\ cache' = cache
    BY <1>7 DEF Built, Requeue
  <2>2. filling'[kind] = NotFilling /\ \A other \in Kinds \ {kind} : filling'[other] = filling[other]
    BY <1>0, <2>1, FillerIs, ZenonT(60)
  <2>3. OneWorker'
    BY <1>0, <2>2 DEF OneWorker, NotFilling
  <2>4. ASSUME NEW j \in Keys \ {k} PROVE Fresh(j)'
    <3>1. cache'[j] = cache[j]
      BY <1>k, <2>1
    <3>2. filling'[kind].busy \subseteq {k}
      BY <2>2 DEF NotFilling
    <3> QED
      BY <1>0, <2>1, <2>2, <3>1, <3>2, OthersFresh
  <2>5. Fresh(k)'
    <3>1. \A other \in Kinds : k \notin filling'[other].busy /\ (other # kind => k \notin filling[other].busy)
      BY <1>0, <2>1, <2>2, OneFiller DEF NotFilling
    <3>2. k \in fillQueue' \/ cache'[k].spec = filling[kind].spec
      BY <1>k, <2>1
    <3>3. known[k] = NoSpec \/ k \in fillQueue \/ filling[kind].spec = known[k]
      BY <1>0, <2>1, <3>1 DEF Fresh
    <3> QED
      BY <2>1, <3>1, <3>2, <3>3 DEF Fresh
  <2> QED
    BY <2>3, <2>4, <2>5 DEF FreshOK
<1>8. CASE ListWebhooks \/ ListJWTs \/ CacheKeys
  BY <1>0, <1>8, CleanerFresh, ZenonT(60) DEF ListWebhooks, ListJWTs, CacheKeys
<1>9. ASSUME NEW k \in Keys, CleanClose(k) PROVE FreshOK'
  <2>1. cache' = cache \/ (cache[k] # Nothing /\ cache' = [cache EXCEPT ![k].closed = TRUE])
    BY <1>9 DEF CleanClose
  <2>2. \A j \in Keys : cache'[j].spec = cache[j].spec
    BY <1>0, <2>1, ClosedSpec
  <2> QED
    BY <1>9, <2>2, CleanerFresh DEF CleanClose
<1>10. ASSUME NEW k \in Keys, CleanDelete(k) PROVE FreshOK'
  <2>1. \A j \in Keys : cache'[j] = IF j = k THEN Nothing ELSE cache[j]
    BY <1>10, <1>k DEF CleanDelete
  <2> QED
    BY <1>10, <2>1, CleanerFresh DEF CleanDelete, Nothing
<1> QED
  BY <1>1, <1>2, <1>3, <1>5, <1>6, <1>7, <1>8, <1>9, <1>10, <1>k DEF Next, Filler,
    Cleaner, NewJWTAuthenticatorFails, NewWebhookAuthenticatorFails

\* No authenticator of an old spec is left in the cache without the filler being about to
\* replace it, for any resources and any interleaving of the fillers and the cleaner.
THEOREM RestMeansFresh == Spec => []NothingStale
<1>1. Init => FreshOK
  <2> SUFFICES ASSUME Init PROVE FreshOK
    OBVIOUS
  <2>1. \A kind \in Kinds : filling[kind] = NotFilling
    BY DEF Init
  <2> QED
    BY <2>1 DEF Init, FreshOK, OneWorker, Fresh, NotFilling, Nothing
<1>2. FreshOK => NothingStale
  BY DEF FreshOK, Fresh, NothingStale
<1> QED
  BY <1>1, <1>2, FreshNext, InvAlways, PTL DEF Spec
=============================================================================
