------------------------- MODULE IssuerSecretsProofs -------------------------
(***************************************************************************)
(* Proofs about IssuerSecrets for any number of pods, FederationDomains,   *)
(* issuers, uses, readers and keys.  The invariant Inv adds to the types   *)
(* that an update that would not meet a conflict is due (FreshIsInvalid),  *)
(* and follows a key on its way from the cluster through the informers and *)
(* the controllers into the cells of the cache (the ...WereStored).  What  *)
(* a controller at rest has done (KnownIsNamed) is proved on top of it.    *)
(***************************************************************************)
EXTENDS IssuerSecrets, TLAPS

\* The provers of a leaf that names none, with time to spare on a busy machine.
USE SMTT(30), ZenonT(60)

\* Pods start with empty caches, and have seen only Secrets that are stored.
LEMMA InvInit == Init => Inv
<1> SUFFICES ASSUME Init PROVE Inv
  OBVIOUS
<1> DEFINE key == CHOOSE f \in DifferentKeys : TRUE
           present == (start.keyed \cup start.emptied) \X Usages
<1>0. /\ start.keyed \subseteq Domains /\ start.emptied \subseteq Domains /\ start.spent \in 0..MaxChanges
  BY StartAssumption DEF Init, StartValues
<1>1. key \in [Secrets -> Keys] /\ present \subseteq Secrets
  BY <1>0, OldKeysAssumption DEF DifferentKeys, Secrets
<1>2. secret = [s \in Secrets |->
                  IF s \in present
                  THEN [exists |-> TRUE, key |-> IF s[1] \in start.keyed THEN key[s] ELSE NoKey, owned |-> TRUE]
                  ELSE NoSecret]
  BY DEF Init
<1>3. stored = {key[s] : s \in present}
  BY DEF Init
<1> HIDE DEF key, present
<1>4. stored \subseteq Keys
  BY <1>1, <1>3
<1>5. \A s \in Secrets : secret[s] \in SecretValues /\ secret[s].key \in stored \cup {NoKey}
                         /\ (secret[s].exists \/ secret[s] = NoSecret)
  BY <1>1, <1>2, <1>3 DEF SecretValues, NoSecret
<1>6. secret \in [Secrets -> SecretValues]
  BY <1>2, <1>5
<1>7. start.keyed \X Usages \subseteq Secrets
  BY <1>0 DEF Secrets
<1>8. Idle \in Syncs
  BY DEF Idle, Syncs, Steps, States
<1>9. TypeOK
  <2>1. issuer \in [Domains -> States] /\ named \subseteq Secrets
    BY <1>7 DEF Init, States
  <2>2. seenIssuer \in [Pods -> [Domains -> States]] /\ seenSecret \in [Pods -> [Secrets -> SecretValues]]
    BY <1>6, <2>1, ZenonT(60) DEF Init
  <2>3. queue \in [Controllers -> SUBSET Domains] /\ worker \in [Controllers -> Syncs]
    BY <1>8 DEF Init
  <2>5. map \in [Pods -> [Issuers -> Cells \cup {NoCell}]]
    BY DEF Init, NoMap
  <2>6. cell \in [Places -> Keys \cup {NoKey}]
    BY DEF Init
  <2>7. reading \in [Pods -> [Issuers -> SUBSET Readers]] /\ changes \in 0..MaxChanges
    BY <1>0 DEF Init
  <2> QED
    BY <1>4, <1>6, <2>1, <2>2, <2>3, <2>5, <2>6, <2>7 DEF TypeOK
<1>10. AbsentIsEmpty /\ SecretsWereStored /\ SeenWereStored
  BY <1>5, ZenonT(60) DEF Init, AbsentIsEmpty, SecretsWereStored, SeenWereStored
<1>11. FreshIsInvalid /\ ObservedWereStored
  BY DEF Init, FreshIsInvalid, ObservedWereStored, Idle
<1>12. CellsWereStored
  BY DEF Init, CellsWereStored
<1> QED
  BY <1>9, <1>10, <1>11, <1>12 DEF Inv

\* A Sync that has begun works on a Secret.
LEMMA SecretOfLemma ==
  ASSUME TypeOK, NEW w \in Controllers, worker[w].at # "idle"
  PROVE  SecretOf(w) \in Secrets /\ worker[w].domain \in Domains /\ w[1] \in Pods /\ w[2] \in Usages
  BY DEF TypeOK, SecretOf, Secrets, Controllers, Syncs

\* A Secret that is written keeps the Syncs well-formed, and leaves none of them fresh.
LEMMA WrittenLemma ==
  ASSUME TypeOK, NEW s \in Secrets
  PROVE  /\ Written(s) \in [Controllers -> Syncs]
         /\ \A w \in Controllers :
              /\ Written(s)[w].at = worker[w].at /\ Written(s)[w].domain = worker[w].domain
              /\ Written(s)[w].key = worker[w].key /\ Written(s)[w].issuer = worker[w].issuer
              /\ Written(s)[w].cell = worker[w].cell
              /\ Written(s)[w].fresh => worker[w].fresh /\ <<worker[w].domain, w[2]>> # s
<1> SUFFICES ASSUME NEW w \in Controllers
             PROVE  /\ Written(s)[w] \in Syncs
                    /\ Written(s)[w].at = worker[w].at /\ Written(s)[w].domain = worker[w].domain
                    /\ Written(s)[w].key = worker[w].key /\ Written(s)[w].issuer = worker[w].issuer
                    /\ Written(s)[w].cell = worker[w].cell
                    /\ Written(s)[w].fresh => worker[w].fresh /\ <<worker[w].domain, w[2]>> # s
  BY DEF Written
<1>1. worker[w] \in Syncs
  BY DEF TypeOK
<1>2. CASE w[2] = s[2] /\ s[1] = worker[w].domain
  <2>1. Written(s)[w] = [worker[w] EXCEPT !.fresh = FALSE]
    BY <1>2 DEF Written
  <2> QED
    BY <1>1, <2>1, ZenonT(60) DEF Syncs
<1>3. CASE ~(w[2] = s[2] /\ s[1] = worker[w].domain)
  <2>1. Written(s)[w] = worker[w]
    BY <1>3 DEF Written
  <2>2. <<worker[w].domain, w[2]>> # s
    BY <1>3
  <2> QED
    BY <1>1, <2>1, <2>2
<1> QED
  BY <1>2, <1>3

\* A step of one Sync that leaves the cluster alone keeps the invariant if what the Sync
\* becomes does.
LEMMA WorkerLemma ==
  ASSUME Inv, NEW w \in Controllers, NEW x \in Syncs,
         worker' = [worker EXCEPT ![w] = x],
         x.fresh => x.at = "update" /\ FoundInvalid(secret[<<x.domain, w[2]>>]),
         x.at \in {"load", "publish", "set"} => x.key \in stored,
         UNCHANGED <<secret, stored>>
  PROVE  worker' \in [Controllers -> Syncs] /\ FreshIsInvalid' /\ ObservedWereStored'
<1>1. worker' \in [Controllers -> Syncs]
  BY DEF Inv, TypeOK
<1>2. \A v \in Controllers : worker'[v] = IF v = w THEN x ELSE worker[v]
  BY DEF Inv, TypeOK
<1>3. FreshIsInvalid'
  BY <1>2 DEF Inv, FreshIsInvalid, SecretOf, FoundInvalid, IsValid
<1>4. ObservedWereStored'
  BY <1>2 DEF Inv, ObservedWereStored
<1> QED
  BY <1>1, <1>3, <1>4

\* So does a controller that writes its key to the Secret and goes on to observe it.
LEMMA WriteLemma ==
  ASSUME Inv, NEW w \in Controllers, NEW x \in Syncs, NEW v \in SecretValues,
         worker[w].at \in {"create", "update"},
         worker' = [Written(SecretOf(w)) EXCEPT ![w] = x],
         x.at = "load", ~x.fresh, x.key = worker[w].key,
         secret' = [secret EXCEPT ![SecretOf(w)] = v],
         v.exists, v.key = worker[w].key,
         stored' = stored \cup {worker[w].key},
         UNCHANGED <<issuer, named, seenIssuer, seenSecret, queue, map, cell, reading, changes>>
  PROVE  Inv'
<1> DEFINE s == SecretOf(w)
<1>a. TypeOK
  BY DEF Inv
<1>1. s \in Secrets
  BY <1>a, SecretOfLemma
<1> HIDE DEF s
<1>2. worker[w].key \in Keys
  BY <1>a DEF TypeOK, Syncs
<1>3. Written(s) \in [Controllers -> Syncs]
  BY <1>a, <1>1, WrittenLemma
<1>b. \A u \in Controllers :
        /\ Written(s)[u].at = worker[u].at /\ Written(s)[u].domain = worker[u].domain
        /\ Written(s)[u].key = worker[u].key
        /\ Written(s)[u].fresh => worker[u].fresh /\ <<worker[u].domain, u[2]>> # s
  BY <1>a, <1>1, WrittenLemma, ZenonT(60)
<1>4. \A u \in Controllers : worker'[u] = IF u = w THEN x ELSE Written(s)[u]
  BY <1>3 DEF s
<1>5. worker' \in [Controllers -> Syncs]
  BY <1>3 DEF s
<1>6. secret' \in [Secrets -> SecretValues] /\ \A t \in Secrets : secret'[t] = IF t = s THEN v ELSE secret[t]
  BY <1>a, <1>1 DEF TypeOK, s
<1>7. TypeOK'
  BY <1>a, <1>2, <1>5, <1>6 DEF TypeOK
<1>8. AbsentIsEmpty' /\ SecretsWereStored'
  BY <1>6 DEF Inv, AbsentIsEmpty, SecretsWereStored
<1>9. FreshIsInvalid'
  <2> SUFFICES ASSUME NEW u \in Controllers, worker'[u].fresh
               PROVE  worker'[u].at = "update" /\ FoundInvalid(secret'[<<worker'[u].domain, u[2]>>])
    BY ZenonT(60) DEF FreshIsInvalid, SecretOf, FoundInvalid, IsValid
  <2>1. /\ worker[u].fresh /\ <<worker[u].domain, u[2]>> # s
        /\ worker'[u].at = worker[u].at /\ worker'[u].domain = worker[u].domain
    <3>1. u # w
      BY <1>4
    <3>2. worker'[u] = Written(s)[u]
      BY <1>4, <3>1
    <3> QED
      BY <1>b, <3>2
  <2>2. worker[u].at = "update" /\ FoundInvalid(secret[<<worker[u].domain, u[2]>>])
    BY <2>1 DEF Inv, FreshIsInvalid, SecretOf
  <2>3. <<worker[u].domain, u[2]>> \in Secrets
    BY <1>a, <2>2, SecretOfLemma DEF SecretOf
  <2> QED
    BY <1>6, <2>1, <2>2, <2>3
<1>10. ObservedWereStored'
  <2> SUFFICES ASSUME NEW u \in Controllers, worker'[u].at \in {"load", "publish", "set"}
               PROVE  worker'[u].key \in stored'
    BY DEF ObservedWereStored
  <2>1. CASE u = w
    BY <1>4, <2>1
  <2>2. CASE u # w
    <3>1. worker'[u] = Written(s)[u]
      BY <1>4, <2>2
    <3>2. worker'[u].at = worker[u].at /\ worker'[u].key = worker[u].key
      BY <1>b, <3>1
    <3>3. worker[u].at \in {"load", "publish", "set"}
      BY <3>2
    <3>4. worker[u].key \in stored
      BY <3>3, ZenonT(60) DEF Inv, ObservedWereStored
    <3> QED
      BY <3>2, <3>4
  <2> QED
    BY <2>1, <2>2
<1>11. SeenWereStored' /\ CellsWereStored'
  BY DEF Inv, SeenWereStored, CellsWereStored
<1> QED
  BY <1>7, <1>8, <1>9, <1>10, <1>11 DEF Inv

\* No step of a pod, a request or a user takes the state out of the invariant.
LEMMA InvNext == Inv /\ [Next]_vars => Inv'
<1> SUFFICES ASSUME Inv, [Next]_vars PROVE Inv'
  OBVIOUS
<1>a. TypeOK
  BY DEF Inv
<1>i. Idle \in Syncs
  BY DEF Idle, Syncs, Steps, States
<1>1. CASE UNCHANGED vars
  BY <1>1, ZenonT(60) DEF vars, Inv, TypeOK, AbsentIsEmpty, FreshIsInvalid, SecretsWereStored, SeenWereStored,
    ObservedWereStored, CellsWereStored, SecretOf, FoundInvalid, IsValid
<1>2. ASSUME NEW d \in Domains, NEW i \in States, ChangeDomain(d, i) PROVE Inv'
  <2>1. TypeOK'
    BY <1>2, BoundAssumption DEF Inv, TypeOK, ChangeDomain, Change, podVars, cacheVars
  <2>2. UNCHANGED <<secret, stored, seenSecret, worker, cell>>
    BY <1>2 DEF ChangeDomain, podVars, cacheVars
  <2> QED
    BY <2>1, <2>2 DEF Inv, AbsentIsEmpty, FreshIsInvalid, SecretsWereStored, SeenWereStored,
      ObservedWereStored, CellsWereStored, SecretOf, FoundInvalid, IsValid
<1>3. ASSUME NEW s \in Secrets, NEW to \in SecretValues, ChangeSecret(s, to) PROVE Inv'
  <2>1. worker' = Written(s) /\ secret' = [secret EXCEPT ![s] = to]
    BY <1>3 DEF ChangeSecret
  <2>2. UNCHANGED <<issuer, named, stored, seenIssuer, seenSecret, queue, map, cell, reading>>
    BY <1>3 DEF ChangeSecret, podVars, cacheVars
  <2>3. changes' \in 0..MaxChanges
    BY <1>3, BoundAssumption DEF ChangeSecret, Change, Inv, TypeOK
  <2>4. TypeOK'
    BY <1>a, <2>1, <2>2, <2>3, WrittenLemma DEF TypeOK
  <2>5. AbsentIsEmpty'
    BY <1>3, <1>a, <2>1 DEF Inv, TypeOK, AbsentIsEmpty, ChangeSecret, SecretValues
  <2>6. \A w \in Controllers : worker'[w].fresh =>
          worker[w].fresh /\ worker'[w].at = worker[w].at /\ worker'[w].domain = worker[w].domain
          /\ <<worker[w].domain, w[2]>> # s
    BY <1>a, <2>1, WrittenLemma
  <2>7. FreshIsInvalid'
    <3> SUFFICES ASSUME NEW w \in Controllers, worker'[w].fresh
                 PROVE  worker'[w].at = "update" /\ FoundInvalid(secret'[<<worker'[w].domain, w[2]>>])
      BY DEF FreshIsInvalid, SecretOf, FoundInvalid, IsValid
    <3>1. worker[w].at = "update" /\ FoundInvalid(secret[<<worker[w].domain, w[2]>>])
      BY <2>6 DEF Inv, FreshIsInvalid, SecretOf
    <3>2. <<worker[w].domain, w[2]>> \in Secrets
      BY <1>a, <3>1, SecretOfLemma DEF SecretOf
    <3>3. secret'[<<worker[w].domain, w[2]>>] = secret[<<worker[w].domain, w[2]>>]
      BY <1>a, <2>1, <2>6, <3>2 DEF TypeOK
    <3> QED
      BY <2>6, <3>1, <3>3
  <2>8. SecretsWereStored'
    <3>1. to.key \in {NoKey, secret[s].key}
      BY <1>3, <1>a DEF TypeOK, SecretValues, ChangeSecret, NoSecret
    <3> QED
      BY <1>a, <2>1, <2>2, <3>1 DEF Inv, TypeOK, SecretsWereStored
  <2>9. ObservedWereStored'
    <3>1. \A w \in Controllers : worker'[w].at = worker[w].at /\ worker'[w].key = worker[w].key
      BY <1>a, <2>1, WrittenLemma
    <3> QED
      BY <2>2, <3>1 DEF Inv, ObservedWereStored
  <2> QED
    BY <2>2, <2>4, <2>5, <2>7, <2>8, <2>9 DEF Inv, SeenWereStored, CellsWereStored
<1>4. ASSUME NEW p \in Pods, NEW d \in Domains, DomainEvent(p, d) PROVE Inv'
  <2>1. UNCHANGED <<issuer, secret, named, stored, seenSecret, worker, map, cell, reading, changes>>
    BY <1>4 DEF DomainEvent, clusterVars, cacheVars
  <2>2. TypeOK'
    BY <1>4, <2>1 DEF Inv, TypeOK, DomainEvent, Controllers
  <2> QED
    BY <2>1, <2>2 DEF Inv, AbsentIsEmpty, FreshIsInvalid, SecretsWereStored, SeenWereStored,
      ObservedWereStored, CellsWereStored, SecretOf, FoundInvalid, IsValid
<1>5. ASSUME NEW p \in Pods, NEW s \in Secrets, SecretEvent(p, s) PROVE Inv'
  <2>1. UNCHANGED <<issuer, secret, named, stored, seenIssuer, worker, map, cell, reading, changes>>
    BY <1>5 DEF SecretEvent, clusterVars, cacheVars
  <2>2. seenSecret' \in [Pods -> [Secrets -> SecretValues]]
    BY <1>5 DEF Inv, TypeOK, SecretEvent
  <2>3. queue' \in [Controllers -> SUBSET Domains]
    BY <1>5 DEF Inv, TypeOK, SecretEvent, Controllers, Secrets
  <2>4. SeenWereStored'
    BY <1>5, <2>1 DEF Inv, TypeOK, SecretEvent, SeenWereStored, SecretsWereStored
  <2> QED
    BY <2>1, <2>2, <2>3, <2>4, ZenonT(60) DEF Inv, TypeOK, AbsentIsEmpty, FreshIsInvalid, SecretsWereStored,
      ObservedWereStored, CellsWereStored, SecretOf, FoundInvalid, IsValid
<1>6. ASSUME NEW p \in Pods, Resync(p) PROVE Inv'
  <2>1. UNCHANGED <<issuer, secret, named, stored, seenIssuer, seenSecret, worker, map, cell, reading, changes>>
    BY <1>6, ZenonT(60) DEF Resync, clusterVars, podVars, cacheVars
  <2>2. queue' \in [Controllers -> SUBSET Domains]
    BY <1>6 DEF Inv, TypeOK, Resync
  <2> QED
    BY <2>1, <2>2, ZenonT(60) DEF Inv, TypeOK, AbsentIsEmpty, FreshIsInvalid, SecretsWereStored, SeenWereStored,
      ObservedWereStored, CellsWereStored, SecretOf, FoundInvalid, IsValid
<1>7. ASSUME NEW p \in Pods, Restart(p) PROVE Inv'
  <2>1. UNCHANGED <<issuer, secret, named, stored>>
    BY <1>7, ZenonT(60) DEF Restart, clusterVars
  <2>2. seenIssuer' \in [Pods -> [Domains -> States]] /\ seenSecret' \in [Pods -> [Secrets -> SecretValues]]
    BY <1>7, ZenonT(60) DEF Inv, TypeOK, Restart
  <2>3. queue' \in [Controllers -> SUBSET Domains] /\ worker' \in [Controllers -> Syncs]
    BY <1>7, <1>i, ZenonT(60) DEF Inv, TypeOK, Restart
  <2>4. map' \in [Pods -> [Issuers -> Cells \cup {NoCell}]]
    BY <1>7, ZenonT(60) DEF Inv, TypeOK, Restart, NoMap
  <2>5. cell' \in [Places -> Keys \cup {NoKey}]
    BY <1>7, ZenonT(60) DEF Inv, TypeOK, Restart
  <2>6. reading' \in [Pods -> [Issuers -> SUBSET Readers]] /\ changes' \in 0..MaxChanges
    <3>1. changes' \in 0..MaxChanges
      <4>1. changes < MaxChanges /\ changes' = changes + 1
        BY <1>7, ZenonT(60) DEF Restart, Change
      <4>2. changes \in 0..MaxChanges
        BY <1>a DEF TypeOK
      <4> QED
        BY <4>1, <4>2, BoundAssumption
    <3>2. reading' \in [Pods -> [Issuers -> SUBSET Readers]]
      BY <1>7, <1>a, ZenonT(60) DEF TypeOK, Restart
    <3> QED
      BY <3>1, <3>2
  <2>7. FreshIsInvalid' /\ ObservedWereStored'
    <3>1. \A w \in Controllers : worker'[w] = Idle \/ worker'[w] = worker[w]
      BY <1>7, <1>a, ZenonT(60) DEF Restart, TypeOK
    <3>2. Idle.at = "idle" /\ ~Idle.fresh
      BY DEF Idle
    <3> QED
      BY <2>1, <3>1, <3>2, ZenonT(60) DEF Inv, FreshIsInvalid, ObservedWereStored, SecretOf, FoundInvalid, IsValid
  <2>8. SeenWereStored'
    BY <1>7, <2>1, ZenonT(60) DEF Inv, TypeOK, SeenWereStored, SecretsWereStored, Restart
  <2>9. CellsWereStored'
    BY <1>7, <2>1, ZenonT(60) DEF Inv, TypeOK, CellsWereStored, Restart
  <2> QED
    BY <2>1, <2>2, <2>3, <2>4, <2>5, <2>6, <2>7, <2>8, <2>9 DEF Inv, TypeOK, AbsentIsEmpty, SecretsWereStored
<1>8. ASSUME NEW w \in Controllers, NEW d \in Domains, Sync(w, d) PROVE Inv'
  <2> DEFINE p == w[1]
             found == seenSecret[p][<<d, w[2]>>]
             begun == [Idle EXCEPT !.domain = d, !.issuer = seenIssuer[p][d]]
             new == CHOOSE k \in Unused : TRUE
  <2>1. UNCHANGED <<issuer, secret, named, stored, seenIssuer, seenSecret, map, cell, reading, changes>>
    BY <1>8 DEF Sync, clusterVars, podVars, cacheVars
  <2>2. queue' \in [Controllers -> SUBSET Domains]
    BY <1>8, <1>a DEF Sync, TypeOK
  <2>3. worker' \in [Controllers -> Syncs] /\ FreshIsInvalid' /\ ObservedWereStored'
    <3>1. CASE UNCHANGED worker
      BY <2>1, <3>1, ZenonT(60) DEF Inv, TypeOK, FreshIsInvalid, ObservedWereStored, SecretOf, FoundInvalid, IsValid
    <3>2. p \in Pods /\ <<d, w[2]>> \in Secrets
      BY DEF Controllers, Secrets
    <3>3. found \in SecretValues /\ found.key \in stored \cup {NoKey}
      <4>1. seenSecret[p][<<d, w[2]>>] \in SecretValues
        BY <1>a, <3>2 DEF TypeOK
      <4>2. seenSecret[p][<<d, w[2]>>].key \in stored \cup {NoKey}
        BY <3>2, ZenonT(60) DEF Inv, SeenWereStored
      <4> QED
        BY <4>1, <4>2
    <3>4. CASE seenIssuer[p][d] \in Issuers /\ IsValid(found)
               /\ worker' = [worker EXCEPT ![w] = [begun EXCEPT !.at = "load", !.key = found.key]]
      <4> DEFINE x == [begun EXCEPT !.at = "load", !.key = found.key]
      <4>1. x \in Syncs /\ ~x.fresh /\ x.key \in stored
        BY <1>a, <3>3, <3>4, ZenonT(60) DEF Idle, Syncs, Steps, States, IsValid, TypeOK
      <4> QED
        BY <2>1, <3>4, <4>1, WorkerLemma, ZenonT(60)
    <3>5. CASE seenIssuer[p][d] \in Issuers /\ Unused # {}
               /\ worker' = [worker EXCEPT ![w] = [begun EXCEPT !.at = "get", !.key = new]]
      <4> DEFINE x == [begun EXCEPT !.at = "get", !.key = new]
      <4>1. new \in Keys
        BY <3>5 DEF Unused
      <4> HIDE DEF new
      <4>2. x \in Syncs /\ ~x.fresh /\ x.at = "get"
        BY <3>5, <4>1, ZenonT(60) DEF Idle, Syncs, Steps, States
      <4> QED
        BY <2>1, <3>5, <4>2, WorkerLemma, ZenonT(60)
    <3> QED
      BY <1>8, <3>1, <3>4, <3>5 DEF Sync
  <2> QED
    BY <2>1, <2>2, <2>3 DEF Inv, TypeOK, AbsentIsEmpty, SecretsWereStored, SeenWereStored, CellsWereStored
<1>9. ASSUME NEW w \in Controllers, GetSecret(w) PROVE Inv'
  <2> DEFINE live == secret[SecretOf(w)]
  <2>1. UNCHANGED <<issuer, secret, named, stored, seenIssuer, seenSecret, queue, map, cell, reading, changes>>
    BY <1>9 DEF GetSecret, clusterVars, podVars, cacheVars
  <2>2. worker[w].at = "get" /\ worker[w] \in Syncs
    BY <1>9, <1>a DEF GetSecret, TypeOK
  <2>3. live \in SecretValues /\ live.key \in stored \cup {NoKey} /\ stored \subseteq Keys
    BY <1>a, <2>2, SecretOfLemma DEF Inv, TypeOK, SecretsWereStored
  <2>4. ~worker[w].fresh
    BY <2>2, ZenonT(60) DEF Inv, FreshIsInvalid
  <2>5. \E x \in Syncs : /\ worker' = [worker EXCEPT ![w] = x] /\ x.domain = worker[w].domain
                         /\ x.fresh => x.at = "update" /\ FoundInvalid(live)
                         /\ x.at \in {"load", "publish", "set"} => x.key \in stored
    <3>1. CASE ~live.exists
      <4>1. [worker[w] EXCEPT !.at = "create"] \in Syncs
        BY <2>2 DEF Syncs, Steps
      <4> QED
        BY <1>9, <2>2, <2>4, <3>1, <4>1, ZenonT(60) DEF GetSecret, Syncs, FoundInvalid
    <3>2. CASE live.exists /\ IsValid(live)
      <4>1. [worker[w] EXCEPT !.at = "load", !.key = live.key, !.retried = FALSE] \in Syncs
        BY <2>2, <2>3, <3>2, ZenonT(60) DEF Syncs, Steps, IsValid
      <4> QED
        BY <1>9, <2>2, <2>3, <2>4, <3>2, <4>1, ZenonT(60) DEF GetSecret, Syncs, IsValid
    <3>3. CASE live.exists /\ ~IsValid(live)
      <4>1. [worker[w] EXCEPT !.at = "update", !.fresh = TRUE] \in Syncs
        BY <2>2, ZenonT(60) DEF Syncs, Steps
      <4> QED
        BY <1>9, <2>2, <3>3, <4>1, ZenonT(60) DEF GetSecret, Syncs, FoundInvalid
    <3> QED
      BY <3>1, <3>2, <3>3
  <2>6. worker' \in [Controllers -> Syncs] /\ FreshIsInvalid' /\ ObservedWereStored'
    BY <2>1, <2>5, WorkerLemma, ZenonT(60) DEF SecretOf
  <2> QED
    BY <2>1, <2>6 DEF Inv, TypeOK, AbsentIsEmpty, SecretsWereStored, SeenWereStored, CellsWereStored
<1>10. ASSUME NEW w \in Controllers, CreateSecret(w) PROVE Inv'
  <2> DEFINE s == SecretOf(w)
             x == [Written(s)[w] EXCEPT !.at = "load"]
             v == [exists |-> TRUE, key |-> worker[w].key, owned |-> TRUE]
  <2>1. worker[w].at = "create" /\ worker[w] \in Syncs /\ s \in Secrets
    BY <1>10, <1>a, SecretOfLemma DEF CreateSecret, TypeOK
  <2>2. Written(s)[w] \in Syncs /\ Written(s)[w].at = "create" /\ Written(s)[w].key = worker[w].key
        /\ ~Written(s)[w].fresh
    <3>1. ~worker[w].fresh
      BY <2>1 DEF Inv, FreshIsInvalid
    <3>2. Written(s) \in [Controllers -> Syncs] /\ Written(s)[w].at = worker[w].at
          /\ Written(s)[w].key = worker[w].key /\ (Written(s)[w].fresh => worker[w].fresh)
      BY <1>a, <2>1, WrittenLemma
    <3> QED
      BY <2>1, <3>1, <3>2
  <2>3. x \in Syncs /\ x.at = "load" /\ ~x.fresh /\ x.key = worker[w].key
    BY <2>2 DEF Syncs, Steps
  <2>4. v \in SecretValues /\ v.exists /\ v.key = worker[w].key
    BY <2>1 DEF SecretValues, Syncs
  <2>5. worker' = [Written(s) EXCEPT ![w] = x] /\ secret' = [secret EXCEPT ![s] = v]
        /\ stored' = stored \cup {worker[w].key}
    BY <1>10, <1>a, <2>1, WrittenLemma DEF CreateSecret
  <2>6. UNCHANGED <<issuer, named, seenIssuer, seenSecret, queue, map, cell, reading, changes>>
    BY <1>10 DEF CreateSecret, podVars, cacheVars
  <2> QED
    BY <2>1, <2>3, <2>4, <2>5, <2>6, WriteLemma, ZenonT(60)
<1>11. ASSUME NEW w \in Controllers, UpdateSecret(w) PROVE Inv'
  <2> DEFINE s == SecretOf(w)
             x == [Written(s)[w] EXCEPT !.at = "load", !.fresh = FALSE, !.retried = FALSE]
             v == [secret[s] EXCEPT !.key = worker[w].key]
  <2>1. worker[w].at = "update" /\ worker[w].fresh /\ worker[w] \in Syncs /\ s \in Secrets
    BY <1>11, <1>a, SecretOfLemma DEF UpdateSecret, TypeOK
  <2>2. Written(s)[w] \in Syncs /\ Written(s)[w].at = "update" /\ Written(s)[w].key = worker[w].key
    <3>1. Written(s) \in [Controllers -> Syncs] /\ Written(s)[w].at = worker[w].at
          /\ Written(s)[w].key = worker[w].key
      BY <1>a, <2>1, WrittenLemma
    <3> QED
      BY <2>1, <3>1
  <2>3. x \in Syncs /\ x.at = "load" /\ ~x.fresh /\ x.key = worker[w].key
    BY <2>2, ZenonT(60) DEF Syncs, Steps
  <2>4. secret[s] \in SecretValues /\ secret[s].exists
    BY <1>a, <2>1 DEF Inv, TypeOK, FreshIsInvalid, FoundInvalid
  <2>5. v \in SecretValues /\ v.exists /\ v.key = worker[w].key
    BY <2>1, <2>4 DEF SecretValues, Syncs
  <2>6. worker' = [Written(s) EXCEPT ![w] = x] /\ secret' = [secret EXCEPT ![s] = v]
        /\ stored' = stored \cup {worker[w].key}
    BY <1>11, <1>a, <2>1, WrittenLemma, ZenonT(60) DEF UpdateSecret
  <2>7. UNCHANGED <<issuer, named, seenIssuer, seenSecret, queue, map, cell, reading, changes>>
    BY <1>11 DEF UpdateSecret, podVars, cacheVars
  <2> QED
    BY <2>1, <2>3, <2>5, <2>6, <2>7, WriteLemma, ZenonT(60)
<1>12. ASSUME NEW w \in Controllers, Conflict(w) PROVE Inv'
  <2> DEFINE x == [worker[w] EXCEPT !.at = "get", !.retried = TRUE]
  <2>1. UNCHANGED <<issuer, secret, named, stored, seenIssuer, seenSecret, queue, map, cell, reading, changes>>
    BY <1>12 DEF Conflict, clusterVars, podVars, cacheVars
  <2>2. worker[w].at = "update" /\ ~worker[w].fresh /\ worker[w] \in Syncs
    BY <1>12, <1>a DEF Conflict, TypeOK
  <2>3. x \in Syncs /\ x.at = "get" /\ ~x.fresh /\ worker' = [worker EXCEPT ![w] = x]
    BY <1>12, <2>2, ZenonT(60) DEF Conflict, Syncs, Steps
  <2>4. worker' \in [Controllers -> Syncs] /\ FreshIsInvalid' /\ ObservedWereStored'
    BY <2>1, <2>3, WorkerLemma, ZenonT(60)
  <2> QED
    BY <2>1, <2>4 DEF Inv, TypeOK, AbsentIsEmpty, SecretsWereStored, SeenWereStored, CellsWereStored
<1>13. ASSUME NEW w \in Controllers, Fails(w) PROVE Inv'
  <2>1. UNCHANGED <<issuer, secret, named, stored, seenIssuer, seenSecret, map, cell, reading, changes>>
    BY <1>13 DEF Fails, clusterVars, podVars, cacheVars
  <2>2. queue' \in [Controllers -> SUBSET Domains]
    <3>1. worker[w].at # "idle" /\ queue' = [queue EXCEPT ![w] = queue[w] \cup {worker[w].domain}]
      BY <1>13 DEF Fails
    <3>2. worker[w].domain \in Domains
      BY <1>a, <3>1, SecretOfLemma
    <3>3. queue \in [Controllers -> SUBSET Domains]
      BY <1>a DEF TypeOK
    <3> QED
      BY <3>1, <3>2, <3>3
  <2>3. worker' = [worker EXCEPT ![w] = Idle] /\ Idle.at = "idle" /\ ~Idle.fresh
    BY <1>13 DEF Fails, Idle
  <2>4. worker' \in [Controllers -> Syncs] /\ FreshIsInvalid' /\ ObservedWereStored'
    BY <1>i, <2>1, <2>3, WorkerLemma, ZenonT(60)
  <2> QED
    BY <2>1, <2>2, <2>4 DEF Inv, TypeOK, AbsentIsEmpty, SecretsWereStored, SeenWereStored, CellsWereStored
<1>14. ASSUME NEW w \in Controllers, UpdateStatus(w) PROVE Inv'
  <2>1. UNCHANGED <<issuer, secret, stored, seenIssuer, seenSecret, queue, map, cell, reading, changes>>
    BY <1>14 DEF UpdateStatus, podVars, cacheVars
  <2>2. named' \subseteq Secrets
    BY <1>14, <1>a, SecretOfLemma DEF UpdateStatus, TypeOK
  <2>3. worker' = [worker EXCEPT ![w] = Idle] /\ Idle.at = "idle" /\ ~Idle.fresh
    BY <1>14 DEF UpdateStatus, Idle
  <2>4. worker' \in [Controllers -> Syncs] /\ FreshIsInvalid' /\ ObservedWereStored'
    BY <1>i, <2>1, <2>3, WorkerLemma, ZenonT(60)
  <2> QED
    BY <2>1, <2>2, <2>4 DEF Inv, TypeOK, AbsentIsEmpty, SecretsWereStored, SeenWereStored, CellsWereStored
<1>15. ASSUME NEW w \in Controllers, Load(w) PROVE Inv'
  <2> DEFINE found == map[w[1]][worker[w].issuer]
             x == IF found = NoCell THEN [worker[w] EXCEPT !.at = "publish", !.cell = w[2]]
                  ELSE [worker[w] EXCEPT !.at = "set", !.cell = found]
  <2>1. UNCHANGED <<issuer, secret, named, stored, seenIssuer, seenSecret, queue, map, cell, reading, changes>>
    BY <1>15 DEF Load, clusterVars, podVars, cacheVars
  <2>2. worker[w].at = "load" /\ worker[w] \in Syncs /\ worker[w].issuer \in Issuers
    BY <1>15, <1>a DEF Load, TypeOK, Syncs
  <2>3. w[1] \in Pods /\ w[2] \in Cells /\ found \in Cells \cup {NoCell}
    <3>1. w[1] \in Pods /\ w[2] \in Cells
      BY DEF Controllers, Cells
    <3>2. map \in [Pods -> [Issuers -> Cells \cup {NoCell}]]
      BY <1>a DEF TypeOK
    <3> QED
      BY <2>2, <3>1, <3>2
  <2>4. ~worker[w].fresh /\ worker[w].key \in stored
    BY <2>2 DEF Inv, FreshIsInvalid, ObservedWereStored
  <2>5. x \in Syncs /\ ~x.fresh /\ x.key \in stored
    BY <2>2, <2>3, <2>4, ZenonT(60) DEF Syncs, Steps
  <2>6. worker' = [worker EXCEPT ![w] = x]
    BY <1>15 DEF Load
  <2>7. worker' \in [Controllers -> Syncs] /\ FreshIsInvalid' /\ ObservedWereStored'
    BY <2>1, <2>5, <2>6, WorkerLemma, ZenonT(60)
  <2> QED
    BY <2>1, <2>7 DEF Inv, TypeOK, AbsentIsEmpty, SecretsWereStored, SeenWereStored, CellsWereStored
<1>16. ASSUME NEW w \in Controllers, Publish(w) PROVE Inv'
  <2> DEFINE x == [worker[w] EXCEPT !.at = "set"]
  <2>1. UNCHANGED <<issuer, secret, named, stored, seenIssuer, seenSecret, queue, cell, reading, changes>>
    BY <1>16 DEF Publish, clusterVars, podVars
  <2>2. worker[w].at = "publish" /\ worker[w] \in Syncs /\ worker[w].issuer \in Issuers
        /\ worker[w].cell \in Cells
    BY <1>16, <1>a DEF Publish, TypeOK, Syncs
  <2>3. ~worker[w].fresh /\ worker[w].key \in stored
    BY <2>2, ZenonT(60) DEF Inv, FreshIsInvalid, ObservedWereStored
  <2>4. x \in Syncs /\ ~x.fresh /\ x.key \in stored /\ worker' = [worker EXCEPT ![w] = x]
    BY <1>16, <2>2, <2>3 DEF Publish, Syncs, Steps
  <2>5. worker' \in [Controllers -> Syncs] /\ FreshIsInvalid' /\ ObservedWereStored'
    BY <2>1, <2>4, WorkerLemma, ZenonT(60)
  <2>6. map' \in [Pods -> [Issuers -> Cells \cup {NoCell}]]
    BY <1>16, <1>a, <2>2 DEF Publish, TypeOK, Controllers
  <2> QED
    BY <2>1, <2>5, <2>6 DEF Inv, TypeOK, AbsentIsEmpty, SecretsWereStored, SeenWereStored, CellsWereStored
<1>17. ASSUME NEW w \in Controllers, SetKey(w) PROVE Inv'
  <2> DEFINE x == [Idle EXCEPT !.at = "status", !.domain = worker[w].domain]
             p == w[1]
             i == worker[w].issuer
             c == worker[w].cell
             u == w[2]
  <2>1. UNCHANGED <<issuer, secret, named, stored, seenIssuer, seenSecret, queue, map, reading, changes>>
    BY <1>17 DEF SetKey, clusterVars, podVars
  <2>2. worker[w].at = "set" /\ worker[w] \in Syncs /\ i \in Issuers /\ c \in Cells /\ worker[w].key \in Keys
        /\ worker[w].domain \in Domains
    BY <1>17, <1>a DEF SetKey, TypeOK, Syncs
  <2>3. x \in Syncs /\ ~x.fresh /\ x.at = "status" /\ worker' = [worker EXCEPT ![w] = x]
    BY <1>17, <2>2, ZenonT(60) DEF SetKey, Idle, Syncs, Steps, States
  <2>4. worker' \in [Controllers -> Syncs] /\ FreshIsInvalid' /\ ObservedWereStored'
    BY <2>1, <2>3, WorkerLemma, ZenonT(60)
  <2>5. p \in Pods /\ u \in Usages /\ worker[w].key \in stored
    BY <2>2 DEF Inv, ObservedWereStored, Controllers
  <2>6. cell' = [cell EXCEPT ![<<p, i, c, u>>] = worker[w].key]
    BY <1>17 DEF SetKey
  <2> HIDE DEF p, i, c, u
  <2>7. cell' \in [Places -> Keys \cup {NoKey}]
    BY <1>a, <2>2, <2>5, <2>6, ZenonT(60) DEF TypeOK
  <2>8. CellsWereStored'
    BY <1>a, <2>1, <2>2, <2>5, <2>6, ZenonT(60) DEF Inv, TypeOK, CellsWereStored
  <2> QED
    BY <2>1, <2>4, <2>7, <2>8 DEF Inv, TypeOK, AbsentIsEmpty, SecretsWereStored, SeenWereStored
<1>18. ASSUME NEW p \in Pods, NEW i \in Issuers, NEW r \in Readers,
              ReaderLoads(p, i, r) \/ ReaderPublishes(p, i, r) PROVE Inv'
  <2>1. UNCHANGED <<issuer, secret, named, stored, seenIssuer, seenSecret, queue, worker, cell, changes>>
    BY <1>18 DEF ReaderLoads, ReaderPublishes, clusterVars, podVars
  <2>2. map' \in [Pods -> [Issuers -> Cells \cup {NoCell}]] /\ reading' \in [Pods -> [Issuers -> SUBSET Readers]]
    <3>a. map \in [Pods -> [Issuers -> Cells \cup {NoCell}]] /\ reading \in [Pods -> [Issuers -> SUBSET Readers]]
      BY <1>a DEF TypeOK
    <3>b. r \in Cells
      BY DEF Cells
    <3>1. CASE ReaderLoads(p, i, r)
      <4>1. map' = map /\ reading' = [reading EXCEPT ![p][i] = reading[p][i] \cup {r}]
        BY <3>1 DEF ReaderLoads
      <4>2. reading' \in [Pods -> [Issuers -> SUBSET Readers]]
        BY <3>a, <4>1
      <4> QED
        BY <3>a, <4>1, <4>2
    <3>2. CASE ReaderPublishes(p, i, r)
      <4>1. map' = [map EXCEPT ![p][i] = r] /\ reading' = [reading EXCEPT ![p][i] = reading[p][i] \ {r}]
        BY <3>2 DEF ReaderPublishes
      <4>2. map' \in [Pods -> [Issuers -> Cells \cup {NoCell}]]
        BY <3>a, <3>b, <4>1
      <4>3. reading' \in [Pods -> [Issuers -> SUBSET Readers]]
        BY <3>a, <4>1
      <4> QED
        BY <4>2, <4>3
    <3> QED
      BY <1>18, <3>1, <3>2
  <2> QED
    BY <2>1, <2>2, ZenonT(60) DEF Inv, TypeOK, AbsentIsEmpty, FreshIsInvalid, SecretsWereStored, SeenWereStored,
      ObservedWereStored, CellsWereStored, SecretOf, FoundInvalid, IsValid
<1>19. ASSUME NEW w \in Controllers, Act(w) PROVE Inv'
  BY <1>8, <1>9, <1>10, <1>11, <1>12, <1>13, <1>14, <1>15, <1>16, <1>17, <1>19, ZenonT(60) DEF Act, Step, Write
<1>20. ASSUME NEW p \in Pods, Reader(p) PROVE Inv'
  BY <1>18, <1>20, ZenonT(60) DEF Reader
<1>21. ASSUME NEW p \in Pods, Informer(p) \/ Resync(p) \/ Restart(p) PROVE Inv'
  BY <1>4, <1>5, <1>6, <1>7, <1>21, ZenonT(60) DEF Informer
<1>22. ASSUME Users PROVE Inv'
  BY <1>2, <1>3, <1>22, ZenonT(60) DEF Users
<1> QED
  BY <1>1, <1>19, <1>20, <1>21, <1>22, ZenonT(60) DEF Next

\* The invariant holds in every behaviour.
THEOREM InvAlways == Spec => []Inv
  BY InvInit, InvNext, PTL DEF Spec

\* Type correctness: a Sync that observes a key has an issuer and a key to put into a cell.
THEOREM TypeCorrect == Spec => []TypeOK
<1>1. Inv => TypeOK
  BY DEF Inv
<1> QED
  BY <1>1, InvAlways, PTL

\* Request handlers get only keys that were stored in the cluster (secret.Cache).
THEOREM CachedWereStored == Spec => []CachedKeysWereStored
<1>1. Inv => CachedKeysWereStored
  <2> SUFFICES ASSUME Inv, NEW p \in Pods, NEW i \in Issuers, NEW u \in Usages
               PROVE  Cached(p, i, u) \in stored \cup {NoKey}
    BY DEF CachedKeysWereStored
  <2>1. map \in [Pods -> [Issuers -> Cells \cup {NoCell}]]
    BY DEF Inv, TypeOK
  <2>2. map[p][i] \in Cells \cup {NoCell}
    BY <2>1
  <2> QED
    BY <2>2 DEF Inv, CellsWereStored, Cached, Places
<1> QED
  BY <1>1, InvAlways, PTL

\* No controller ever replaces a valid key (createOrUpdateSecret).
THEOREM ValidKeyKept == Spec => ValidKeyNeverReplaced
<1>1. ASSUME Inv, NEW w \in Controllers, NEW s \in Secrets, Write(w), IsValid(secret[s])
      PROVE  secret'[s] = secret[s]
  <2>1. CASE CreateSecret(w)
    <3>1. ~IsValid(secret[SecretOf(w)])
      BY <1>1, <2>1, SecretOfLemma DEF CreateSecret, Inv, AbsentIsEmpty, IsValid, NoSecret
    <3> QED
      BY <1>1, <2>1, <3>1 DEF CreateSecret, Inv, TypeOK
  <2>2. CASE UpdateSecret(w)
    <3>1. ~IsValid(secret[SecretOf(w)])
      BY <1>1, <2>2 DEF UpdateSecret, Inv, FreshIsInvalid, FoundInvalid
    <3> QED
      BY <1>1, <2>2, <3>1 DEF UpdateSecret, Inv, TypeOK
  <2>3. CASE UpdateStatus(w)
    BY <2>3 DEF UpdateStatus
  <2> QED
    BY <1>1, <2>1, <2>2, <2>3 DEF Write
<1>2. Inv /\ [Next]_vars => [\A w \in Controllers, s \in Secrets :
                               Write(w) /\ IsValid(secret[s]) => secret'[s] = secret[s]]_vars
  BY <1>1
<1> QED
  BY <1>2, InvAlways, PTL DEF Spec, ValidKeyNeverReplaced


-----------------------------------------------------------------------------
(* A controller at rest is done.                                           *)

\* The controller v does not end its Sync, and does not turn to another FederationDomain.
SameSync(v) == worker'[v].domain = worker[v].domain /\ (worker'[v].at = "idle" => worker[v].at = "idle")

\* A Sync stays with its FederationDomain until it ends, also when others write its Secret.
LEMMA SameDomain ==
  ASSUME TypeOK, NEW w \in Controllers,
         \/ GetSecret(w) \/ CreateSecret(w) \/ UpdateSecret(w) \/ Conflict(w) \/ Load(w) \/ Publish(w) \/ SetKey(w)
  PROVE  \A v \in Controllers : SameSync(v)
<1>0. worker \in [Controllers -> Syncs] /\ worker[w] \in Syncs /\ DOMAIN worker = Controllers
  BY DEF TypeOK
<1>1. ASSUME NEW x, worker' = [worker EXCEPT ![w] = x], x.domain = worker[w].domain, x.at # "idle"
      PROVE  \A v \in Controllers : SameSync(v)
  BY <1>0, <1>1 DEF SameSync
<1>2. CASE GetSecret(w)
  <2> DEFINE live == secret[SecretOf(w)]
             a == [worker[w] EXCEPT !.at = "create"]
             b == [worker[w] EXCEPT !.at = "load", !.key = live.key, !.retried = FALSE]
             c == [worker[w] EXCEPT !.at = "update", !.fresh = TRUE]
  <2>1. a.domain = worker[w].domain /\ a.at # "idle"
    BY <1>0 DEF Syncs
  <2>2. b.domain = worker[w].domain /\ b.at # "idle"
    BY <1>0 DEF Syncs
  <2>3. c.domain = worker[w].domain /\ c.at # "idle"
    BY <1>0 DEF Syncs
  <2>4. \/ worker' = [worker EXCEPT ![w] = a] \/ worker' = [worker EXCEPT ![w] = b]
        \/ worker' = [worker EXCEPT ![w] = c]
    BY <1>2, ZenonT(60) DEF GetSecret
  <2> HIDE DEF a, b, c
  <2> QED
    BY <1>1, <2>1, <2>2, <2>3, <2>4, ZenonT(60)
<1>3. CASE CreateSecret(w) \/ UpdateSecret(w)
  <2>0. worker[w].at # "idle"
    BY <1>3 DEF CreateSecret, UpdateSecret
  <2>1. SecretOf(w) \in Secrets
    BY <2>0, SecretOfLemma
  <2>2. /\ Written(SecretOf(w)) \in [Controllers -> Syncs]
        /\ \A v \in Controllers : /\ Written(SecretOf(w))[v].domain = worker[v].domain
                                  /\ Written(SecretOf(w))[v].at = worker[v].at
    BY <2>1, WrittenLemma, ZenonT(60)
  <2> DEFINE f == Written(SecretOf(w))
  <2>3. \/ worker' = [f EXCEPT ![w].at = "load"]
        \/ worker' = [f EXCEPT ![w].at = "load", ![w].fresh = FALSE, ![w].retried = FALSE]
    BY <1>3, ZenonT(60) DEF CreateSecret, UpdateSecret
  <2> HIDE DEF f
  <2>4. /\ f \in [Controllers -> Syncs] /\ f[w] \in Syncs
        /\ \A v \in Controllers : f[v].domain = worker[v].domain /\ f[v].at = worker[v].at
    BY <2>2 DEF f
  <2>5. \A v \in Controllers \ {w} : worker'[v] = f[v]
    BY <2>3, <2>4
  <2>6. worker'[w].domain = f[w].domain /\ worker'[w].at = "load"
    BY <2>3, <2>4 DEF Syncs
  <2> QED
    BY <2>4, <2>5, <2>6 DEF SameSync
<1>4. CASE Conflict(w)
  BY <1>0, <1>4 DEF Conflict, Syncs, SameSync
<1>5. CASE Load(w)
  <2> DEFINE found == map[w[1]][worker[w].issuer]
             a == [worker[w] EXCEPT !.at = "publish", !.cell = w[2]]
             b == [worker[w] EXCEPT !.at = "set", !.cell = found]
  <2>1. a.domain = worker[w].domain /\ a.at # "idle"
    BY <1>0 DEF Syncs
  <2>2. b.domain = worker[w].domain /\ b.at # "idle"
    BY <1>0 DEF Syncs
  <2>3. worker' = [worker EXCEPT ![w] = a] \/ worker' = [worker EXCEPT ![w] = b]
    BY <1>5, ZenonT(60) DEF Load
  <2> HIDE DEF a, b
  <2> QED
    BY <1>1, <2>1, <2>2, <2>3, ZenonT(60)
<1>6. CASE Publish(w)
  BY <1>0, <1>6 DEF Publish, Syncs, SameSync
<1>7. CASE SetKey(w)
  <2> DEFINE a == [Idle EXCEPT !.at = "status", !.domain = worker[w].domain]
  <2>1. a.domain = worker[w].domain /\ a.at # "idle"
    BY DEF Idle
  <2>2. worker' = [worker EXCEPT ![w] = a]
    BY <1>7, ZenonT(60) DEF SetKey
  <2> HIDE DEF a
  <2> QED
    BY <1>1, <2>1, <2>2, ZenonT(60)
<1> QED
  BY <1>2, <1>3, <1>4, <1>5, <1>6, <1>7

\* A step that forgets no FederationDomain that a controller has to do with.
LEMMA NamedStays ==
  ASSUME KnownIsNamed, NewIsUnseen, UNCHANGED <<issuer, seenIssuer>>, named \subseteq named',
         \A v \in Controllers : queue[v] \subseteq queue'[v] /\ SameSync(v)
  PROVE  KnownIsNamed' /\ NewIsUnseen'
<1>1. NewIsUnseen'
  BY DEF NewIsUnseen
<1>2. KnownIsNamed'
  BY ZenonT(60) DEF KnownIsNamed, Exists, Controllers, Busy, SameSync
<1> QED
  BY <1>1, <1>2

\* Every step keeps what controllers know, or have to do, in order.
LEMMA NamedNext ==
  ASSUME Inv, KnownIsNamed, NewIsUnseen, [Next]_vars
  PROVE  KnownIsNamed' /\ NewIsUnseen'
<1>0. /\ TypeOK /\ DOMAIN worker = Controllers /\ DOMAIN queue = Controllers
      /\ DOMAIN issuer = Domains /\ DOMAIN seenIssuer = Pods
      /\ \A p \in Pods : DOMAIN seenIssuer[p] = Domains
  BY DEF Inv, TypeOK
<1>1. CASE UNCHANGED vars
  BY <1>1, NamedStays, ZenonT(60) DEF vars, SameSync
<1>2. ASSUME NEW w \in Controllers,
             \/ GetSecret(w) \/ CreateSecret(w) \/ UpdateSecret(w) \/ Conflict(w) \/ Load(w) \/ Publish(w) \/ SetKey(w)
      PROVE  KnownIsNamed' /\ NewIsUnseen'
  <2>1. UNCHANGED <<issuer, named, seenIssuer, queue>>
    BY <1>2, ZenonT(60) DEF GetSecret, CreateSecret, UpdateSecret, Conflict, Load, Publish, SetKey, clusterVars, podVars
  <2>2. \A v \in Controllers : SameSync(v)
    BY <1>0, <1>2, SameDomain, ZenonT(60)
  <2> QED
    BY <2>1, <2>2, NamedStays, ZenonT(60)
<1>3. ASSUME NEW w \in Controllers, NEW d \in Domains, Sync(w, d) PROVE KnownIsNamed' /\ NewIsUnseen'
  <2>1. UNCHANGED <<issuer, named, seenIssuer>> /\ queue' = [queue EXCEPT ![w] = @ \ {d}]
    BY <1>3, ZenonT(60) DEF Sync, clusterVars, podVars
  <2>2. \A v \in Controllers : \A e \in Domains \ {d} : e \in queue[v] => e \in queue'[v]
    BY <1>0, <2>1, ZenonT(60)
  <2>3. \A v \in Controllers \ {w} : queue'[v] = queue[v] /\ worker'[v] = worker[v]
    BY <1>0, <1>3, <2>1, ZenonT(60) DEF Sync
  <2>4. seenIssuer[w[1]][d] \in Issuers => Busy(w, d)'
    <3> DEFINE begun == [Idle EXCEPT !.domain = d, !.issuer = seenIssuer[w[1]][d]]
    <3>1. \A k : /\ [begun EXCEPT !.at = "load", !.key = k].domain = d /\ [begun EXCEPT !.at = "load", !.key = k].at # "idle"
                 /\ [begun EXCEPT !.at = "get", !.key = k].domain = d /\ [begun EXCEPT !.at = "get", !.key = k].at # "idle"
      BY DEF Idle
    <3>2. ASSUME seenIssuer[w[1]][d] \in Issuers
          PROVE  \E k : \/ worker' = [worker EXCEPT ![w] = [begun EXCEPT !.at = "load", !.key = k]]
                        \/ worker' = [worker EXCEPT ![w] = [begun EXCEPT !.at = "get", !.key = k]]
      BY <1>3, <3>2, ZenonT(60) DEF Sync
    <3> HIDE DEF begun
    <3> QED
      BY <1>0, <3>1, <3>2, ZenonT(60) DEF Busy
  <2>5. KnownIsNamed'
    <3> SUFFICES ASSUME NEW p \in Pods, NEW u \in Usages, NEW e \in Domains, Exists(e), seenIssuer[p][e] \in Issuers,
                        e \notin queue'[<<p, u>>], ~Busy(<<p, u>>, e)'
                 PROVE  <<e, u>> \in named
      BY <2>1, ZenonT(60) DEF KnownIsNamed, Exists
    <3>1. <<p, u>> \in Controllers
      BY DEF Controllers
    <3>2. CASE <<p, u>> # w
      BY <2>3, <3>1, <3>2, ZenonT(60) DEF KnownIsNamed, Busy
    <3>3. CASE <<p, u>> = w
      <4>1. w[1] = p /\ worker[w].at = "idle"
        BY <1>3, <3>3 DEF Sync
      <4>2. e # d
        BY <2>4, <3>3, <4>1
      <4>3. e \notin queue[<<p, u>>]
        BY <2>2, <3>1, <4>2
      <4>4. ~Busy(<<p, u>>, e)
        BY <3>3, <4>1 DEF Busy
      <4> QED
        BY <4>3, <4>4, ZenonT(60) DEF KnownIsNamed
    <3> QED
      BY <3>2, <3>3
  <2> QED
    BY <2>1, <2>5 DEF NewIsUnseen
<1>4. ASSUME NEW w \in Controllers, Fails(w) PROVE KnownIsNamed' /\ NewIsUnseen'
  <2>1. /\ UNCHANGED <<issuer, named, seenIssuer>> /\ queue' = [queue EXCEPT ![w] = @ \cup {worker[w].domain}]
        /\ worker' = [worker EXCEPT ![w] = Idle]
    BY <1>4, ZenonT(60) DEF Fails, clusterVars, podVars
  <2>2. \A v \in Controllers \ {w} : queue'[v] = queue[v] /\ worker'[v] = worker[v]
    BY <1>0, <2>1, ZenonT(60)
  <2>3. queue'[w] = queue[w] \cup {worker[w].domain}
    BY <1>0, <2>1, ZenonT(60)
  <2>4. KnownIsNamed'
    <3> SUFFICES ASSUME NEW p \in Pods, NEW u \in Usages, NEW e \in Domains, Exists(e), seenIssuer[p][e] \in Issuers,
                        e \notin queue'[<<p, u>>], ~Busy(<<p, u>>, e)'
                 PROVE  <<e, u>> \in named
      BY <2>1, ZenonT(60) DEF KnownIsNamed, Exists
    <3>1. <<p, u>> \in Controllers
      BY DEF Controllers
    <3>2. e \notin queue[<<p, u>>] /\ ~Busy(<<p, u>>, e)
      BY <2>2, <2>3, <3>1, ZenonT(60) DEF Busy
    <3> QED
      BY <3>2, ZenonT(60) DEF KnownIsNamed
  <2> QED
    BY <2>1, <2>4 DEF NewIsUnseen
<1>5. ASSUME NEW w \in Controllers, UpdateStatus(w) PROVE KnownIsNamed' /\ NewIsUnseen'
  <2>1. /\ UNCHANGED <<issuer, seenIssuer, queue>> /\ named' = named \cup {<<worker[w].domain, w[2]>>}
        /\ worker' = [worker EXCEPT ![w] = Idle]
    BY <1>5, ZenonT(60) DEF UpdateStatus, SecretOf, podVars
  <2>2. \A v \in Controllers \ {w} : worker'[v] = worker[v]
    BY <1>0, <2>1, ZenonT(60)
  <2>4. KnownIsNamed'
    <3> SUFFICES ASSUME NEW p \in Pods, NEW u \in Usages, NEW e \in Domains, Exists(e), seenIssuer[p][e] \in Issuers,
                        e \notin queue[<<p, u>>], ~Busy(<<p, u>>, e)'
                 PROVE  <<e, u>> \in named'
      BY <2>1, ZenonT(60) DEF KnownIsNamed, Exists
    <3>1. <<p, u>> \in Controllers /\ <<p, u>>[2] = u
      BY DEF Controllers
    <3>2. CASE Busy(<<p, u>>, e)
      <4>1. <<p, u>> = w
        BY <2>2, <3>1, <3>2 DEF Busy
      <4>2. worker[w].domain = e /\ w[2] = u
        BY <3>1, <3>2, <4>1, ZenonT(60) DEF Busy
      <4> QED
        BY <2>1, <4>2, ZenonT(60)
    <3>3. CASE ~Busy(<<p, u>>, e)
      BY <2>1, <3>3, ZenonT(60) DEF KnownIsNamed
    <3> QED
      BY <3>2, <3>3
  <2> QED
    BY <2>1, <2>4 DEF NewIsUnseen
<1>6. ASSUME NEW p \in Pods, NEW d \in Domains, DomainEvent(p, d) PROVE KnownIsNamed' /\ NewIsUnseen'
  <2>1. /\ UNCHANGED <<issuer, named, worker>> /\ seenIssuer' = [seenIssuer EXCEPT ![p][d] = issuer[d]]
        /\ queue' = [w \in Controllers |-> IF w[1] = p THEN queue[w] \cup {d} ELSE queue[w]]
    BY <1>6, ZenonT(60) DEF DomainEvent, clusterVars
  <2>2. \A q \in Pods, e \in Domains : seenIssuer'[q][e] = IF q = p /\ e = d THEN issuer[d] ELSE seenIssuer[q][e]
    BY <1>0, <2>1
  <2>3. \A q \in Pods, u \in Usages : queue[<<q, u>>] \subseteq queue'[<<q, u>>] /\ (q = p => d \in queue'[<<q, u>>])
    BY <2>1 DEF Controllers
  <2>4. KnownIsNamed'
    <3> SUFFICES ASSUME NEW q \in Pods, NEW u \in Usages, NEW e \in Domains, issuer[e] \in Issuers,
                        seenIssuer'[q][e] \in Issuers, e \notin queue'[<<q, u>>], ~Busy(<<q, u>>, e)'
                 PROVE  <<e, u>> \in named
      BY <2>1, ZenonT(60) DEF KnownIsNamed, Exists
    <3>1. ~(q = p /\ e = d)
      BY <2>3
    <3>2. seenIssuer[q][e] \in Issuers /\ e \notin queue[<<q, u>>] /\ ~Busy(<<q, u>>, e)
      BY <2>1, <2>2, <2>3, <3>1 DEF Busy
    <3> QED
      BY <3>2, ZenonT(60) DEF KnownIsNamed, Exists
  <2>5. NewIsUnseen'
    BY <2>1, <2>2 DEF NewIsUnseen
  <2> QED
    BY <2>4, <2>5
<1>7. ASSUME NEW p \in Pods, Resync(p) PROVE KnownIsNamed' /\ NewIsUnseen'
  <2>1. UNCHANGED <<issuer, named, seenIssuer, worker>>
    BY <1>7, ZenonT(60) DEF Resync, clusterVars, podVars
  <2>2. \A v \in Controllers : queue[v] \subseteq queue'[v]
    BY <1>7 DEF Resync
  <2> QED
    BY <2>1, <2>2, NamedStays, ZenonT(60) DEF SameSync
<1>8. ASSUME NEW p \in Pods, NEW s \in Secrets, SecretEvent(p, s) PROVE KnownIsNamed' /\ NewIsUnseen'
  <2>1. /\ UNCHANGED <<issuer, named, seenIssuer, worker>>
        /\ queue' = queue \/ queue' = [queue EXCEPT ![<<p, s[2]>>] = @ \cup {s[1]}]
    BY <1>8, ZenonT(60) DEF SecretEvent, clusterVars
  <2>2. \A v \in Controllers : queue[v] \subseteq queue'[v]
    BY <1>0, <2>1
  <2> QED
    BY <2>1, <2>2, NamedStays, ZenonT(60) DEF SameSync
<1>9. ASSUME NEW p \in Pods, Restart(p) PROVE KnownIsNamed' /\ NewIsUnseen'
  <2>1. /\ UNCHANGED <<issuer, named>> /\ seenIssuer' = [seenIssuer EXCEPT ![p] = issuer]
        /\ queue' = [w \in Controllers |-> IF w[1] = p THEN {d \in Domains : Exists(d)} ELSE queue[w]]
        /\ worker' = [w \in Controllers |-> IF w[1] = p THEN Idle ELSE worker[w]]
    BY <1>9, ZenonT(60) DEF Restart, clusterVars
  <2>2. \A q \in Pods : seenIssuer'[q] = IF q = p THEN issuer ELSE seenIssuer[q]
    BY <1>0, <2>1, ZenonT(60)
  <2>3. \A q \in Pods, u \in Usages :
          IF q = p THEN queue'[<<q, u>>] = {d \in Domains : Exists(d)}
          ELSE queue'[<<q, u>>] = queue[<<q, u>>] /\ worker'[<<q, u>>] = worker[<<q, u>>]
    BY <2>1 DEF Controllers
  <2>4. KnownIsNamed'
    <3> SUFFICES ASSUME NEW q \in Pods, NEW u \in Usages, NEW e \in Domains, issuer[e] \in Issuers,
                        seenIssuer'[q][e] \in Issuers, e \notin queue'[<<q, u>>], ~Busy(<<q, u>>, e)'
                 PROVE  <<e, u>> \in named
      BY <2>1, ZenonT(60) DEF KnownIsNamed, Exists
    <3>1. q # p
      BY <2>3 DEF Exists
    <3>2. seenIssuer[q][e] \in Issuers /\ e \notin queue[<<q, u>>] /\ ~Busy(<<q, u>>, e)
      BY <2>2, <2>3, <3>1 DEF Busy
    <3> QED
      BY <3>2, ZenonT(60) DEF KnownIsNamed, Exists
  <2>5. NewIsUnseen'
    <3> SUFFICES ASSUME NEW q \in Pods, NEW e \in Domains, issuer[e] = "absent"
                 PROVE  seenIssuer'[q][e] = "absent"
      BY <2>1, ZenonT(60) DEF NewIsUnseen
    <3>1. seenIssuer'[q] = issuer \/ seenIssuer'[q] = seenIssuer[q]
      BY <1>0, <2>1, ZenonT(60)
    <3> QED
      BY <3>1, ZenonT(60) DEF NewIsUnseen
  <2> QED
    BY <2>4, <2>5
<1>10. ASSUME NEW p \in Pods, Reader(p) PROVE KnownIsNamed' /\ NewIsUnseen'
  <2>1. UNCHANGED <<issuer, named, seenIssuer, queue, worker>>
    BY <1>10, ZenonT(60) DEF Reader, ReaderLoads, ReaderPublishes, clusterVars, podVars
  <2> QED
    BY <2>1, NamedStays, ZenonT(60) DEF SameSync
<1>11. ASSUME NEW d \in Domains, NEW i \in States, ChangeDomain(d, i) PROVE KnownIsNamed' /\ NewIsUnseen'
  <2>1. /\ UNCHANGED <<seenIssuer, queue, worker>> /\ issuer' = [issuer EXCEPT ![d] = i]
        /\ named' = IF i = "deleted" THEN {s \in named : s[1] # d} ELSE named
        /\ i # "absent" /\ (Exists(d) \/ issuer[d] = "absent")
    BY <1>11, NamesAssumption DEF ChangeDomain, podVars
  <2>2. \A e \in Domains : issuer'[e] = IF e = d THEN i ELSE issuer[e]
    BY <1>0, <2>1, ZenonT(60)
  <2>3. NewIsUnseen'
    <3> SUFFICES ASSUME NEW q \in Pods, NEW e \in Domains, issuer'[e] = "absent"
                 PROVE  seenIssuer[q][e] = "absent"
      BY <2>1, ZenonT(60) DEF NewIsUnseen
    <3>1. issuer'[e] = i \/ issuer'[e] = issuer[e]
      BY <1>0, <2>1, ZenonT(60)
    <3> QED
      BY <2>1, <3>1, ZenonT(60) DEF NewIsUnseen
  <2>4. KnownIsNamed'
    <3> SUFFICES ASSUME NEW p \in Pods, NEW u \in Usages, NEW e \in Domains,
                        issuer'[e] \in Issuers, seenIssuer[p][e] \in Issuers,
                        e \notin queue[<<p, u>>], ~Busy(<<p, u>>, e)
                 PROVE  <<e, u>> \in named'
      BY <2>1, ZenonT(60) DEF KnownIsNamed, Exists, Busy
    <3>1. "absent" \notin Issuers /\ "deleted" \notin Issuers
      BY NamesAssumption
    <3>2. Exists(e)
      BY <2>1, <2>2, <3>1, ZenonT(60) DEF Exists, NewIsUnseen
    <3>3. <<e, u>> \in named
      BY <3>2, ZenonT(60) DEF KnownIsNamed
    <3>4. e = d => i # "deleted"
      BY <2>2, <3>1, ZenonT(60)
    <3> QED
      BY <2>1, <3>3, <3>4
  <2> QED
    BY <2>3, <2>4
<1>12. ASSUME NEW s \in Secrets, NEW to \in SecretValues, ChangeSecret(s, to) PROVE KnownIsNamed' /\ NewIsUnseen'
  <2>1. UNCHANGED <<issuer, named, seenIssuer, queue>> /\ worker' = Written(s)
    BY <1>12, ZenonT(60) DEF ChangeSecret, podVars
  <2>2. \A v \in Controllers : SameSync(v)
    BY <1>0, <2>1, WrittenLemma, ZenonT(60) DEF SameSync
  <2> QED
    BY <2>1, <2>2, NamedStays, ZenonT(60)
<1>13. ASSUME NEW w \in Controllers, Step(w) \/ Write(w) \/ Fails(w) PROVE KnownIsNamed' /\ NewIsUnseen'
  BY <1>2, <1>3, <1>4, <1>5, <1>13, ZenonT(60) DEF Step, Write
<1>14. ASSUME NEW p \in Pods, Informer(p) \/ Resync(p) \/ Reader(p) \/ Restart(p) PROVE KnownIsNamed' /\ NewIsUnseen'
  BY <1>6, <1>7, <1>8, <1>9, <1>10, <1>14, ZenonT(60) DEF Informer
<1> QED
  BY <1>1, <1>11, <1>12, <1>13, <1>14, ZenonT(60) DEF Next, Act, Users

\* Sync and handleKey: in every pod, leader or not, a controller that is neither in a Sync of a
\* FederationDomain nor has it in its queue has written its status, if the informer is up to date.
THEOREM RestMeansNamed == Spec => []SettledIsNamed
<1>1. Init => KnownIsNamed /\ NewIsUnseen
  <2> SUFFICES ASSUME Init PROVE KnownIsNamed /\ NewIsUnseen
    OBVIOUS
  <2>1. \A p \in Pods : seenIssuer[p] = issuer
    BY ZenonT(60) DEF Init
  <2>2. \A p \in Pods, u \in Usages : queue[<<p, u>>] = {d \in Domains : Exists(d)}
    BY ZenonT(60) DEF Init, Controllers
  <2> QED
    BY <2>1, <2>2, ZenonT(60) DEF KnownIsNamed, NewIsUnseen
<1>2. KnownIsNamed => SettledIsNamed
  BY ZenonT(60) DEF KnownIsNamed, SettledIsNamed, Exists
<1>3. Inv /\ KnownIsNamed /\ NewIsUnseen /\ [Next]_vars => KnownIsNamed' /\ NewIsUnseen'
  BY NamedNext
<1> QED
  BY <1>1, <1>2, <1>3, InvAlways, PTL DEF Spec
=============================================================================
