------------------------ MODULE LeaderElectionProofs ------------------------
(***************************************************************************)
(* Proofs about LeaderElection for any set of pods and any durations that  *)
(* satisfy LeaseAssumption.  The invariant Inv says, beyond the types, how *)
(* old the Lease of a leading pod can be (LeadersLease): younger than the  *)
(* age at which another pod may take it (UpdateIsAllowed).                 *)
(***************************************************************************)
EXTENDS LeaderElection, TLAPS

\* The provers of a leaf that names none, with time to spare on a busy machine.
USE SMTT(30), ZenonT(60)

\* No pod leads or has observed the Lease at the start.
LEMMA InvInit == Init => Inv
  BY PodsAssumption, TimesAssumption
     DEF Init, Inv, TypeOK, SeenIsCurrent, LeadersLease, AnsweredIsLast, UpdateIsAllowed,
         StatusIsLeading, ReleasesItsOwn, Phases, Calls, Leading

\* Time does not pass beyond what a leading elector must act upon.
LEMMA TickIs ==
  ASSUME TypeOK, LeadersLease, Tick, NEW p \in Pods
  PROVE  /\ phase[p] = "waiting" => timer[p] < RetryPeriod /\ timer'[p] = timer[p] + 1
         /\ phase[p] = "renewing" => timer[p] < RenewDeadline /\ timer'[p] = timer[p] + 1
<1>1. timer[p] \in Nat /\ RetryPeriod \in Nat /\ RenewDeadline \in Nat
  BY TimesAssumption DEF TypeOK
<1>2. timer'[p] = IF Leading(p) THEN timer[p] + 1 ELSE timer[p]
  BY ZenonT(60) DEF Tick
<1>3. phase[p] = "waiting" => timer[p] # RetryPeriod /\ timer[p] <= RetryPeriod /\ Leading(p)
  BY ZenonT(60) DEF Tick, Urgent, LeadersLease, Leading
<1>4. phase[p] = "renewing" => timer[p] # RenewDeadline /\ timer[p] <= RenewDeadline /\ Leading(p)
  BY ZenonT(60) DEF Tick, Urgent, LosesLease, LeadersLease, Leading
<1> QED
  BY <1>1, <1>2, <1>3, <1>4

\* No step of a pod or of time takes the state out of the invariant.
LEMMA InvNext == Inv /\ [Next]_vars => Inv'
<1> SUFFICES ASSUME Inv, [Next]_vars PROVE Inv'
  OBVIOUS
<1> USE PodsAssumption, TimesAssumption, LeaseAssumption DEF Inv
<1>1. CASE UNCHANGED vars
  BY <1>1 DEF TypeOK, SeenIsCurrent, LeadersLease, AnsweredIsLast, UpdateIsAllowed,
    StatusIsLeading, ReleasesItsOwn, Phases, Calls, Leading, vars, lease, record, elector, starter
<1>2. CASE Tick
  <2>1. ASSUME NEW p \in Pods, phase[p] = "waiting"
       PROVE  timer[p] < RetryPeriod /\ timer'[p] = timer[p] + 1
    BY <1>2, <2>1, TickIs, ZenonT(60)
  <2>2. ASSUME NEW p \in Pods, phase[p] = "renewing"
       PROVE  timer[p] < RenewDeadline /\ timer'[p] = timer[p] + 1
    BY <1>2, <2>2, TickIs, ZenonT(60)
  <2>3. TypeOK'
    <3>1. leaseAge' \in 0..LeaseDuration /\ observedAge' \in [Pods -> 0..LeaseDuration]
      BY <1>2 DEF TypeOK, Tick, Older
    <3>2. timer' \in [Pods -> 0..(RetryPeriod + RenewDeadline)]
      BY <1>2, <2>1, <2>2 DEF TypeOK, Leading, Tick
    <3>3. delay' \in [Pods -> 0..MaxResponseDelay]
      <4>1. \A p \in Pods : delay[p] \in 0..MaxResponseDelay /\ (call[p] = "answer" => delay[p] # MaxResponseDelay)
        BY <1>2, ZenonT(60) DEF TypeOK, Tick, Urgent
      <4>2. delay' = [p \in Pods |-> IF call[p] = "answer" THEN delay[p] + 1 ELSE delay[p]]
        BY <1>2, ZenonT(60) DEF Tick
      <4> QED
        BY <4>1, <4>2
    <3>4. startAge' \in [Pods -> 0..MaxStartDelay]
      <4>1. \A p \in Pods : startAge[p] \in 0..MaxStartDelay /\ (starting[p] => startAge[p] # MaxStartDelay)
        BY <1>2, ZenonT(60) DEF TypeOK, Tick, Urgent
      <4>2. startAge' = [p \in Pods |-> IF starting[p] THEN startAge[p] + 1 ELSE startAge[p]]
        BY <1>2, ZenonT(60) DEF Tick
      <4> QED
        BY <4>1, <4>2
    <3> QED
      BY <1>2, <3>1, <3>2, <3>3, <3>4 DEF TypeOK, Tick
  <2>4. SeenIsCurrent'
    BY <1>2 DEF TypeOK, SeenIsCurrent, Tick, Older
  <2>5. LeadersLease'
    <3>1. leaseAge' <= leaseAge + 1
      BY <1>2 DEF TypeOK, Tick, Older
    <3> QED
      BY <1>2, <2>1, <2>2, <2>3, <3>1 DEF TypeOK, LeadersLease, Leading, Tick
  <2>6. AnsweredIsLast'
    BY <1>2 DEF TypeOK, AnsweredIsLast, Tick, Older
  <2>7. UpdateIsAllowed'
    BY <1>2 DEF TypeOK, UpdateIsAllowed, Tick, Older
  <2>8. StatusIsLeading' /\ ReleasesItsOwn'
    BY <1>2 DEF TypeOK, StatusIsLeading, ReleasesItsOwn, Leading, Tick
  <2> QED
    BY <2>1, <2>2, <2>3, <2>4, <2>5, <2>6, <2>7, <2>8
<1>3. ASSUME NEW p \in Pods, GetLease(p) PROVE Inv'
  <2>1. TypeOK'
    BY <1>3 DEF TypeOK, Calls, GetLease, MayCall, lease, starter
  <2>2. SeenIsCurrent'
    BY <1>3 DEF TypeOK, SeenIsCurrent, GetLease, MayCall, lease, starter
  <2>3. LeadersLease' /\ AnsweredIsLast'
    BY <1>3 DEF TypeOK, LeadersLease, AnsweredIsLast, Leading, GetLease, MayCall, lease, starter
  <2>4. UpdateIsAllowed'
    BY <1>3 DEF TypeOK, SeenIsCurrent, UpdateIsAllowed, GetLease, MayCall, lease, starter
  <2>5. StatusIsLeading' /\ ReleasesItsOwn'
    BY <1>3 DEF TypeOK, StatusIsLeading, ReleasesItsOwn, Leading, GetLease, MayCall, lease,
      starter
  <2> QED
    BY <2>1, <2>2, <2>3, <2>4, <2>5
<1>4. ASSUME NEW p \in Pods, UpdateLease(p) PROVE Inv'
  <2>1. TypeOK'
    <3>1. seen' = [q \in Pods |-> FALSE] \/ seen' = seen
      BY <1>4 DEF UpdateLease, WriteLease
    <3>2. call' \in [Pods -> Calls] /\ delay' \in [Pods -> 0..MaxResponseDelay]
      BY <1>4 DEF TypeOK, Calls, UpdateLease, CallEnds
    <3>3. holder' \in Pods \cup {Nobody} /\ leaseAge' \in 0..LeaseDuration
      BY <1>4 DEF TypeOK, UpdateLease, WriteLease, lease
    <3>4. seen' \in [Pods -> BOOLEAN]
      BY <3>1, ZenonT(60) DEF TypeOK
    <3>5. UNCHANGED <<observed, observedAge, phase, timer, starting, startAge, isLeader, running>>
      BY <1>4 DEF UpdateLease, starter
    <3> QED
      BY <3>2, <3>3, <3>4, <3>5 DEF TypeOK
  <2>2. SeenIsCurrent'
    BY <1>4 DEF TypeOK, SeenIsCurrent, UpdateLease, WriteLease, CallEnds, lease, starter
  <2>3. LeadersLease'
    BY <1>4 DEF TypeOK, LeadersLease, UpdateIsAllowed, Leading, UpdateLease, WriteLease, CallEnds,
      lease, starter
  <2>4. AnsweredIsLast'
    BY <1>4 DEF TypeOK, LeadersLease, AnsweredIsLast, UpdateIsAllowed, UpdateLease, WriteLease,
      CallEnds, lease, starter
  <2>5. UpdateIsAllowed'
    BY <1>4 DEF TypeOK, UpdateIsAllowed, UpdateLease, WriteLease, CallEnds, lease, starter
  <2>6. StatusIsLeading' /\ ReleasesItsOwn'
    BY <1>4 DEF TypeOK, StatusIsLeading, ReleasesItsOwn, Leading, UpdateLease, WriteLease,
      CallEnds, lease, starter
  <2> QED
    BY <2>1, <2>2, <2>3, <2>4, <2>5, <2>6
<1>5. ASSUME NEW p \in Pods, FailCall(p) PROVE Inv'
  BY <1>5 DEF TypeOK, SeenIsCurrent, LeadersLease, AnsweredIsLast, UpdateIsAllowed,
    StatusIsLeading, ReleasesItsOwn, Phases, Calls, Leading, FailCall, CallEnds, lease, record,
    starter
<1>6. ASSUME NEW p \in Pods, Acquired(p) PROVE Inv'
  <2>1. TypeOK'
    BY <1>6 DEF TypeOK, Phases, Calls, Acquired, Observe, CallEnds, lease, starter
  <2>2. seen'[p] = (holder = p) /\ observed'[p] = p /\ observedAge'[p] = 0
    BY <1>6 DEF TypeOK, Acquired, Observe, CallEnds, lease, starter
  <2>3. SeenIsCurrent'
    <3>1. ASSUME seen'[p] PROVE observed'[p] = holder' /\ observedAge'[p] <= leaseAge'
      BY <1>6, <2>2 DEF TypeOK, AnsweredIsLast, Acquired, lease
    <3>2. ASSUME NEW q \in Pods \ {p} PROVE seen'[q] = seen[q] /\ observed'[q] = observed[q] /\ observedAge'[q] = observedAge[q]
      BY <1>6, <3>2 DEF TypeOK, Acquired, Observe
    <3> QED
      BY <1>6, <3>1, <3>2 DEF SeenIsCurrent, Acquired, lease
  <2>4. LeadersLease'
    BY <1>6 DEF TypeOK, LeadersLease, AnsweredIsLast, Leading, Acquired, Observe, CallEnds, lease,
      starter
  <2>5. AnsweredIsLast' /\ UpdateIsAllowed'
    BY <1>6 DEF TypeOK, AnsweredIsLast, UpdateIsAllowed, Acquired, Observe, CallEnds, lease,
      starter
  <2>6. StatusIsLeading' /\ ReleasesItsOwn'
    BY <1>6 DEF TypeOK, StatusIsLeading, ReleasesItsOwn, Leading, Acquired, Observe, CallEnds,
      lease, starter
  <2> QED
    BY <2>1, <2>2, <2>3, <2>4, <2>5, <2>6
<1>7. ASSUME NEW p \in Pods, Renewed(p) PROVE Inv'
  <2>1. TypeOK'
    BY <1>7 DEF TypeOK, Phases, Calls, Renewed, Observe, CallEnds, lease, starter
  <2>2. seen'[p] = (holder = p) /\ observed'[p] = p /\ observedAge'[p] = 0
    BY <1>7 DEF TypeOK, Renewed, Observe, CallEnds, lease, starter
  <2>3. SeenIsCurrent'
    <3>1. ASSUME seen'[p] PROVE observed'[p] = holder' /\ observedAge'[p] <= leaseAge'
      BY <1>7, <2>2 DEF TypeOK, AnsweredIsLast, Renewed, lease
    <3>2. ASSUME NEW q \in Pods \ {p} PROVE seen'[q] = seen[q] /\ observed'[q] = observed[q] /\ observedAge'[q] = observedAge[q]
      BY <1>7, <3>2 DEF TypeOK, Renewed, Observe
    <3> QED
      BY <1>7, <3>1, <3>2 DEF SeenIsCurrent, Renewed, lease
  <2>4. LeadersLease'
    BY <1>7 DEF TypeOK, LeadersLease, AnsweredIsLast, Leading, Renewed, Observe, CallEnds, lease,
      starter
  <2>5. AnsweredIsLast' /\ UpdateIsAllowed'
    BY <1>7 DEF TypeOK, AnsweredIsLast, UpdateIsAllowed, Renewed, Observe, CallEnds, lease,
      starter
  <2>6. StatusIsLeading' /\ ReleasesItsOwn'
    BY <1>7 DEF TypeOK, StatusIsLeading, ReleasesItsOwn, Leading, Renewed, Observe, CallEnds,
      lease, starter
  <2> QED
    BY <2>1, <2>2, <2>3, <2>4, <2>5, <2>6
<1>8. ASSUME NEW p \in Pods, RenewAgain(p) PROVE Inv'
  <2>1. TypeOK'
    BY <1>8 DEF TypeOK, Phases, Calls, RenewAgain, lease, record, starter
  <2>2. SeenIsCurrent' /\ AnsweredIsLast' /\ UpdateIsAllowed'
    BY <1>8 DEF TypeOK, SeenIsCurrent, AnsweredIsLast, UpdateIsAllowed, RenewAgain, lease, record, starter
  <2>3. LeadersLease'
    BY <1>8 DEF TypeOK, LeadersLease, Leading, RenewAgain, lease, record, starter
  <2>4. StatusIsLeading' /\ ReleasesItsOwn'
    BY <1>8 DEF TypeOK, StatusIsLeading, ReleasesItsOwn, Leading, RenewAgain, lease, record, starter
  <2> QED
    BY <2>1, <2>2, <2>3, <2>4
<1>9. ASSUME NEW p \in Pods, Start(p) PROVE Inv'
  <2>1. TypeOK'
    BY <1>9 DEF TypeOK, Phases, Calls, Start, lease, record, elector
  <2>2. SeenIsCurrent' /\ AnsweredIsLast' /\ UpdateIsAllowed'
    BY <1>9 DEF TypeOK, SeenIsCurrent, AnsweredIsLast, UpdateIsAllowed, Start, lease, record, elector
  <2>3. LeadersLease'
    BY <1>9 DEF TypeOK, LeadersLease, Leading, Start, lease, record, elector
  <2>4. StatusIsLeading' /\ ReleasesItsOwn'
    BY <1>9 DEF TypeOK, StatusIsLeading, ReleasesItsOwn, Leading, Start, lease, record, elector
  <2> QED
    BY <2>1, <2>2, <2>3, <2>4
<1>10. ASSUME NEW p \in Pods, BeforeRelease(p) PROVE Inv'
  <2>1. TypeOK'
    <3>1. seen' \in [Pods -> BOOLEAN]
      BY <1>10, ZenonT(60) DEF TypeOK, BeforeRelease, NewElector
    <3>2. phase' \in [Pods -> Phases]
      BY <1>10 DEF TypeOK, Phases, BeforeRelease, NewElector
    <3>3. call' \in [Pods -> Calls] /\ delay' \in [Pods -> 0..MaxResponseDelay]
      BY <1>10 DEF TypeOK, Calls, BeforeRelease, CallEnds
    <3>4. timer' \in [Pods -> 0..(RetryPeriod + RenewDeadline)] /\ isLeader' \in [Pods -> BOOLEAN]
      BY <1>10 DEF TypeOK, BeforeRelease
    <3> QED
      BY <1>10, <3>1, <3>2, <3>3, <3>4 DEF TypeOK, BeforeRelease, lease, starter
  <2>2. SeenIsCurrent'
    BY <1>10 DEF TypeOK, SeenIsCurrent, BeforeRelease, LosesLease, CallEnds, NewElector, lease,
      starter
  <2>3. LeadersLease' /\ AnsweredIsLast' /\ UpdateIsAllowed'
    BY <1>10 DEF TypeOK, LeadersLease, AnsweredIsLast, UpdateIsAllowed, Leading, BeforeRelease,
      LosesLease, CallEnds, NewElector, lease, starter
  <2>4. ~starting[p] \/ ~running[p]
    BY <1>10 DEF TypeOK, StatusIsLeading, LeadersLease, Leading, LosesLease, BeforeRelease
  <2>5. StatusIsLeading'
    BY <1>10, <2>4 DEF TypeOK, StatusIsLeading, Leading, BeforeRelease, LosesLease, CallEnds,
      NewElector, lease, starter
  <2>6. ReleasesItsOwn'
    BY <1>10 DEF TypeOK, ReleasesItsOwn, BeforeRelease, LosesLease, CallEnds, NewElector, lease,
      starter
  <2> QED
    BY <2>1, <2>2, <2>3, <2>4, <2>5, <2>6
<1>11. ASSUME NEW p \in Pods, NEW ok \in BOOLEAN, Release(p, ok) PROVE Inv'
  <2>1. TypeOK'
    <3>1. \/ seen' = [q \in Pods |-> FALSE]
         \/ seen' = [seen EXCEPT ![p] = FALSE]
      BY <1>11 DEF Release, WriteLease, NewElector
    <3>2. phase' \in [Pods -> Phases]
      BY <1>11 DEF TypeOK, Phases, Release, NewElector
    <3>3. holder' \in Pods \cup {Nobody} /\ leaseAge' \in 0..LeaseDuration
      BY <1>11 DEF TypeOK, Release, WriteLease, lease
    <3> QED
      BY <1>11, <3>1, <3>2, <3>3, ZenonT(60) DEF TypeOK, Release, starter
  <2>2. ok /\ seen[p] => holder = p
    BY <1>11 DEF SeenIsCurrent, ReleasesItsOwn, Release
  <2>3. SeenIsCurrent'
    BY <1>11 DEF TypeOK, SeenIsCurrent, Release, WriteLease, NewElector, lease, starter
  <2>4. LeadersLease'
    BY <1>11, <2>2 DEF TypeOK, LeadersLease, Leading, Release, WriteLease, NewElector, lease,
      starter
  <2>5. AnsweredIsLast' /\ UpdateIsAllowed'
    BY <1>11, <2>2 DEF TypeOK, AnsweredIsLast, UpdateIsAllowed, ReleasesItsOwn, Release,
      WriteLease, NewElector, lease, starter
  <2>6. StatusIsLeading' /\ ReleasesItsOwn'
    BY <1>11 DEF TypeOK, StatusIsLeading, ReleasesItsOwn, Leading, Release, WriteLease,
      NewElector, lease, starter
  <2> QED
    BY <2>1, <2>2, <2>3, <2>4, <2>5, <2>6
<1>12. ASSUME NEW p \in Pods, ControllersStop(p) PROVE Inv'
  <2>1. TypeOK'
    BY <1>12 DEF TypeOK, Phases, Calls, ControllersStop, lease, record, elector, starter
  <2>2. SeenIsCurrent' /\ AnsweredIsLast' /\ UpdateIsAllowed'
    BY <1>12 DEF TypeOK, SeenIsCurrent, AnsweredIsLast, UpdateIsAllowed, ControllersStop, lease, record, elector, starter
  <2>3. LeadersLease'
    BY <1>12 DEF TypeOK, LeadersLease, Leading, ControllersStop, lease, record, elector, starter
  <2>4. StatusIsLeading' /\ ReleasesItsOwn'
    BY <1>12 DEF TypeOK, StatusIsLeading, ReleasesItsOwn, Leading, ControllersStop, lease, record, elector, starter
  <2> QED
    BY <2>1, <2>2, <2>3, <2>4
<1>13. ASSUME NEW p \in Pods, End(p) PROVE Inv'
  <2>1. TypeOK'
    BY <1>13 DEF TypeOK, Phases, Calls, End, CallEnds, lease, record, starter
  <2>2. SeenIsCurrent' /\ AnsweredIsLast' /\ UpdateIsAllowed'
    BY <1>13 DEF TypeOK, SeenIsCurrent, AnsweredIsLast, UpdateIsAllowed, End, CallEnds, lease, record, starter
  <2>3. LeadersLease'
    BY <1>13 DEF TypeOK, LeadersLease, Leading, End, CallEnds, lease, record, starter
  <2>4. StatusIsLeading' /\ ReleasesItsOwn'
    BY <1>13 DEF TypeOK, StatusIsLeading, ReleasesItsOwn, Leading, End, CallEnds, lease, record, starter
  <2> QED
    BY <2>1, <2>2, <2>3, <2>4
<1>14. ASSUME NEW p \in Pods, Restart(p) PROVE Inv'
  <2>1. TypeOK'
    <3>1. holder' \in Pods \cup {Nobody} /\ leaseAge' \in 0..LeaseDuration
      BY <1>14 DEF TypeOK, Restart, lease
    <3>2. observedAge' \in [Pods -> 0..LeaseDuration] /\ timer' \in [Pods -> 0..(RetryPeriod + RenewDeadline)]
      BY <1>14 DEF TypeOK, Restart
    <3>3. delay' \in [Pods -> 0..MaxResponseDelay] /\ startAge' \in [Pods -> 0..MaxStartDelay]
      BY <1>14 DEF TypeOK, Restart, CallEnds
    <3>4. observed' \in [Pods -> Pods \cup {Nobody}] /\ phase' \in [Pods -> Phases]
          /\ call' \in [Pods -> Calls]
      BY <1>14 DEF TypeOK, Restart, CallEnds, Phases, Calls
    <3>5. seen' \in [Pods -> BOOLEAN] /\ starting' \in [Pods -> BOOLEAN]
          /\ isLeader' \in [Pods -> BOOLEAN] /\ running' \in [Pods -> BOOLEAN]
      BY <1>14 DEF TypeOK, Restart
    <3> QED
      BY <3>1, <3>2, <3>3, <3>4, <3>5 DEF TypeOK
  <2>2. SeenIsCurrent' /\ LeadersLease'
    BY <1>14 DEF TypeOK, SeenIsCurrent, LeadersLease, Leading, Restart, CallEnds, lease
  <2>3. AnsweredIsLast' /\ UpdateIsAllowed'
    BY <1>14 DEF TypeOK, AnsweredIsLast, UpdateIsAllowed, Restart, CallEnds, lease
  <2>4. StatusIsLeading' /\ ReleasesItsOwn'
    BY <1>14 DEF TypeOK, StatusIsLeading, ReleasesItsOwn, Leading, Restart, CallEnds, lease
  <2> QED
    BY <2>1, <2>2, <2>3, <2>4
<1> QED
  BY <1>1, <1>2, <1>3, <1>4, <1>5, <1>6, <1>7, <1>8, <1>9, <1>10, <1>11, <1>12, <1>13, <1>14,
    ZenonT(60) DEF Next, Step

\* The invariant holds in every behaviour.
THEOREM InvAlways == Spec => []Inv
  BY InvInit, InvNext, PTL DEF Spec

\* Type correctness, for any number of pods; a round of renewals ends at its deadline.
THEOREM TypeCorrect == Spec => []TypeOK
<1>1. Inv => TypeOK
  BY DEF Inv
<1> QED
  BY <1>1, InvAlways, PTL

\* A pod that canWrite lets write holds the Lease at the API server.
THEOREM WriterIsHolder == Spec => []WriterHoldsLease
<1>1. Inv => WriterHoldsLease
  BY ZenonT(60) DEF Inv, StatusIsLeading, LeadersLease, WriterHoldsLease, Writer
<1> QED
  BY <1>1, InvAlways, PTL

\* Never do two pods' controllers have canWrite at once.
THEOREM OneWriter == Spec => []AtMostOneWriter
<1>1. WriterHoldsLease => AtMostOneWriter
  BY DEF WriterHoldsLease, AtMostOneWriter
<1> QED
  BY <1>1, WriterIsHolder, PTL

\* No step changes both the holder of the Lease and who may write.
LEMMA OneAtATime == [Next]_vars => UNCHANGED holder \/ UNCHANGED <<isLeader, running>>
  BY ZenonT(60) DEF Next, Step, vars, lease, record, elector, starter, Tick, GetLease, UpdateLease, FailCall,
    Acquired, Renewed, RenewAgain, Start, BeforeRelease, Release, ControllersStop, End, Restart

\* A step is a step of the lock, or one that the lock does not notice: whoever may write
\* before or after it is the holder of the Lease before or after it.
LEMMA LockStep == Inv /\ Inv' /\ [Next]_vars => [Lock!Next]_(Lock!vars)
<1> DEFINE W == {p \in Pods : Writer(p)}
<1> SUFFICES ASSUME Inv, Inv', [Next]_vars PROVE [Lock!Next]_(Lock!vars)
  OBVIOUS
<1>1. W \subseteq {holder} /\ W' \subseteq {holder'}
  BY ZenonT(60) DEF Inv, StatusIsLeading, LeadersLease, Writer
<1>2. holder' \in Pods \cup {Nobody} /\ W \subseteq Pods /\ W' \subseteq Pods
  BY DEF Inv, TypeOK
<1>3. CASE UNCHANGED holder
  BY <1>1, <1>2, <1>3 DEF Lock!Next, Lock!Stop, Lock!Begin, Lock!vars
<1>4. CASE UNCHANGED <<isLeader, running>>
  <2>1. W' = W
    BY <1>4 DEF Writer
  <2> QED
    BY <1>1, <1>2, <2>1 DEF Lock!Next, Lock!Pass, Lock!vars
<1> QED
  BY <1>3, <1>4, OneAtATime

\* The election implements the lock, for any number of pods and any durations that
\* satisfy LeaseAssumption.
THEOREM ElectionIsALock == Spec => ImplementsLock
<1>1. Init => Lock!Init
  BY DEF Init, Lock!Init, Writer
<1> QED
  BY <1>1, InvAlways, LockStep, PTL DEF Spec, ImplementsLock, Lock!Spec
=============================================================================
