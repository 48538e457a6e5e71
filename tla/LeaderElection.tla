--------------------------- MODULE LeaderElection ---------------------------
(***************************************************************************)
(* The pods of a deployment elect, through a Lease object, the one whose   *)
(* controllers may write to the Kubernetes API.                            *)
(*                                                                         *)
(*   internal/leaderelection/leaderelection.go   New, releaseLock          *)
(*   internal/controllerlib/{controller,manager}.go   shutdown             *)
(*   client-go's leaderelection.LeaderElector is external: how it acquires,*)
(*   renews and releases the lock that newLeaderElectionConfig gives it.   *)
(*                                                                         *)
(* Time is discrete and kept as ages, which Tick increases.  Resource      *)
(* versions are kept as seen[p]: the Lease is as pod p last saw it, so an  *)
(* Update by p does not conflict.                                          *)
(***************************************************************************)
EXTENDS Naturals

CONSTANTS
  Pods,
  Nobody,           \* the empty HolderIdentity
  LeaseDuration, RenewDeadline, RetryPeriod,
  MaxResponseDelay, \* of the API server to the Update of a Lease
  MaxStartDelay,    \* until the goroutine of OnStartedLeading has run
  Mortal            \* the pods that may crash or be shut down

ASSUME PodsAssumption == Nobody \notin Pods /\ Mortal \subseteq Pods

ASSUME TimesAssumption ==
  /\ LeaseDuration \in Nat /\ RenewDeadline \in Nat /\ RetryPeriod \in Nat
  /\ MaxResponseDelay \in Nat /\ MaxStartDelay \in Nat

\* 137 s against 26 s + 107 s: four seconds are left for the API server's answer.
ASSUME LeaseAssumption ==
  /\ MaxResponseDelay + RetryPeriod + RenewDeadline < LeaseDuration
  /\ MaxStartDelay < RenewDeadline

VARIABLES
  holder,     \* of the Lease, at the API server
  leaseAge,   \* since the Lease was last written, up to LeaseDuration
  seen,       \* has pod p seen the Lease as it now is?
  observed,   \* the holder in the elector's observedRecord
  observedAge,\* since the elector's observedTime, up to LeaseDuration
  phase,      \* of the elector: acquiring, waiting, renewing, releasing or ended
  timer,      \* since a wait or a round of renewals began
  call,       \* the elector's API call: none, update (read and to be written) or answer
  delay,      \* since the Update whose answer is outstanding
  starting,   \* is the goroutine of OnStartedLeading still to run?
  startAge,   \* since that goroutine was started
  isLeader,   \* isLeaderTracker
  running     \* do the pod's controllers run?

lease == <<holder, leaseAge>>
record == <<seen, observed, observedAge>>
elector == <<phase, timer, call, delay>>
starter == <<starting, startAge>>
vars == <<lease, record, elector, starter, isLeader, running>>

Phases == {"acquiring", "waiting", "renewing", "releasing", "ended"}
Calls == {"none", "update", "answer"}

TypeOK ==
  /\ holder \in Pods \cup {Nobody} /\ leaseAge \in 0..LeaseDuration
  /\ seen \in [Pods -> BOOLEAN]
  /\ observed \in [Pods -> Pods \cup {Nobody}]
  /\ observedAge \in [Pods -> 0..LeaseDuration]
  /\ phase \in [Pods -> Phases] /\ timer \in [Pods -> 0..(RetryPeriod + RenewDeadline)]
  /\ call \in [Pods -> Calls] /\ delay \in [Pods -> 0..MaxResponseDelay]
  /\ starting \in [Pods -> BOOLEAN] /\ startAge \in [Pods -> 0..MaxStartDelay]
  /\ isLeader \in [Pods -> BOOLEAN] /\ running \in [Pods -> BOOLEAN]

Init ==
  /\ holder = Nobody /\ leaseAge = LeaseDuration
  /\ seen = [p \in Pods |-> FALSE]
  /\ observed = [p \in Pods |-> Nobody] /\ observedAge = [p \in Pods |-> 0]
  /\ phase = [p \in Pods |-> "acquiring"] /\ timer = [p \in Pods |-> 0]
  /\ call = [p \in Pods |-> "none"] /\ delay = [p \in Pods |-> 0]
  /\ starting = [p \in Pods |-> FALSE] /\ startAge = [p \in Pods |-> 0]
  /\ isLeader = [p \in Pods |-> FALSE] /\ running = [p \in Pods |-> TRUE]

-----------------------------------------------------------------------------
(* client-go's LeaderElector.                                              *)

Leading(p) == phase[p] \in {"waiting", "renewing"}
MayCall(p) == phase[p] \in {"acquiring", "renewing"} /\ call[p] = "none" /\ running[p]

\* tryAcquireOrRenew reads the Lease, and goes on to write it unless another pod holds
\* it and was seen renewing it less than LeaseDuration ago.
GetLease(p) ==
  LET age == IF seen[p] THEN observedAge[p] ELSE 0 IN
  /\ MayCall(p)
  /\ seen' = [seen EXCEPT ![p] = TRUE]
  /\ observed' = [observed EXCEPT ![p] = holder]
  /\ observedAge' = [observedAge EXCEPT ![p] = age]
  /\ call' = [call EXCEPT ![p] =
                IF holder \in {p, Nobody} \/ age = LeaseDuration THEN "update" ELSE "none"]
  /\ UNCHANGED <<lease, phase, timer, delay, starter, isLeader, running>>

CallEnds(p) == call' = [call EXCEPT ![p] = "none"] /\ delay' = [delay EXCEPT ![p] = 0]

\* Nobody has seen a Lease that was just written; the writer has once it is answered.
WriteLease(newHolder) ==
  /\ holder' = newHolder /\ leaseAge' = 0
  /\ seen' = [q \in Pods |-> FALSE]

\* The Update reaches the API server, and conflicts if the Lease was written meanwhile.
UpdateLease(p) ==
  /\ call[p] = "update"
  /\ IF seen[p]
     THEN /\ WriteLease(p)
          /\ call' = [call EXCEPT ![p] = "answer"]
          /\ delay' = [delay EXCEPT ![p] = 0]
     ELSE CallEnds(p) /\ UNCHANGED <<lease, seen>>
  /\ UNCHANGED <<observed, observedAge, phase, timer, starter, isLeader, running>>

\* The call fails, or its answer is lost.
FailCall(p) ==
  /\ call[p] # "none"
  /\ CallEnds(p)
  /\ UNCHANGED <<lease, record, phase, timer, starter, isLeader, running>>

\* setObservedRecord after a successful Update.  What p then knows is the Lease, unless
\* that was written again before the answer came.
Observe(p) ==
  /\ seen' = [seen EXCEPT ![p] = (holder = p)]
  /\ observed' = [observed EXCEPT ![p] = p]
  /\ observedAge' = [observedAge EXCEPT ![p] = 0]

\* The first success: Run starts OnStartedLeading in a goroutine, and renews at once.
Acquired(p) ==
  /\ call[p] = "answer" /\ phase[p] = "acquiring"
  /\ Observe(p) /\ CallEnds(p)
  /\ phase' = [phase EXCEPT ![p] = "renewing"] /\ timer' = [timer EXCEPT ![p] = 0]
  /\ starting' = [starting EXCEPT ![p] = TRUE] /\ startAge' = [startAge EXCEPT ![p] = 0]
  /\ UNCHANGED <<lease, isLeader, running>>

Renewed(p) ==
  /\ call[p] = "answer" /\ phase[p] = "renewing"
  /\ Observe(p) /\ CallEnds(p)
  /\ phase' = [phase EXCEPT ![p] = "waiting"] /\ timer' = [timer EXCEPT ![p] = 0]
  /\ UNCHANGED <<lease, starter, isLeader, running>>

RenewAgain(p) ==
  /\ phase[p] = "waiting" /\ timer[p] = RetryPeriod
  /\ phase' = [phase EXCEPT ![p] = "renewing"] /\ timer' = [timer EXCEPT ![p] = 0]
  /\ UNCHANGED <<lease, record, call, delay, starter, isLeader, running>>

-----------------------------------------------------------------------------
(* leaderelection.go.                                                      *)

\* OnStartedLeading.
Start(p) ==
  /\ starting[p]
  /\ starting' = [starting EXCEPT ![p] = FALSE] /\ startAge' = [startAge EXCEPT ![p] = 0]
  /\ isLeader' = [isLeader EXCEPT ![p] = TRUE]
  /\ UNCHANGED <<lease, record, elector, running>>

\* Renewal failed until the deadline, or the controllers have stopped and the elector's
\* context is cancelled.
MutLosesLease(p) == Leading(p) /\ ~running[p]
LosesLease(p) == \/ phase[p] = "renewing" /\ timer[p] = RenewDeadline
                 \/ Leading(p) /\ ~running[p]

MutNewElector(p) ==
  /\ phase' = [phase EXCEPT ![p] = "ended"]
  /\ seen' = [seen EXCEPT ![p] = FALSE]

\* New's loop runs a new elector, which has observed nothing.
NewElector(p) ==
  /\ phase' = [phase EXCEPT ![p] = "acquiring"]
  /\ seen' = [seen EXCEPT ![p] = FALSE]

MutBeforeRelease(p) ==
  /\ LosesLease(p)
  /\ CallEnds(p) /\ timer' = [timer EXCEPT ![p] = 0]
  /\ IF observed[p] = p
     THEN phase' = [phase EXCEPT ![p] = "releasing"] /\ UNCHANGED seen
     ELSE NewElector(p)
  /\ UNCHANGED <<lease, observed, observedAge, starter, isLeader, running>>

\* release calls releaseLock.Update, which stops before it makes the API call.  If the
\* elector saw another holder there is nothing to release, and OnStoppedLeading stops.
BeforeRelease(p) ==
  /\ LosesLease(p)
  /\ isLeader' = [isLeader EXCEPT ![p] = FALSE]
  /\ CallEnds(p) /\ timer' = [timer EXCEPT ![p] = 0]
  /\ IF observed[p] = p
     THEN phase' = [phase EXCEPT ![p] = "releasing"] /\ UNCHANGED seen
     ELSE NewElector(p)
  /\ UNCHANGED <<lease, observed, observedAge, starter, running>>

\* The Lease is released, unless the call fails or conflicts.
Release(p, ok) ==
  /\ phase[p] = "releasing"
  /\ IF ok /\ seen[p]
     THEN WriteLease(Nobody) /\ phase' = [phase EXCEPT ![p] = "acquiring"]
     ELSE NewElector(p) /\ UNCHANGED lease
  /\ UNCHANGED <<observed, observedAge, timer, call, delay, starter, isLeader, running>>

\* The process is told to shut down: the workers of every controller are cancelled and
\* have returned, then the leader status goes and the elector is cancelled.
ControllersStop(p) ==
  /\ p \in Mortal /\ running[p]
  /\ running' = [running EXCEPT ![p] = FALSE]
  /\ isLeader' = [isLeader EXCEPT ![p] = FALSE]
  /\ UNCHANGED <<lease, record, elector, starter>>

\* The elector returns to New's loop, which ends.
End(p) ==
  /\ ~running[p] /\ phase[p] = "acquiring"
  /\ phase' = [phase EXCEPT ![p] = "ended"] /\ CallEnds(p)
  /\ UNCHANGED <<lease, record, timer, starter, isLeader, running>>

\* A crash at any moment, or the end of the process; the container starts again with
\* the same identity, the pod's name.
Restart(p) ==
  /\ p \in Mortal
  /\ seen' = [seen EXCEPT ![p] = FALSE]
  /\ observed' = [observed EXCEPT ![p] = Nobody]
  /\ observedAge' = [observedAge EXCEPT ![p] = 0]
  /\ phase' = [phase EXCEPT ![p] = "acquiring"] /\ timer' = [timer EXCEPT ![p] = 0]
  /\ CallEnds(p)
  /\ starting' = [starting EXCEPT ![p] = FALSE] /\ startAge' = [startAge EXCEPT ![p] = 0]
  /\ isLeader' = [isLeader EXCEPT ![p] = FALSE] /\ running' = [running EXCEPT ![p] = TRUE]
  /\ UNCHANGED lease

-----------------------------------------------------------------------------
\* Every pod acts in time: the API server answers, goroutines run, waits end.
Urgent(p) == \/ phase[p] = "waiting" /\ timer[p] = RetryPeriod
             \/ LosesLease(p)
             \/ call[p] = "answer" /\ delay[p] = MaxResponseDelay
             \/ starting[p] /\ startAge[p] = MaxStartDelay

Older(age, limit) == IF age < limit THEN age + 1 ELSE limit

Tick ==
  /\ \A p \in Pods : ~Urgent(p)
  /\ leaseAge' = Older(leaseAge, LeaseDuration)
  /\ observedAge' = [p \in Pods |-> Older(observedAge[p], LeaseDuration)]
  /\ timer' = [p \in Pods |-> IF Leading(p) THEN timer[p] + 1 ELSE timer[p]]
  /\ delay' = [p \in Pods |-> IF call[p] = "answer" THEN delay[p] + 1 ELSE delay[p]]
  /\ startAge' = [p \in Pods |-> IF starting[p] THEN startAge[p] + 1 ELSE startAge[p]]
  /\ UNCHANGED <<holder, seen, observed, phase, call, starting, isLeader, running>>

Step(p) == \/ GetLease(p) \/ UpdateLease(p) \/ FailCall(p) \/ Acquired(p) \/ Renewed(p)
           \/ RenewAgain(p) \/ Start(p) \/ BeforeRelease(p) \/ Release(p, TRUE) \/ Release(p, FALSE)
           \/ ControllersStop(p) \/ End(p) \/ Restart(p)
Next == Tick \/ \E p \in Pods : Step(p)
Spec == Init /\ [][Next]_vars

\* Pods do not crash for ever, and of the API calls that a pod makes again and again
\* some succeed and are answered.
FairSpec ==
  /\ Spec
  /\ <>[][~\E p \in Pods : Restart(p)]_vars
  /\ SF_vars(Tick)
  /\ \A p \in Pods :
       /\ WF_vars(Start(p)) /\ WF_vars(RenewAgain(p)) /\ WF_vars(BeforeRelease(p))
       /\ WF_vars(Release(p, TRUE) \/ Release(p, FALSE)) /\ WF_vars(End(p))
       /\ SF_vars(GetLease(p)) /\ SF_vars(UpdateLease(p)) /\ SF_vars(Acquired(p) \/ Renewed(p))

-----------------------------------------------------------------------------
(* Properties.                                                             *)

\* The pods whose controllers the middleware writeOnlyWhenLeader lets write: canWrite at
\* the moment it is asked.  A request that it let pass is on its way from then on, and
\* nothing here holds it back.
Writer(p) == running[p] /\ isLeader[p]

\* canWrite is true on at most one pod at any time: status is dropped before the Lease
\* is released or can expire, although renewals fail, answers are lost and pods crash.
AtMostOneWriter == \A p, q \in Pods : Writer(p) /\ Writer(q) => p = q

\* canWrite implies that the pod holds the Lease at the API server at that very moment
\* (the race that the comment on releaseLock describes does not exist).
WriterHoldsLease == \A p \in Pods : Writer(p) => holder = p

\* However leaders fail, some pod's controllers can write again in the end: a Lease that
\* is not released, or whose release fails, expires and is taken over.
AlwaysAWriterAgain == []<>(\E p \in Pods : Writer(p))

\* The whole mechanism implements a lock: a pod gains the right to write only while it
\* holds the Lease and nobody has that right, and the Lease changes hands only between
\* two writers.
Lock == INSTANCE WriterLock WITH writers <- {p \in Pods : Writer(p)}
ImplementsLock == Lock!Spec

-----------------------------------------------------------------------------
(* The inductive invariant.                                                *)

\* What an elector has seen of the current Lease is not older than the Lease.
SeenIsCurrent == \A p \in Pods : seen[p] => observed[p] = holder /\ observedAge[p] <= leaseAge

\* A leading elector holds a Lease that it renewed recently enough.
LeadersLease ==
  \A p \in Pods :
    /\ Leading(p) => holder = p
    /\ phase[p] = "waiting" => timer[p] <= RetryPeriod /\ leaseAge <= MaxResponseDelay + timer[p]
    /\ phase[p] = "renewing" => /\ timer[p] <= RenewDeadline
                                /\ leaseAge <= MaxResponseDelay + RetryPeriod + timer[p]

\* An Update that is being answered was the last write of the Lease.
AnsweredIsLast == \A p \in Pods : call[p] = "answer" => holder = p /\ leaseAge <= delay[p]

\* An Update that will not conflict takes a Lease that is free, its own, or expired.
UpdateIsAllowed ==
  \A p \in Pods : call[p] = "update" /\ seen[p] => holder \in {p, Nobody} \/ leaseAge = LeaseDuration

\* The leader status belongs to a leading elector, and is set before that can give up.
StatusIsLeading ==
  \A p \in Pods :
    running[p] => /\ isLeader[p] => Leading(p)
                  /\ starting[p] => Leading(p) /\ timer[p] <= startAge[p]

\* A Lease is released by the elector that holds it, when no other call is outstanding.
ReleasesItsOwn ==
  \A p \in Pods : phase[p] = "releasing" => observed[p] = p /\ call[p] = "none"

Inv == /\ TypeOK /\ SeenIsCurrent /\ LeadersLease /\ AnsweredIsLast /\ UpdateIsAllowed
       /\ StatusIsLeading /\ ReleasesItsOwn
=============================================================================
