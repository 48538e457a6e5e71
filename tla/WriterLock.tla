----------------------------- MODULE WriterLock -----------------------------
(***************************************************************************)
(* What leader election promises to the controllers: a lock.  One pod at a *)
(* time may write, only the pod that holds the lock may begin to, and the  *)
(* lock changes hands only while nobody may write.                         *)
(***************************************************************************)
CONSTANTS Pods, Nobody

VARIABLES
  holder, \* of the lock
  writers \* the pods whose controllers may write

vars == <<holder, writers>>

Init == holder = Nobody /\ writers = {}

Pass(p) == writers = {} /\ holder' = p /\ UNCHANGED writers
Begin(p) == holder = p /\ writers = {} /\ writers' = {p} /\ UNCHANGED holder
Stop == writers # {} /\ writers' = {} /\ UNCHANGED holder

Next == Stop \/ Pass(Nobody) \/ \E p \in Pods : Pass(p) \/ Begin(p)
Spec == Init /\ [][Next]_vars
=============================================================================
