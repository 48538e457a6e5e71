-------------------------- MODULE MCLeaderElection --------------------------
(* Instances of LeaderElection for TLC: pods that differ in nothing are    *)
(* interchangeable.                                                        *)
EXTENDS LeaderElection, TLC

PodSymmetry == Permutations(Mortal) \cup Permutations(Pods \ Mortal)
=============================================================================
