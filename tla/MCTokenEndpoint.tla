-------------------------- MODULE MCTokenEndpoint --------------------------
(* TokenEndpoint with a small number of requests.                          *)
EXTENDS TokenEndpoint, TLC

\* Requests are interchangeable until they start.
RequestSymmetry == Permutations(Requests)
=============================================================================
