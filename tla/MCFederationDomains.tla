------------------------- MODULE MCFederationDomains -------------------------
(* Instances of FederationDomains for TLC. *)
EXTENDS FederationDomains

CONSTANTS n1, n2, c1, c2

TwoCerts == [t \in TLSSecrets |-> IF t = "t1" THEN c1 ELSE c2]

Valid(issuer, host, tls) == [parses |-> TRUE, valid |-> TRUE, issuer |-> issuer, host |-> host, tls |-> tls]

\* Issuers that parse but are not valid, and that do not even parse.
Invalid == [parses |-> TRUE, valid |-> FALSE, issuer |-> "i4", host |-> "h1", tls |-> "t2"]
Unparsable == [parses |-> FALSE, valid |-> FALSE, issuer |-> "i5", host |-> "h2", tls |-> "none"]

\* On one host: rivals with different Secrets, one that goes with either, and an invalid one.
InOrder == <<Valid("i1", "h1", "t1"), Valid("i2", "h1", "t2"), Valid("i3", "h1", "none"), Invalid, Unparsable>>
OneHost == {InOrder[i] : i \in 1..5}

\* Up to two FederationDomains, of which n1 has the earlier spec: the names do not matter.
UpToRenaming ==
  LET spec(i) == IF i = 6 THEN {} ELSE {InOrder[i]} IN
  {[n \in Names |-> spec(IF n = n1 THEN i ELSE j)] : <<i, j>> \in {ij \in (1..6) \X (1..6) : ij[1] <= ij[2]}}
=============================================================================
