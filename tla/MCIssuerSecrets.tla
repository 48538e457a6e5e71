--------------------------- MODULE MCIssuerSecrets ---------------------------
(* An instance of IssuerSecrets for TLC. *)
EXTENDS IssuerSecrets

CONSTANTS p1, p2, d1, d2, i1

Start(pods, requested, domains, keyed, emptied, spent) ==
  [pods |-> pods, requested |-> requested, domains |-> domains,
   keyed |-> keyed, emptied |-> emptied, spent |-> spent]

\* One pod and two FederationDomains, and something changes.  Or two pods that race for
\* the Secret of one FederationDomain, which has no key or does not exist yet.
MCStarts ==
  {Start({p1}, {i1}, {d1, d2}, {d2}, {d1}, 0),
   Start({p1, p2}, {}, {d1}, {}, {d1}, MaxChanges),
   Start({p1, p2}, {}, {d1}, {}, {}, MaxChanges)}
=============================================================================
