SPECIFICATION Spec
CONSTANTS
  Requests = {r1, r2, r3, r4}
  Original = Original
  None = None
SYMMETRY RequestSymmetry
INVARIANTS
  TypeOK
  SingleTokenPair
  CodeRedeemedOnce
  PKCEMeansNeverExchanged
  ReuseRevokesSession
PROPERTY ImplementsGrant
CHECK_DEADLOCK FALSE
