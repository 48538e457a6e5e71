SPECIFICATION Spec
CONSTANTS
  Requests = {r1, r2, r3}
  Original = Original
  None = None
SYMMETRY RequestSymmetry
INVARIANT
  RefreshStorageHoldsLatestUpstreamToken
CHECK_DEADLOCK FALSE
