SPECIFICATION FairSpec
CONSTANTS
  p1 = p1
  p2 = p2
  Pods = {p1, p2}
  Mortal = {p1}
  Nobody = Nobody
  LeaseDuration = 4
  RenewDeadline = 1
  RetryPeriod = 1
  MaxResponseDelay = 1
  MaxStartDelay = 0
INVARIANTS TypeOK AtMostOneWriter WriterHoldsLease
PROPERTIES AlwaysAWriterAgain ImplementsLock

