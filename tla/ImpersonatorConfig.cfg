SPECIFICATION FairSpec
CONSTANTS
  Absent = Absent
  ControlPlane = FALSE
  Specs <- AllSpecs
  Earlier <- WithLoadBalancer
  ForeignKeys = {"f"}
  Addresses = {"a1"}
  ClusterIP = "ip"
  MaxChanges = 1
CHECK_DEADLOCK FALSE
INVARIANTS SettledFits NoOrphanServer
PROPERTIES PublishedIsTrue ForeignKeysStay ProxyFollowsSpec
