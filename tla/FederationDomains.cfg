SPECIFICATION FairSpec
CONSTANTS
  n1 = n1
  n2 = n2
  c1 = c1
  c2 = c2
  NoCert = NoCert
  OtherPod = OtherPod
  Pods = {p1}
  Names = {n1, n2}
  Specs <- OneHost
  TLSSecrets = {"t1", "t2"}
  Certs = {c1, c2}
  OldDomains <- UpToRenaming
  OldCerts <- TwoCerts
  NoTLS = "none"
  DefaultTLS = "t1"
  MaxChanges = 1
CHECK_DEADLOCK FALSE
INVARIANTS ServedAreCompatible SettledIsRight
PROPERTIES OtherStatusKept ServedFollowDomains HostsGetTheirCerts
