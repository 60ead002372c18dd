CONSTANTS
  DNSPolicySet = {p1, p2}
  TLSPolicySet = {p1, p2}
  l1 = l1
  l2 = l2
  i1 = i1
  i2 = i2
  ListenerSet = {l1, l2}
  TLSListenerSet = {l1, l2}
  DNSHosts = {h1, h2}
  NoHost = NoHost
  NoRecord = NoRecord
  NoCert = NoCert
  Unborn = Unborn
  Gone = Gone
  DNSSpecs <- MCDNSSpecs
  DNSInitial <- MCDNSInitial
  TLSBlocks <- MCTLSBlocks
  TLSFirstBlock <- MCTLSFirstBlock
  IssuerSet = {i1, i2}
  TLSSpecs <- MCTLSSpecs
  MaxDNSChanges = 2
  MaxTLSChanges = 2
SPECIFICATION PoliciesSpec
INVARIANTS DNSRecordsMatch TLSCertificatesMatch PolicyStatusCurrent
PROPERTIES PoliciesSettle
CHECK_DEADLOCK FALSE
