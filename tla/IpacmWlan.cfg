SPECIFICATION Spec
CONSTANTS
  Aps = {ap0, ap1}
  Macs = {m1, m2}
  Ip4 = {a, b}
  Ip6 = {x}
  NoIp = NoIp
  IPA_MAX_NUM_WIFI_CLIENTS = 2
  IPV6_NUM_ADDR = 1
  MaxFaults = 1
SYMMETRY Symmetry
INVARIANTS
  RulesFit
  HardwareAccounted
  NatKnowsClients
CHECK_DEADLOCK FALSE
