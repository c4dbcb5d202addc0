SPECIFICATION FairSpec
CONSTANTS
  c1 = c1  c2 = c2  c3 = c3  c4 = c4
  a = a  b = b  x = x  y = y  z = z  dev = dev
  w1 = w1  w2 = w2
  NoConn = NoConn  NoIp = NoIp
  Conns = {c3}
  Private <- MCPrivate
  Target <- MCTarget
  Ips <- MCIps
  Device = dev
  AlgConns = {}
  PubIps = {w1, w2}
  DownIps = {w1, w2}
  NatIfaceIps = {b}
  ClientIps = {b}
  PrivateSubnet = {b}
  StaIps = {x}
  StaModes = {TRUE}
  MaxEntries = 2
  MaxTemp = 1
  MaxPwrSave = 1
  HwSize = 2
  MaxNatIfaces = 1
  MaxStaClnts = 2
  MaxQueue = 1
  AddMayFail = TRUE
  DelMayFail = FALSE
  UdpThread = TRUE
  ReAnnounce = TRUE
PROPERTIES
  ClosedIsForgotten
CHECK_DEADLOCK FALSE
