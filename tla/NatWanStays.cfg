SPECIFICATION WanStaysSpec
CONSTANTS
  c1 = c1  c2 = c2  c3 = c3  c4 = c4
  a = a  b = b  x = x  y = y  z = z  dev = dev
  w1 = w1  w2 = w2
  NoConn = NoConn  NoIp = NoIp
  Conns = {c1, c2, c3}
  Private <- MCPrivate
  Target <- MCTarget
  Ips <- MCIps
  Device = dev
  AlgConns = {}
  PubIps = {w1}
  DownIps = {}
  NatIfaceIps = {a, b}
  ClientIps = {a, b}
  PrivateSubnet = {a, b}
  StaIps = {}
  StaModes = {FALSE}
  MaxEntries = 3
  MaxTemp = 3
  MaxPwrSave = 2
  HwSize = 3
  MaxNatIfaces = 2
  MaxStaClnts = 1
  MaxQueue = 2
  AddMayFail = FALSE
  DelMayFail = FALSE
  UdpThread = FALSE
  ReAnnounce = FALSE
INVARIANTS
  KnownConnectionOffloaded
