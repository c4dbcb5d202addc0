SPECIFICATION Spec
CONSTANTS
  c1 = c1  c2 = c2  c3 = c3  c4 = c4  c5 = c5
  NoConn = NoConn
  Conns = {c1, c2, c3, c4, c5}
  Dst <- MCDst
  Src <- MCSrc
  T = 4
  E = 4
SYMMETRY SameHashes
INVARIANTS
  FoundFromBothSides
  ChainsIntact
PROPERTIES
  ImplementsNatTable
