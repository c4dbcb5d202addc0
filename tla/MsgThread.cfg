SPECIFICATION FairSpec
CONSTANTS
  Msgs = {m1, m2, m3}
  NoMsg = NoMsg
INVARIANTS
  EndsWell
  EachMessageOnce
PROPERTIES
  DestroyReturns
  AcceptedIsProcessed
CHECK_DEADLOCK FALSE
