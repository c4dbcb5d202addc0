SPECIFICATION Spec
CONSTANTS
  t1 = t1  t2 = t2  t3 = t3
  NoInd = NoInd  NoThread = NoThread
  Threads = {t1, t2, t3}
  NumSlots = 2
  IndOf <- MCIndOf
  SendReqRetries = 1
  MaxAnswers = 1
SYMMETRY Symmetry
INVARIANTS
  InUseIsExact
  BufferIsLive
  SlotsAreOwned
  WaiterWillHear
  SuccessIsAnswered
