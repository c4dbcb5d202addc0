SPECIFICATION Spec
CONSTANTS
    Handles = {h1, h2}
    Kinds <- MCKinds
    MaxRetries = 1
    QueueBound <- MCQueueBound
    ReqBound = 1
    TimerBound = 2
SYMMETRY Symmetry
INVARIANTS
    ConnectionsAccounted
PROPERTIES
    KeepContracts
