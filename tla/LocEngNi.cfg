SPECIFICATION FairSpec
CONSTANTS
    n1 = n1  n2 = n2  e1 = e1
    NoReq = NoReq
    Requests = {n1, n2, e1}
    SessionOf <- MCSessionOf
    UserAnswers = {"ACCEPT", "DENY"}
    AskBound = 2
    DownBound = 1
    QueueBound = 2
INVARIANTS
    BusyHasThread
    AnsweredOnce
    OneHolder
    AnswerIsOwn
PROPERTIES
    SessionEnds
CHECK_DEADLOCK FALSE
