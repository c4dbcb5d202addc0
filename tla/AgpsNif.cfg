SPECIFICATION FairSpec
CONSTANTS
    c1 = c1  c2 = c2
    Clients <- MCClients
    QueueBound = 4
    ReqBound = 3
INVARIANTS
    SubscribersAreRight
    PendingIsAnswered
    OpenClientIsSubscribed
PROPERTIES
    KeepsContract
    OpeningIsAnswered
