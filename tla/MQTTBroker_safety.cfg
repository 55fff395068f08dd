SPECIFICATION FairSpec
CONSTANTS
    TCPClients = {t1, t2}
    Connections = {c1, c2}
    Sessions = {s1, s2}
    ClientIDs = {alice, bob, carol}
    Topics = {voltage}
    MaxSubscribers = 2
    Null = Null
INVARIANTS
    TypeOK
    PairingConsistent
    TcpClientsOwned
    ListsConsistent
    OneSessionPerClient
    SubscribersAllocated
    SubscriberListHasRoom
    AcceptedClientHasConnection
PROPERTIES
    PersistentSurvives
    ImplementsStore
    ClosingIsFreed
    GoneIsFreed
