\* One client, four events, a channel for two, a connection for one.
CONSTANTS
    Clients = {c1}
    Capacity = 2
    Buffer = 1
    MaxEvents = 4
SPECIFICATION FairSpec
INVARIANTS TypeOK EventsAccountedFor WrittenOnce
PROPERTIES ImplementsRelay ListeningResumes EventsReachClients ShutdownEnds
CHECK_DEADLOCK FALSE
