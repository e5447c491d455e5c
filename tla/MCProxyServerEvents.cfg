\* Two connections and one event at a time, no requests: the lock, and who is told.
CONSTANTS
    Conns = {c1, c2}
    Requests = {}
    Events = {e1}
    Loop = loop
    Forwarder = forwarder
    Free = free
SPECIFICATION FairSpec
INVARIANTS TypeOK LockHeldWhileNeeded
PROPERTIES  HealthyClientsGetEvents
