\* Two connections and one request at a time, no events: the lock, who gets it, and
\* who gets a turn.
CONSTANTS
    Conns = {c1, c2}
    Requests = {r1}
    Events = {}
    Loop = loop
    Forwarder = forwarder
    Free = free
SPECIFICATION FairSpec
INVARIANTS LockHeldWhileNeeded
PROPERTIES  NewClientsEnter ResponsesEnd DeadConnectionsLeave StalledResponseDropsClient
