\* A host with up to three interfaces (one of them managed, one with the prefix
\* only, one of somebody else) that changes twice within a request.
CONSTANTS
    managed = managed  dashed = dashed  foreign = foreign
    k1 = k1  k2 = k2  a1 = a1  long = long  missing = missing
    Names = {managed, dashed, foreign}
    Prefixed = {managed, dashed}
    Manageable = {managed}
    Keys = {k1, k2}
    LongKey = long
    MissingKey = missing
    MaxPeers = 2
    MaxAddresses = 1
    MaxAllowedIps = 1
    Interfaces <- HostInterfaces
    MaxChanges = 2
    Bodies <- HostBodies
SPECIFICATION FairSpec
INVARIANTS TypeOK ReportInventsNothing SteadyInterfacesReported ApplyIsRight
PROPERTIES RequestsAnswered
CHECK_DEADLOCK FALSE
