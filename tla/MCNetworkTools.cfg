\* The same host as in MCNetwork.cfg: are interfaces reported without ip?
CONSTANTS
    managed = managed  dashed = dashed  foreign = foreign
    k1 = k1  k2 = k2  a1 = a1  long = long  missing = missing
    Names = {managed, dashed, foreign}
    Prefixed = {managed, dashed}
    Manageable = {managed}
    Keys = {k1, k2}
    LongKey = long
    MissingKey = missing
    MaxPeers = 2
    MaxAddresses = 1
    MaxAllowedIps = 1
    Interfaces <- HostInterfaces
    MaxChanges = 2
    Bodies <- HostBodies
SPECIFICATION Spec
INVARIANTS BothToolsRequired
CHECK_DEADLOCK FALSE
