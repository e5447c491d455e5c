\* Two processes start on a host without an identity.
CONSTANTS
    Procs = {p1, p2}
    Ids = {i1, i2, i3}
    NoId = none
    MaxKills = 1
SPECIFICATION Spec
INVARIANTS StableIdentity
CHECK_DEADLOCK FALSE
