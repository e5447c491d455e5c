\* Three processes from no file or an identity, killed up to three times.
CONSTANTS
    Procs = {p1, p2, p3}
    Ids = {i1, i2, i3, i4}
    NoId = none
    MaxKills = 3
SPECIFICATION Spec
INVARIANTS TypeOK PersistedBeforeServed
PROPERTIES SettledIdentityStays
CHECK_DEADLOCK FALSE
