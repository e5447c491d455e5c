\* One process, killed at most once and restarted for ever.
CONSTANTS
    Procs = {p1}
    Ids = {i1, i2, i3}
    NoId = none
    MaxKills = 1
SPECIFICATION FairSpec
PROPERTIES RestartRecovers
CHECK_DEADLOCK FALSE
