\* Two requests, every kind of input and profile, undecodable replies, another
\* client of the same Incus.
CONSTANTS
    r1 = r1  r2 = r2
    n1 = n1  n2 = n2  bad = bad  d1 = d1  d2 = d2
    Requests = {r1, r2}
    Names = {n1}
    BadName = bad
    DeviceIds = {d1, d2}
    Inputs <- MixedInputs
    Profiles <- AllProfiles
    ErrorStatuses = {404, 500}
    GarbledReplies = TRUE
    OtherClients = TRUE
SYMMETRY Symmetry
SPECIFICATION Spec
INVARIANTS TypeOK CompletedMeansSucceeded RefusalIsFinal SafeRootDisk
