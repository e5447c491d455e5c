\* Two requests of several kinds on one name; Incus may never answer, its replies may
\* be undecodable, nobody else drives it.
CONSTANTS
    r1 = r1  r2 = r2
    n1 = n1  n2 = n2  bad = bad  d1 = d1  d2 = d2
    Requests = {r1, r2}
    Names = {n1}
    BadName = bad
    DeviceIds = {d1, d2}
    Inputs <- ContractInputs
    Profiles <- PlainRoot
    ErrorStatuses = {404, 503}
    GarbledReplies = TRUE
    OtherClients = FALSE
SPECIFICATION FairSpec
INVARIANTS AnswersTellPresence MissingOnlyIfDeleted AckedCreateExists
PROPERTIES EveryRequestAnswered ImplementsContract
