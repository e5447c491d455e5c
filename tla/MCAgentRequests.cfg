\* Any one request; for a report, host and Incus change twice.
CONSTANTS
    d1 = d1  d2 = d2
    PlainSegments <- Plain
    EscapedSegments <- Escaped
    LooseSegments <- Loose
    Decode <- Unescape
    Fragmented <- WithHash
    Cut <- BeforeHash
    DeviceIds = {d1, d2}
    Profiles <- SomeProfiles
    Totals = {0, 1}
    MaxChanges = 2
    Inputs <- SomeInputs
    IncusStatuses = {200, 404}
SPECIFICATION FairSpec
INVARIANTS TypeOK ProxiedReadsOnly AgentPathsStay ClaimsWereTrue DenialsHadReason
PROPERTIES RequestsAnswered
CHECK_DEADLOCK FALSE
