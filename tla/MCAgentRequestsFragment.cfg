\* The requests of MCAgentRequests.cfg: is what is proxied an item by name?
CONSTANTS
    d1 = d1  d2 = d2
    PlainSegments <- Plain
    EscapedSegments <- Escaped
    LooseSegments <- Loose
    Decode <- Unescape
    Fragmented <- WithHash
    Cut <- BeforeHash
    DeviceIds = {d1, d2}
    Profiles <- SomeProfiles
    Totals = {0, 1}
    MaxChanges = 2
    Inputs <- SomeInputs
    IncusStatuses = {200, 404}
SPECIFICATION Spec
INVARIANTS ProxiedNamesItem
CHECK_DEADLOCK FALSE
